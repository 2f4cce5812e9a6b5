--------------------------- MODULE LruListsProofs ---------------------------
(***************************************************************************)
(* Every page of a zone stays in one place, with the flags of the list it  *)
(* is on, and no evictable page stays behind on the unevictable list: for  *)
(* any number of pages, reclaimers and tasks that lock memory.             *)
(***************************************************************************)
EXTENDS LruLists, FiniteSetTheorems, TLAPS

Pcs == {"idle", "wait", "isolate", "work", "putback", "add", "recheck", "take"}

Regs == [pc : Pcs, kind : Kinds, from : {"active", "inactive"}, held : SUBSET Pages,
         keep : SUBSET Pages, taken : Int, page : SUBSET Pages, was : BOOLEAN,
         back : {"idle", "work"}]

TypeInv ==
    /\ on \in [Pages -> Lists \cup {"vec", "none"}]
    /\ active \subseteq Pages /\ unev \subseteq Pages
    /\ mlocked \subseteq Pages /\ user \subseteq Pages
    /\ shmLocked \in BOOLEAN /\ shm \in {"idle", "move"}
    /\ act \in [Actors -> Regs]

(* The pages r owns: on no list, to be put back by it.  Those it refers to.  *)
Own(r) == r.held \cup r.keep \cup (IF r.pc \in {"putback", "add"} THEN r.page ELSE {})
Ref(r) == r.held \cup r.keep \cup r.page

(* What the registers hold at each place of the code.                       *)
Shape(r) ==
    /\ r.pc \in {"idle", "wait", "isolate", "take"} => r.held = {} /\ r.keep = {}
    /\ r.pc \in {"idle", "wait", "isolate", "work"} => r.page = {}
    /\ r.pc \in {"putback", "add", "recheck", "take"} => \E p \in Pages : r.page = {p}
    /\ r.pc \in {"putback", "add", "recheck"} /\ r.back = "idle" => r.held = {} /\ r.keep = {}
    /\ r.page \cap (r.held \cup r.keep) = {}

Shapes == \A a \in Actors : Shape(act[a])

(* A page that is owned has one owner and is on no list; a page in use that *)
(* is on no list is owned, and a page on a list is referred to.             *)
Place ==
    /\ \A a, b \in Actors : a # b => Own(act[a]) \cap Own(act[b]) = {}
    /\ \A a \in Actors : \A p \in Own(act[a]) : on[p] = "none"
    /\ \A p \in Pages : on[p] = "none" /\ p \in user => \E a \in Actors : p \in Own(act[a])
    /\ \A p \in Pages : on[p] \in Lists => p \in user \/ \E a \in Actors : p \in Ref(act[a])

(* Flags of the pages that are on their way to a list.                      *)
Flags ==
    /\ FlagsFitList
    /\ \A p \in Pages : on[p] = "vec" => p \notin unev
    /\ \A a \in Actors : \A p \in act[a].held \cup act[a].keep : p \notin unev
    /\ \A a \in Actors : act[a].pc = "add" =>
         \A p \in act[a].page : p \notin unev /\ p \notin active

LruInv == TypeInv /\ Shapes /\ Place /\ Flags /\ NeverStranded

----------------------------------------------------------------------------
(* Lemmas about steps.                                                     *)

LEMMA OwnIs ==
  ASSUME NEW a \in Actors
  PROVE  Isolated(a) = Own(act[a]) /\ InHand(a) = Ref(act[a])
BY DEF Isolated, InHand, Own, Ref

(* An actor that changes its registers changes nobody else's.               *)
LEMMA Becomes ==
  ASSUME TypeInv, NEW a \in Actors, NEW r, Become(a, r)
  PROVE  /\ \A b \in Actors : act'[b] = IF b = a THEN r ELSE act[b]
         /\ r \in Regs => act' \in [Actors -> Regs]
BY DEF TypeInv, Become

(* An actor may take pages that were on a list or a vector, and let go of   *)
(* pages it has put somewhere or that nobody uses.                          *)
LEMMA PlaceStep ==
  ASSUME Place, NEW a \in Actors, NEW r,
         \A b \in Actors : act'[b] = IF b = a THEN r ELSE act[b],
         user' \subseteq user,
         \A p \in Own(r) : p \in Own(act[a]) \/ on[p] # "none",
         \A p \in Own(r) : on'[p] = "none",
         \A p \in Own(act[a]) \ Own(r) : on'[p] # "none" \/ p \notin user',
         \A b \in Actors \ {a} : \A p \in Own(act[b]) : on'[p] = "none",
         \A p \in Pages : on'[p] = "none" => on[p] = "none" \/ p \in Own(r) \/ p \notin user',
         \A p \in Pages : on'[p] \in Lists =>
           p \in user' \/ p \in Ref(r) \/ \E b \in Actors \ {a} : p \in Ref(act[b])
  PROVE  Place'
<1>1. \A b, c \in Actors : b # c => Own(act'[b]) \cap Own(act'[c]) = {}
  BY DEF Place
<1>2. \A b \in Actors : \A p \in Own(act'[b]) : on'[p] = "none"
  OBVIOUS
<1>3. \A p \in Pages : on'[p] = "none" /\ p \in user' => \E b \in Actors : p \in Own(act'[b])
  <2> SUFFICES ASSUME NEW p \in Pages, on'[p] = "none", p \in user', p \notin Own(r)
               PROVE  \E b \in Actors : p \in Own(act'[b])
    OBVIOUS
  <2>1. PICK b \in Actors : p \in Own(act[b])
    BY DEF Place
  <2> QED BY <2>1
<1>4. \A p \in Pages : on'[p] \in Lists => p \in user' \/ \E b \in Actors : p \in Ref(act'[b])
  OBVIOUS
<1> QED BY <1>1, <1>2, <1>3, <1>4 DEF Place, Own, Ref

(* Pages that move while no registers change are owned by nobody.           *)
LEMMA PlaceStay ==
  ASSUME Place, act' = act, user' \subseteq user,
         \A a \in Actors : \A p \in Own(act[a]) : on'[p] = "none",
         \A p \in Pages : on'[p] = "none" => on[p] = "none" \/ p \notin user',
         \A p \in Pages : on'[p] \in Lists => p \in user' \/ \E a \in Actors : p \in Ref(act[a])
  PROVE  Place'
BY DEF Place, Own, Ref

(* The page in the register page, where there is one.                       *)
LEMMA ThePage ==
  ASSUME TypeInv, Shapes, NEW a \in Actors,
         act[a].pc \in {"putback", "add", "recheck", "take"}
  PROVE  LET p == CHOOSE q \in act[a].page : TRUE IN p \in Pages /\ act[a].page = {p}
<1>1. PICK p \in Pages : act[a].page = {p}
  BY DEF Shapes, Shape
<1>2. (CHOOSE q \in {p} : TRUE) = p
  OBVIOUS
<1> QED BY <1>1, <1>2

----------------------------------------------------------------------------
(* putback_lru_page.                                                       *)

LEMMA PutbackInv == ASSUME LruInv, NEW a \in Actors, Putback(a) PROVE LruInv'
<1> DEFINE r  == act[a]
           p  == CHOOSE q \in r.page : TRUE
           r2 == [r EXCEPT !.pc = r.back, !.page = {}, !.was = FALSE, !.back = "idle"]
           r3 == [r EXCEPT !.pc = "add"]
<1>1. TypeInv /\ Shapes /\ Place /\ Flags /\ NeverStranded
  BY DEF LruInv
<1>2. r \in Regs /\ Shape(r) /\ r.pc = "putback"
  BY <1>1 DEF TypeInv, Shapes, Putback
<1>3. p \in Pages /\ r.page = {p}
  BY <1>1, <1>2, ThePage
<1>4. /\ unev' = unev \ {p} /\ UNCHANGED <<mlocked, shmLocked, user, shm>>
      /\ \/ /\ Evictable(p) /\ on' = [on EXCEPT ![p] = "vec"] /\ Become(a, r2)
            /\ active' = active \cup {p} \/ active' = active \ {p}
         \/ /\ ~Evictable(p) /\ on' = on /\ Become(a, r3)
            /\ active' = active \ {p}
  BY Zenon DEF Putback, ClearActive
<1> HIDE DEF p
<1>5. /\ p \in Own(r) /\ p \notin r.held /\ p \notin r.keep /\ on[p] = "none"
      /\ \A b \in Actors \ {a} : p \notin Own(act[b])
  BY <1>1, <1>2, <1>3 DEF Own, Shape, Place
<1>6. CASE Evictable(p)
  <2>1. on' = [on EXCEPT ![p] = "vec"] /\ Become(a, r2) /\ active' \subseteq active \cup {p}
    BY <1>4, <1>6
  <2>2. /\ r2 \in Regs /\ r2.pc = r.back /\ r2.held = r.held /\ r2.keep = r.keep /\ r2.page = {}
        /\ r2.back = "idle"
    BY <1>2 DEF Regs, Pcs
  <2> HIDE DEF r2
  <2>3. r2.pc \in {"idle", "work"} /\ Shape(r2)
    BY <1>2, <2>2 DEF Shape, Regs
  <2>4. Own(r2) = r.held \cup r.keep /\ Ref(r2) = r.held \cup r.keep
    BY <2>2, <2>3 DEF Own, Ref
  <2>5. \A b \in Actors : act'[b] = IF b = a THEN r2 ELSE act[b]
    BY <1>1, <2>1, Becomes
  <2>6. TypeInv'
    BY <1>1, <1>3, <1>4, <2>1, <2>2, Becomes DEF TypeInv
  <2>7. \A q \in Pages : on'[q] = IF q = p THEN "vec" ELSE on[q]
    BY <1>1, <2>1 DEF TypeInv
  <2>8. Shapes'
    BY <1>1, <2>3, <2>5 DEF Shapes, Shape
  <2>9. Place'
    <3>1. \A q \in Own(r) \ Own(r2) : q = p
      BY <1>3, <2>4 DEF Own
    <3>2. \A b \in Actors \ {a} : \A q \in Own(act[b]) : q # p /\ q \in Pages /\ on[q] = "none"
      BY <1>1, <1>5 DEF Place, Own, TypeInv, Regs
    <3>3. \A q \in Own(r2) : q \in Own(r) /\ q # p /\ q \in Pages /\ on[q] = "none"
      BY <1>1, <1>2, <1>5, <2>4 DEF Place, Own, Regs
    <3>4. \A q \in Pages : on'[q] \in Lists => on[q] \in Lists /\ q # p
      BY <2>7 DEF Lists
    <3>5. \A q \in Pages : q # p => (q \in Ref(act[a]) <=> q \in Ref(r2))
      BY <1>3, <2>4 DEF Ref
    <3>6. \A q \in Pages : on'[q] \in Lists =>
             q \in user' \/ q \in Ref(r2) \/ \E b \in Actors \ {a} : q \in Ref(act[b])
      BY <1>1, <1>4, <3>4, <3>5 DEF Place
    <3>7. user' = user
      BY <1>4
    <3>8. /\ \A q \in Own(r2) : q \in Own(act[a]) /\ on'[q] = "none"
          /\ \A q \in Own(act[a]) \ Own(r2) : on'[q] # "none"
          /\ \A b \in Actors \ {a} : \A q \in Own(act[b]) : on'[q] = "none"
          /\ \A q \in Pages : on'[q] = "none" => on[q] = "none"
      BY <1>3, <2>7, <3>1, <3>2, <3>3
    <3> QED BY <1>1, <2>5, <3>6, <3>7, <3>8, PlaceStep
  <2>10. Flags'
    <3>1. FlagsFitList' /\ \A q \in Pages : on'[q] = "vec" => q \notin unev'
      BY <1>1, <1>4, <2>1, <2>7 DEF Flags, FlagsFitList
    <3>2. \A b \in Actors : \A q \in act'[b].held \cup act'[b].keep : q \notin unev'
      BY <1>1, <1>4, <2>2, <2>5 DEF Flags
    <3>3. \A b \in Actors : act'[b].pc = "add" =>
             \A q \in act'[b].page : q \notin unev' /\ q \notin active'
      BY <1>1, <1>4, <1>5, <2>1, <2>3, <2>5 DEF Flags, Own
    <3> QED BY <3>1, <3>2, <3>3 DEF Flags
  <2>11. NeverStranded'
    BY <1>1, <1>2, <1>4, <2>5, <2>7 DEF NeverStranded, Evictable
  <2> QED BY <2>6, <2>8, <2>9, <2>10, <2>11 DEF LruInv
<1>7. CASE ~Evictable(p)
  <2>1. on' = on /\ Become(a, r3) /\ active' = active \ {p}
    BY <1>4, <1>7
  <2>2. /\ r3 \in Regs /\ r3.pc = "add" /\ r3.held = r.held /\ r3.keep = r.keep /\ r3.page = {p}
        /\ r3.back = r.back
    BY <1>2, <1>3 DEF Regs, Pcs
  <2> HIDE DEF r3
  <2>3. Shape(r3)
    BY <1>2, <1>3, <2>2 DEF Shape
  <2>4. Own(r3) = Own(r) /\ Ref(r3) = Ref(r)
    BY <1>2, <1>3, <2>2 DEF Own, Ref
  <2>5. \A b \in Actors : act'[b] = IF b = a THEN r3 ELSE act[b]
    BY <1>1, <2>1, Becomes
  <2>6. TypeInv'
    BY <1>1, <1>4, <2>1, <2>2, Becomes DEF TypeInv
  <2>8. Shapes'
    BY <1>1, <2>3, <2>5 DEF Shapes, Shape
  <2>9. Place'
    BY <1>1, <1>4, <2>1, <2>4, <2>5, PlaceStep DEF Place
  <2>10. Flags'
    <3>1. FlagsFitList' /\ \A q \in Pages : on'[q] = "vec" => q \notin unev'
      BY <1>1, <1>3, <1>4, <1>5, <2>1 DEF Flags, FlagsFitList
    <3>2. \A b \in Actors : \A q \in act'[b].held \cup act'[b].keep : q \notin unev'
      BY <1>1, <1>4, <2>2, <2>5 DEF Flags
    <3>3. \A b \in Actors : act'[b].pc = "add" =>
             \A q \in act'[b].page : q \notin unev' /\ q \notin active'
      BY <1>1, <1>4, <2>1, <2>2, <2>5 DEF Flags
    <3> QED BY <3>1, <3>2, <3>3 DEF Flags
  <2>11. NeverStranded'
    BY <1>1, <1>2, <1>4, <2>1, <2>5 DEF NeverStranded, Evictable
  <2> QED BY <2>6, <2>8, <2>9, <2>10, <2>11 DEF LruInv
<1> QED BY <1>6, <1>7


(* A step that moves no page: the actor keeps what it owns and lets go of    *)
(* no page on a list; it may set PG_active of a page it owns.               *)
LEMMA RegStep ==
  ASSUME LruInv, NEW a \in Actors, NEW r \in Regs, Become(a, r), Shape(r),
         Own(r) = Own(act[a]), \A p \in Ref(act[a]) : p \in Ref(r) \/ on[p] \notin Lists,
         on' = on, unev' = unev, user' = user,
         active' \subseteq active \cup Own(act[a]),
         mlocked' \subseteq Pages, shmLocked' \in BOOLEAN, shm' = shm,
         \A p \in r.held \cup r.keep : p \notin unev,
         r.pc # "add"
  PROVE  TypeInv' /\ Shapes' /\ Place' /\ Flags'
<1>0. TypeInv /\ Shapes /\ Place /\ Flags
  BY DEF LruInv
<1>1. \A b \in Actors : act'[b] = IF b = a THEN r ELSE act[b]
  BY <1>0, Becomes
<1>2. Own(act[a]) \subseteq Pages
  BY <1>0 DEF Own, TypeInv, Regs
<1>3. TypeInv'
  BY <1>0, <1>2, Becomes DEF TypeInv
<1>4. Shapes'
  BY <1>0, <1>1 DEF Shapes, Shape
<1>5. Place'
  <2>1. \A p \in Pages : on'[p] \in Lists =>
          p \in user' \/ p \in Ref(r) \/ \E b \in Actors \ {a} : p \in Ref(act[b])
    BY <1>0 DEF Place
  <2>2. \A b \in Actors : \A p \in Own(act[b]) : on'[p] = "none"
    BY <1>0 DEF Place
  <2>3. \A p \in Own(r) : p \in Own(act[a]) /\ on'[p] = "none"
    BY <2>2
  <2>4. \A p \in Own(act[a]) \ Own(r) : FALSE
    OBVIOUS
  <2> QED BY <1>0, <1>1, <2>1, <2>2, <2>3, <2>4, PlaceStep
<1>6. Flags'
  <2>1. FlagsFitList' /\ \A q \in Pages : on'[q] = "vec" => q \notin unev'
    <3>1. \A q \in Own(act[a]) : on[q] = "none"
      BY <1>0 DEF Place
    <3> QED BY <1>0, <3>1 DEF Flags, FlagsFitList
  <2>2. \A b \in Actors : \A q \in act'[b].held \cup act'[b].keep : q \notin unev'
    BY <1>0, <1>1 DEF Flags
  <2>3. \A b \in Actors : act'[b].pc = "add" =>
           \A q \in act'[b].page : q \notin unev' /\ q \notin active'
    <3> SUFFICES ASSUME NEW b \in Actors, b # a, act[b].pc = "add", NEW q \in act[b].page
                 PROVE  q \notin unev /\ q \notin active'
      BY <1>1
    <3>1. q \in Own(act[b])
      BY DEF Own
    <3>2. q \notin Own(act[a])
      BY <1>0, <3>1 DEF Place
    <3> QED BY <1>0, <3>2 DEF Flags
  <2> QED BY <2>1, <2>2, <2>3 DEF Flags
<1> QED BY <1>3, <1>4, <1>5, <1>6

(* BeginPutback: a page that r owns, or that it just took, goes to putback.  *)
LEMMA BeginShape ==
  ASSUME NEW r \in Regs, Shape(r), r.pc \in {"work", "take"}, NEW p \in Pages,
         r.pc = "take" => r.page = {p},
         NEW back \in {"idle", "work"}, back = "idle" => r.pc = "take"
  PROVE  LET r2 == BeginPutback(r, p, back) IN
         /\ r2 \in Regs /\ Shape(r2) /\ r2.pc = "putback" /\ r2.page = {p}
         /\ Own(r2) = r.held \cup r.keep \cup {p} /\ Ref(r2) = Own(r2)
         /\ r2.held = r.held \ {p} /\ r2.keep = r.keep \ {p}
<1> DEFINE r2 == BeginPutback(r, p, back)
<1>1. /\ r2 \in Regs /\ r2.pc = "putback" /\ r2.page = {p}
      /\ r2.held = r.held \ {p} /\ r2.keep = r.keep \ {p} /\ r2.back = back
  <2>1. (p \in active) \in BOOLEAN
    OBVIOUS
  <2> DEFINE was == p \in active
  <2> HIDE DEF was
  <2>2. /\ r2 = [r EXCEPT !.pc = "putback", !.page = {p}, !.was = was, !.back = back,
                          !.held = @ \ {p}, !.keep = @ \ {p}]
        /\ was \in BOOLEAN
    BY <2>1 DEF BeginPutback, was
  <2> HIDE DEF r2
  <2> QED BY <2>2 DEF Regs, Pcs
<1> HIDE DEF r2
<1>2. Shape(r2)
  BY <1>1 DEF Shape
<1> QED BY <1>1, <1>2 DEF Own, Ref, r2

LEMMA CullInv ==
  ASSUME LruInv, NEW a \in Actors, NEW p \in Pages, Cull(a, p) \/ PutbackCull(a, p)
  PROVE  LruInv'
<1> DEFINE r  == act[a]
           r2 == BeginPutback(r, p, "work")
<1>1. /\ r.pc = "work" /\ p \in r.held \cup r.keep /\ Become(a, r2)
      /\ UNCHANGED <<on, active, unev, mlocked, shmLocked, user, shm>>
  BY DEF Cull, PutbackCull
<1>2. TypeInv /\ r \in Regs /\ Shape(r) /\ Flags /\ NeverStranded
  BY DEF LruInv, TypeInv, Shapes
<1>3. /\ r2 \in Regs /\ Shape(r2) /\ r2.pc = "putback" /\ r2.page = {p}
      /\ Own(r2) = r.held \cup r.keep \cup {p} /\ Ref(r2) = Own(r2)
      /\ r2.held = r.held \ {p} /\ r2.keep = r.keep \ {p}
  BY <1>1, <1>2, BeginShape
<1> HIDE DEF r2
<1>4. Own(r) = r.held \cup r.keep /\ Ref(r) = Own(r)
  BY <1>1, <1>2 DEF Own, Ref, Shape
<1>5. Own(r2) = Own(r) /\ Ref(r) = Ref(r2)
  BY <1>1, <1>3, <1>4
<1>6. \A q \in r2.held \cup r2.keep : q \notin unev
  BY <1>2, <1>3 DEF Flags
<1>7. mlocked' \subseteq Pages /\ shmLocked' \in BOOLEAN
  BY <1>1, <1>2 DEF TypeInv
<1>8. TypeInv' /\ Shapes' /\ Place' /\ Flags'
  BY <1>1, <1>3, <1>5, <1>6, <1>7, RegStep
<1>9. \A b \in Actors : act'[b] = IF b = a THEN r2 ELSE act[b]
  BY <1>1, <1>2, Becomes
<1>10. NeverStranded'
  BY <1>1, <1>2, <1>9 DEF NeverStranded, Evictable
<1> QED BY <1>8, <1>10 DEF LruInv

LEMMA KeepPageInv ==
  ASSUME LruInv, NEW a \in Actors, NEW p \in Pages, NEW isActive \in BOOLEAN,
         KeepPage(a, p, isActive)
  PROVE  LruInv'
<1> DEFINE r  == act[a]
           r2 == [r EXCEPT !.held = @ \ {p}, !.keep = @ \cup {p}]
<1>1. /\ r.pc = "work" /\ p \in r.held /\ Become(a, r2)
      /\ UNCHANGED <<on, unev, mlocked, shmLocked, user, shm>>
      /\ active' = active \cup {p} \/ active' = active \ {p}
  BY DEF KeepPage
<1>2. TypeInv /\ r \in Regs /\ Shape(r) /\ Flags /\ NeverStranded
  BY DEF LruInv, TypeInv, Shapes
<1>3. /\ r2 \in Regs /\ r2.pc = "work" /\ r2.page = r.page
      /\ r2.held = r.held \ {p} /\ r2.keep = r.keep \cup {p}
  BY <1>1, <1>2 DEF Regs
<1> HIDE DEF r2
<1>4. Shape(r2) /\ Own(r2) = Own(r) /\ Ref(r2) = Ref(r) /\ p \in Own(r)
  BY <1>1, <1>2, <1>3 DEF Shape, Own, Ref
<1>6. \A q \in r2.held \cup r2.keep : q \notin unev
  BY <1>1, <1>2, <1>3 DEF Flags
<1>7. mlocked' \subseteq Pages /\ shmLocked' \in BOOLEAN /\ active' \subseteq active \cup Own(r)
  BY <1>1, <1>2, <1>4 DEF TypeInv
<1>8. TypeInv' /\ Shapes' /\ Place' /\ Flags'
  BY <1>1, <1>3, <1>4, <1>6, <1>7, RegStep
<1>9. \A b \in Actors : act'[b] = IF b = a THEN r2 ELSE act[b]
  BY <1>1, <1>2, Becomes
<1>10. NeverStranded'
  BY <1>1, <1>2, <1>9 DEF NeverStranded, Evictable
<1> QED BY <1>8, <1>10 DEF LruInv

(* ShrinkList, EnoughLeft and WaitKilled move between places where nothing  *)
(* is held.                                                                 *)
LEMMA WaitInv ==
  ASSUME LruInv, NEW a \in Actors, ShrinkList(a) \/ EnoughLeft(a) \/ WaitKilled(a)
  PROVE  LruInv'
<1> DEFINE r == act[a]
<1>1. TypeInv /\ r \in Regs /\ Shape(r) /\ Flags /\ NeverStranded
  BY DEF LruInv, TypeInv, Shapes
<1>2. /\ r.pc \in {"idle", "wait"}
      /\ UNCHANGED <<on, active, unev, mlocked, shmLocked, user, shm>>
  BY DEF ShrinkList, EnoughLeft, WaitKilled
<1>3. \E r2 \in Regs : /\ Become(a, r2) /\ r2.pc \in {"idle", "wait", "isolate"}
                       /\ r2.held = {} /\ r2.keep = {} /\ r2.page = {}
  <2>1. /\ Rest \in Regs /\ Rest.pc = "idle" /\ Rest.held = {} /\ Rest.keep = {} /\ Rest.page = {}
    BY DEF Rest, Regs, Pcs, Kinds
  <2>2. CASE ShrinkList(a)
    <3>1. PICK kd \in Kinds :
            \/ Become(a, [Rest EXCEPT !.pc = "wait", !.kind = kd])
            \/ Become(a, [Rest EXCEPT !.pc = "isolate", !.kind = kd, !.from = "active"])
      BY <2>2 DEF ShrinkList
    <3>2. /\ [Rest EXCEPT !.pc = "wait", !.kind = kd] \in Regs
          /\ [Rest EXCEPT !.pc = "isolate", !.kind = kd, !.from = "active"] \in Regs
      BY <2>1 DEF Regs, Pcs
    <3> QED BY <2>1, <3>1, <3>2 DEF Rest
  <2>3. CASE EnoughLeft(a)
    <3>1. /\ [r EXCEPT !.pc = "isolate"] \in Regs /\ [r EXCEPT !.pc = "isolate"].pc = "isolate"
          /\ [r EXCEPT !.pc = "isolate"].held = r.held /\ [r EXCEPT !.pc = "isolate"].keep = r.keep
          /\ [r EXCEPT !.pc = "isolate"].page = r.page
      BY <1>1 DEF Regs, Pcs
    <3> QED BY <1>1, <1>2, <2>3, <3>1 DEF EnoughLeft, Shape
  <2>4. CASE WaitKilled(a)
    BY <2>1, <2>4 DEF WaitKilled
  <2> QED BY <2>2, <2>3, <2>4
<1>4. PICK r2 \in Regs : /\ Become(a, r2) /\ r2.pc \in {"idle", "wait", "isolate"}
                         /\ r2.held = {} /\ r2.keep = {} /\ r2.page = {}
  BY <1>3
<1>5. Shape(r2) /\ Own(r2) = Own(r) /\ Ref(r2) = Ref(r)
  BY <1>1, <1>2, <1>4 DEF Shape, Own, Ref
<1>6. TypeInv' /\ Shapes' /\ Place' /\ Flags'
  <2>1. mlocked' \subseteq Pages /\ shmLocked' \in BOOLEAN
    BY <1>1, <1>2 DEF TypeInv
  <2> QED BY <1>2, <1>4, <1>5, <2>1, RegStep
<1>7. \A b \in Actors : act'[b] = IF b = a THEN r2 ELSE act[b]
  BY <1>1, <1>4, Becomes
<1>8. NeverStranded'
  BY <1>1, <1>2, <1>7 DEF NeverStranded, Evictable
<1> QED BY <1>6, <1>8 DEF LruInv

(* mlock and munlock begin with the flag.  What munlock makes evictable, it  *)
(* is about to look for.                                                    *)
LEMMA LockInv ==
  ASSUME LruInv, NEW a \in Actors, NEW p \in Pages, Mlock(a, p) \/ Munlock(a, p)
  PROVE  LruInv'
<1> DEFINE r  == act[a]
           r2 == [Rest EXCEPT !.pc = "take", !.page = {p}]
<1>1. TypeInv /\ r \in Regs /\ Shape(r) /\ Flags /\ NeverStranded
  BY DEF LruInv, TypeInv, Shapes
<1>2. /\ r.pc = "idle" /\ Become(a, r2)
      /\ mlocked' = mlocked \cup {p} \/ mlocked' = mlocked \ {p}
      /\ UNCHANGED <<on, active, unev, shmLocked, user, shm>>
  BY DEF Mlock, Munlock
<1>3. /\ r2 \in Regs /\ r2.pc = "take" /\ r2.page = {p} /\ r2.held = {} /\ r2.keep = {}
  <2>1. Rest \in Regs /\ Rest.held = {} /\ Rest.keep = {}
    BY DEF Rest, Regs, Pcs, Kinds
  <2> QED BY <2>1 DEF Regs, Pcs
<1> HIDE DEF r2
<1>4. Shape(r2) /\ Own(r2) = Own(r) /\ Ref(r) = {}
  BY <1>1, <1>2, <1>3 DEF Shape, Own, Ref
<1>5. TypeInv' /\ Shapes' /\ Place' /\ Flags'
  <2>1. mlocked' \subseteq Pages /\ shmLocked' \in BOOLEAN
    BY <1>1, <1>2 DEF TypeInv
  <2> QED BY <1>2, <1>3, <1>4, <2>1, RegStep
<1>6. \A b \in Actors : act'[b] = IF b = a THEN r2 ELSE act[b]
  BY <1>1, <1>2, Becomes
<1>7. NeverStranded'
  BY <1>1, <1>2, <1>3, <1>6 DEF NeverStranded, Evictable
<1> QED BY <1>5, <1>7 DEF LruInv

(* Where the pages are after PutOn.                                         *)
LEMMA PutOnIs ==
  ASSUME TypeInv, NEW S \in SUBSET Pages, NEW dest, PutOn(S, dest)
  PROVE  /\ \A q \in Pages : on'[q] = IF q \in S THEN dest[q] ELSE on[q]
         /\ (\A q \in S : dest[q] \in Lists \cup {"vec", "none"})
              => on' \in [Pages -> Lists \cup {"vec", "none"}]
BY DEF PutOn, Moved, TypeInv

LEMMA AddUnevictableInv == ASSUME LruInv, NEW a \in Actors, AddUnevictable(a) PROVE LruInv'
<1> DEFINE r  == act[a]
           p  == CHOOSE q \in r.page : TRUE
           r2 == [r EXCEPT !.pc = "recheck"]
<1>1. TypeInv /\ Shapes /\ Place /\ Flags /\ NeverStranded
  BY DEF LruInv
<1>2. r \in Regs /\ Shape(r) /\ r.pc = "add"
  BY <1>1 DEF TypeInv, Shapes, AddUnevictable
<1>3. p \in Pages /\ r.page = {p}
  BY <1>1, <1>2, ThePage
<1>4. /\ PutOn({p}, [q \in {p} |-> "unevictable"]) /\ unev' = unev \cup {p} /\ Become(a, r2)
      /\ UNCHANGED <<active, mlocked, shmLocked, user, shm>>
  BY Zenon DEF AddUnevictable
<1> HIDE DEF p
<1>5. /\ \A q \in Pages : on'[q] = IF q = p THEN "unevictable" ELSE on[q]
      /\ on' \in [Pages -> Lists \cup {"vec", "none"}]
  BY <1>1, <1>3, <1>4, PutOnIs DEF Lists
<1>6. /\ r2 \in Regs /\ r2.pc = "recheck" /\ r2.held = r.held /\ r2.keep = r.keep
      /\ r2.page = {p} /\ r2.back = r.back
  BY <1>2, <1>3 DEF Regs, Pcs
<1> HIDE DEF r2
<1>7. \A b \in Actors : act'[b] = IF b = a THEN r2 ELSE act[b]
  BY <1>1, <1>4, Becomes
<1>8. /\ p \in Own(r) /\ p \notin r.held /\ p \notin r.keep
      /\ Own(r2) = Own(r) \ {p} /\ Ref(r2) = Ref(r) /\ p \in Ref(r2)
      /\ \A b \in Actors \ {a} : p \notin Own(act[b])
  BY <1>1, <1>2, <1>3, <1>6 DEF Own, Ref, Shape, Place
<1>9. TypeInv'
  BY <1>1, <1>3, <1>4, <1>5, <1>6, Becomes DEF TypeInv
<1>10. Shapes'
  <2>1. Shape(r2)
    BY <1>2, <1>3, <1>6 DEF Shape
  <2> QED BY <1>1, <1>7, <2>1 DEF Shapes, Shape
<1>11. Place'
  <2>0. \A b \in Actors : Own(act[b]) \subseteq Pages
    BY <1>1 DEF Own, TypeInv, Regs
  <2>1. \A b \in Actors : \A q \in Own(act[b]) : q # p => on'[q] = "none"
    BY <1>1, <1>5, <2>0 DEF Place
  <2>2. \A q \in Pages : on'[q] = "none" => on[q] = "none"
    BY <1>5
  <2>3. \A q \in Pages : on'[q] \in Lists =>
          q \in user' \/ q \in Ref(r2) \/ \E b \in Actors \ {a} : q \in Ref(act[b])
    BY <1>1, <1>4, <1>5, <1>8 DEF Place
  <2>4. on'[p] # "none" /\ user' = user
    BY <1>3, <1>4, <1>5
  <2> QED BY <1>1, <1>7, <1>8, <2>1, <2>2, <2>3, <2>4, PlaceStep
<1>12. Flags'
  <2>1. FlagsFitList' /\ \A q \in Pages : on'[q] = "vec" => q \notin unev'
    BY <1>1, <1>2, <1>3, <1>4, <1>5 DEF Flags, FlagsFitList
  <2>2. \A b \in Actors : \A q \in act'[b].held \cup act'[b].keep : q \notin unev'
    BY <1>1, <1>4, <1>6, <1>7, <1>8 DEF Flags, Own
  <2>3. \A b \in Actors : act'[b].pc = "add" =>
           \A q \in act'[b].page : q \notin unev' /\ q \notin active'
    BY <1>1, <1>4, <1>6, <1>7, <1>8 DEF Flags, Own
  <2> QED BY <2>1, <2>2, <2>3 DEF Flags
<1>13. NeverStranded'
  BY <1>1, <1>2, <1>4, <1>5, <1>6, <1>7 DEF NeverStranded, Evictable
<1> QED BY <1>9, <1>10, <1>11, <1>12, <1>13 DEF LruInv

LEMMA RecheckInv == ASSUME LruInv, NEW a \in Actors, Recheck(a) PROVE LruInv'
<1> DEFINE r  == act[a]
           p  == CHOOSE q \in r.page : TRUE
           r2 == [r EXCEPT !.pc = "putback"]
           r3 == [r EXCEPT !.pc = r.back, !.page = {}, !.was = FALSE, !.back = "idle"]
<1>1. TypeInv /\ Shapes /\ Place /\ Flags /\ NeverStranded
  BY DEF LruInv
<1>2. r \in Regs /\ Shape(r) /\ r.pc = "recheck"
  BY <1>1 DEF TypeInv, Shapes, Recheck
<1>3. p \in Pages /\ r.page = {p}
  BY <1>1, <1>2, ThePage
<1>4. /\ UNCHANGED <<mlocked, shmLocked, user, shm>>
      /\ \/ /\ Stranded(p) /\ PutOn({p}, [q \in {p} |-> "none"]) /\ Become(a, r2)
            /\ active' = active /\ unev' = unev
         \/ \E gone \in SUBSET {p} :
              /\ ~Stranded(p) /\ gone = Unused({p}, a)
              /\ PutOn(gone, [q \in gone |-> "none"]) /\ Become(a, r3)
              /\ unev' = unev \ gone /\ active' = active \ gone
  <2>1. Unused({p}, a) \subseteq {p}
    BY DEF Unused
  <2> QED BY <2>1, Zenon DEF Recheck
<1> HIDE DEF p
<1>5. \A b \in Actors : Own(act[b]) \subseteq Pages
  BY <1>1 DEF Own, TypeInv, Regs
<1>6. Own(r) = r.held \cup r.keep /\ Ref(r) = Own(r) \cup {p} /\ p \notin Own(r)
  BY <1>2, <1>3 DEF Own, Ref, Shape
<1>7. CASE Stranded(p)
  <2>1. /\ PutOn({p}, [q \in {p} |-> "none"]) /\ Become(a, r2)
        /\ active' = active /\ unev' = unev /\ on[p] \in Lists
    BY <1>4, <1>7 DEF Stranded
  <2>2. /\ \A q \in Pages : on'[q] = IF q = p THEN "none" ELSE on[q]
        /\ on' \in [Pages -> Lists \cup {"vec", "none"}]
    BY <1>1, <1>3, <2>1, PutOnIs DEF Lists
  <2>3. /\ r2 \in Regs /\ r2.pc = "putback" /\ r2.held = r.held /\ r2.keep = r.keep
        /\ r2.page = {p} /\ r2.back = r.back
    BY <1>2, <1>3 DEF Regs, Pcs
  <2> HIDE DEF r2
  <2>4. \A b \in Actors : act'[b] = IF b = a THEN r2 ELSE act[b]
    BY <1>1, <2>1, Becomes
  <2>5. Own(r2) = Own(r) \cup {p} /\ Ref(r2) = Ref(r)
    BY <1>3, <1>6, <2>3 DEF Own, Ref
  <2>6. TypeInv'
    BY <1>1, <1>4, <2>1, <2>2, <2>3, Becomes DEF TypeInv
  <2>7. Shapes'
    <3>1. Shape(r2)
      BY <1>2, <1>3, <2>3 DEF Shape
    <3> QED BY <1>1, <2>4, <3>1 DEF Shapes, Shape
  <2>8. Place'
    <3>1. \A b \in Actors : \A q \in Own(act[b]) : on'[q] = "none"
      BY <1>1, <1>5, <2>2 DEF Place
    <3>2. \A q \in Own(r2) : on'[q] = "none" /\ (q \in Own(r) \/ on[q] # "none")
      BY <1>3, <2>1, <2>2, <2>5, <3>1 DEF Lists
    <3>3. \A q \in Pages : on'[q] = "none" => on[q] = "none" \/ q \in Own(r2)
      BY <2>2, <2>5
    <3>4. \A q \in Pages : on'[q] \in Lists =>
            q \in user' \/ q \in Ref(r2) \/ \E b \in Actors \ {a} : q \in Ref(act[b])
      <4>1. \A q \in Pages : on'[q] \in Lists => on[q] \in Lists
        BY <2>2 DEF Lists
      <4> QED BY <1>1, <1>4, <2>5, <4>1 DEF Place
    <3>5. user' = user
      BY <1>4
    <3>6. \A q \in Own(act[a]) \ Own(r2) : FALSE
      BY <2>5
    <3> QED BY <1>1, <2>4, <3>1, <3>2, <3>3, <3>4, <3>5, <3>6, PlaceStep
  <2>9. Flags'
    <3>1. FlagsFitList' /\ \A q \in Pages : on'[q] = "vec" => q \notin unev'
      BY <1>1, <2>1, <2>2 DEF Flags, FlagsFitList
    <3>2. \A b \in Actors : \A q \in act'[b].held \cup act'[b].keep : q \notin unev'
      BY <1>1, <2>1, <2>3, <2>4 DEF Flags
    <3>3. \A b \in Actors : act'[b].pc = "add" =>
             \A q \in act'[b].page : q \notin unev' /\ q \notin active'
      BY <1>1, <2>1, <2>3, <2>4 DEF Flags
    <3> QED BY <3>1, <3>2, <3>3 DEF Flags
  <2>10. NeverStranded'
    <3> SUFFICES ASSUME NEW q \in Pages, on'[q] = "unevictable", Evictable(q)'
                 PROVE  \/ \E b \in Actors : q \in act'[b].page /\ act'[b].pc \in {"recheck", "take"}
                        \/ q \in FilePages /\ shm' = "move"
      BY DEF NeverStranded
    <3>1. q # p /\ on[q] = "unevictable" /\ Evictable(q)
      BY <1>4, <2>2 DEF Evictable
    <3> QED BY <1>1, <1>3, <1>4, <2>4, <3>1 DEF NeverStranded
  <2> QED BY <2>6, <2>7, <2>8, <2>9, <2>10 DEF LruInv
<1>8. CASE ~Stranded(p)
  <2>1. PICK gone \in SUBSET {p} :
          /\ gone = Unused({p}, a) /\ PutOn(gone, [q \in gone |-> "none"]) /\ Become(a, r3)
          /\ unev' = unev \ gone /\ active' = active \ gone
    BY <1>4, <1>8
  <2>2. /\ \A q \in Pages : on'[q] = IF q \in gone THEN "none" ELSE on[q]
        /\ on' \in [Pages -> Lists \cup {"vec", "none"}]
    BY <1>1, <1>3, <2>1, PutOnIs
  <2>3. /\ r3 \in Regs /\ r3.pc = r.back /\ r3.held = r.held /\ r3.keep = r.keep
        /\ r3.page = {} /\ r3.back = "idle"
    BY <1>2 DEF Regs, Pcs
  <2> HIDE DEF r3
  <2>4. \A b \in Actors : act'[b] = IF b = a THEN r3 ELSE act[b]
    BY <1>1, <2>1, Becomes
  <2>5. r3.pc \in {"idle", "work"} /\ Own(r3) = Own(r) /\ Ref(r3) = Own(r)
    BY <1>2, <1>6, <2>3 DEF Own, Ref, Regs
  <2>6. TypeInv'
    BY <1>1, <1>4, <2>1, <2>2, <2>3, Becomes DEF TypeInv
  <2>7. Shapes'
    <3>1. Shape(r3)
      BY <1>2, <2>3, <2>5 DEF Shape
    <3> QED BY <1>1, <2>4, <3>1 DEF Shapes, Shape
  <2>8. \A q \in gone : q = p /\ p \notin user
    BY <2>1 DEF Unused
  <2>9. p \in gone \/ p \in user \/ \E b \in Actors \ {a} : p \in Ref(act[b])
    BY <2>1, OwnIs DEF Unused
  <2>10. Place'
    <3>1. \A b \in Actors : \A q \in Own(act[b]) : on'[q] = "none"
      BY <1>1, <1>5, <2>2 DEF Place
    <3>2. \A q \in Own(r3) : on'[q] = "none" /\ q \in Own(r)
      BY <2>5, <3>1
    <3>3. user' = user
      BY <1>4
    <3>4. \A q \in Pages : on'[q] = "none" => on[q] = "none" \/ q \notin user'
      BY <2>2, <2>8, <3>3
    <3>5. \A q \in Pages : on'[q] \in Lists =>
            q \in user' \/ q \in Ref(r3) \/ \E b \in Actors \ {a} : q \in Ref(act[b])
      <4>1. \A q \in Pages : on'[q] \in Lists => on[q] \in Lists /\ q \notin gone
        BY <2>2 DEF Lists
      <4> QED BY <1>1, <1>6, <2>5, <2>9, <3>3, <4>1 DEF Place
    <3>6. \A q \in Own(act[a]) \ Own(r3) : FALSE
      BY <2>5
    <3> QED BY <1>1, <2>4, <3>1, <3>2, <3>3, <3>4, <3>5, <3>6, PlaceStep
  <2>11. Flags'
    <3>1. FlagsFitList' /\ \A q \in Pages : on'[q] = "vec" => q \notin unev'
      BY <1>1, <2>1, <2>2 DEF Flags, FlagsFitList
    <3>2. \A b \in Actors : \A q \in act'[b].held \cup act'[b].keep : q \notin unev'
      BY <1>1, <2>1, <2>3, <2>4 DEF Flags
    <3>3. \A b \in Actors : act'[b].pc = "add" =>
             \A q \in act'[b].page : q \notin unev' /\ q \notin active'
      BY <1>1, <2>1, <2>4, <2>5 DEF Flags
    <3> QED BY <3>1, <3>2, <3>3 DEF Flags
  <2>12. NeverStranded'
    <3> SUFFICES ASSUME NEW q \in Pages, on'[q] = "unevictable", Evictable(q)'
                 PROVE  \/ \E b \in Actors : q \in act'[b].page /\ act'[b].pc \in {"recheck", "take"}
                        \/ q \in FilePages /\ shm' = "move"
      BY DEF NeverStranded
    <3>1. on[q] = "unevictable" /\ Evictable(q)
      BY <1>4, <2>2 DEF Evictable
    <3>2. q # p
      BY <1>8, <3>1 DEF Stranded, Lists
    <3> QED BY <1>1, <1>3, <1>4, <2>4, <3>1, <3>2 DEF NeverStranded
  <2> QED BY <2>6, <2>7, <2>10, <2>11, <2>12 DEF LruInv
<1> QED BY <1>7, <1>8

LEMMA IsolateLruPageInv == ASSUME LruInv, NEW a \in Actors, IsolateLruPage(a) PROVE LruInv'
<1> DEFINE r  == act[a]
           p  == CHOOSE q \in r.page : TRUE
           r2 == BeginPutback(r, p, "idle")
<1>1. TypeInv /\ Shapes /\ Place /\ Flags /\ NeverStranded
  BY DEF LruInv
<1>2. r \in Regs /\ Shape(r) /\ r.pc = "take"
  BY <1>1 DEF TypeInv, Shapes, IsolateLruPage
<1>3. p \in Pages /\ r.page = {p}
  BY <1>1, <1>2, ThePage
<1>4. /\ UNCHANGED <<active, unev, mlocked, shmLocked, user, shm>>
      /\ \/ /\ on[p] \in Lists /\ PutOn({p}, [q \in {p} |-> "none"]) /\ Become(a, r2)
         \/ /\ on[p] \notin Lists /\ on' = on /\ Become(a, Rest)
  BY Zenon DEF IsolateLruPage
<1> HIDE DEF p
<1>5. \A b \in Actors : Own(act[b]) \subseteq Pages
  BY <1>1 DEF Own, TypeInv, Regs
<1>6. Own(r) = {} /\ Ref(r) = {p} /\ r.held = {} /\ r.keep = {}
  BY <1>2, <1>3 DEF Own, Ref, Shape
<1>7. CASE on[p] \in Lists
  <2>1. PutOn({p}, [q \in {p} |-> "none"]) /\ Become(a, r2)
    BY <1>4, <1>7
  <2>2. /\ \A q \in Pages : on'[q] = IF q = p THEN "none" ELSE on[q]
        /\ on' \in [Pages -> Lists \cup {"vec", "none"}]
    BY <1>1, <1>3, <2>1, PutOnIs DEF Lists
  <2>3. /\ r2 \in Regs /\ Shape(r2) /\ r2.pc = "putback" /\ r2.page = {p}
        /\ Own(r2) = {p} /\ Ref(r2) = {p} /\ r2.held = {} /\ r2.keep = {}
    BY <1>2, <1>3, <1>6, BeginShape
  <2> HIDE DEF r2
  <2>4. \A b \in Actors : act'[b] = IF b = a THEN r2 ELSE act[b]
    BY <1>1, <2>1, Becomes
  <2>5. TypeInv'
    BY <1>1, <1>4, <2>1, <2>2, <2>3, Becomes DEF TypeInv
  <2>6. Shapes'
    BY <1>1, <2>3, <2>4 DEF Shapes, Shape
  <2>7. Place'
    <3>1. \A b \in Actors : \A q \in Own(act[b]) : on'[q] = "none"
      BY <1>1, <1>5, <2>2 DEF Place
    <3>2. \A q \in Own(r2) : on'[q] = "none" /\ on[q] # "none"
      BY <1>3, <1>7, <2>2, <2>3 DEF Lists
    <3>3. \A q \in Pages : on'[q] = "none" => on[q] = "none" \/ q \in Own(r2)
      BY <2>2, <2>3
    <3>4. \A q \in Pages : on'[q] \in Lists =>
            q \in user' \/ q \in Ref(r2) \/ \E b \in Actors \ {a} : q \in Ref(act[b])
      <4>1. \A q \in Pages : on'[q] \in Lists => on[q] \in Lists
        BY <2>2 DEF Lists
      <4> QED BY <1>1, <1>4, <1>6, <2>3, <4>1 DEF Place
    <3>5. user' = user
      BY <1>4
    <3>6. \A q \in Own(act[a]) \ Own(r2) : FALSE
      BY <1>6
    <3> QED BY <1>1, <2>4, <3>1, <3>2, <3>3, <3>4, <3>5, <3>6, PlaceStep
  <2>8. Flags'
    <3>1. FlagsFitList' /\ \A q \in Pages : on'[q] = "vec" => q \notin unev'
      BY <1>1, <1>4, <2>2 DEF Flags, FlagsFitList
    <3>2. \A b \in Actors : \A q \in act'[b].held \cup act'[b].keep : q \notin unev'
      BY <1>1, <1>4, <2>3, <2>4 DEF Flags
    <3>3. \A b \in Actors : act'[b].pc = "add" =>
             \A q \in act'[b].page : q \notin unev' /\ q \notin active'
      BY <1>1, <1>4, <2>3, <2>4 DEF Flags
    <3> QED BY <3>1, <3>2, <3>3 DEF Flags
  <2>9. NeverStranded'
    <3> SUFFICES ASSUME NEW q \in Pages, on'[q] = "unevictable", Evictable(q)'
                 PROVE  \/ \E b \in Actors : q \in act'[b].page /\ act'[b].pc \in {"recheck", "take"}
                        \/ q \in FilePages /\ shm' = "move"
      BY DEF NeverStranded
    <3>1. q # p /\ on[q] = "unevictable" /\ Evictable(q)
      BY <1>4, <2>2 DEF Evictable
    <3> QED BY <1>1, <1>3, <1>4, <2>4, <3>1 DEF NeverStranded
  <2> QED BY <2>5, <2>6, <2>7, <2>8, <2>9 DEF LruInv
<1>8. CASE on[p] \notin Lists
  <2>1. Become(a, Rest) /\ on' = on
    BY <1>4, <1>8
  <2>2. Rest \in Regs /\ Rest.pc = "idle" /\ Rest.held = {} /\ Rest.keep = {} /\ Rest.page = {}
    BY DEF Rest, Regs, Pcs, Kinds
  <2>3. Shape(Rest) /\ Own(Rest) = {} /\ Ref(Rest) = {}
    BY <2>2 DEF Shape, Own, Ref
  <2>4. mlocked' \subseteq Pages /\ shmLocked' \in BOOLEAN
    BY <1>1, <1>4 DEF TypeInv
  <2>5. TypeInv' /\ Shapes' /\ Place' /\ Flags'
    BY <1>4, <1>6, <1>8, <2>1, <2>2, <2>3, <2>4, RegStep
  <2>6. \A b \in Actors : act'[b] = IF b = a THEN Rest ELSE act[b]
    BY <1>1, <2>1, Becomes
  <2>7. NeverStranded'
    BY <1>1, <1>3, <1>4, <1>8, <2>1, <2>6 DEF NeverStranded, Evictable, Lists
  <2> QED BY <2>5, <2>7 DEF LruInv
<1> QED BY <1>7, <1>8

(* Any pages of a list may be taken: they are on a list, so nobody owns them. *)
LEMMA IsolateLruPagesInv == ASSUME LruInv, NEW a \in Actors, IsolateLruPages(a) PROVE LruInv'
<1> DEFINE r == act[a]
<1>1. TypeInv /\ Shapes /\ Place /\ Flags /\ NeverStranded
  BY DEF LruInv
<1>2. r \in Regs /\ Shape(r) /\ r.pc = "isolate"
  BY <1>1 DEF TypeInv, Shapes, IsolateLruPages
<1>3. PICK S \in SUBSET Takeable(r) :
        /\ PutOn(S, [p \in S |-> "none"])
        /\ Become(a, IF S = {} /\ r.from = "inactive" THEN Rest
                     ELSE [r EXCEPT !.pc = "work", !.held = S, !.taken = Cardinality(S)])
  BY DEF IsolateLruPages
<1>4. UNCHANGED <<active, unev, mlocked, shmLocked, user, shm>>
  BY DEF IsolateLruPages
<1>5. S \in SUBSET Pages /\ \A q \in S : on[q] \in {"active", "inactive"} /\ q \notin unev
  BY <1>1, <1>2 DEF Takeable, OnList, Regs, Flags, FlagsFitList
<1>6. Own(r) = {} /\ Ref(r) = {} /\ r.page = {} /\ r.keep = {}
  BY <1>2 DEF Own, Ref, Shape
<1>7. PICK r2 \in Regs : /\ Become(a, r2) /\ r2.pc \in {"idle", "work"} /\ r2.page = {}
                         /\ r2.held = S /\ r2.keep = {}
                         /\ r2.pc = "idle" => S = {}
  <2>1. CASE S = {} /\ r.from = "inactive"
    <3>1. Rest \in Regs /\ Rest.pc = "idle" /\ Rest.held = {} /\ Rest.keep = {} /\ Rest.page = {}
      BY DEF Rest, Regs, Pcs, Kinds
    <3> QED BY <1>3, <2>1, <3>1
  <2>2. CASE ~(S = {} /\ r.from = "inactive")
    <3> DEFINE r2 == [r EXCEPT !.pc = "work", !.held = S, !.taken = Cardinality(S)]
    <3>1. Cardinality(S) \in Int
      BY <1>5, PagesAssumption, FS_Subset, FS_CardinalityType
    <3>2. r2 \in Regs /\ r2.pc = "work" /\ r2.held = S /\ r2.keep = {} /\ r2.page = {}
      BY <1>2, <1>5, <1>6, <3>1 DEF Regs, Pcs
    <3> HIDE DEF r2
    <3>3. Become(a, r2)
      BY <1>3, <2>2 DEF r2
    <3> QED BY <3>2, <3>3
  <2> QED BY <2>1, <2>2
<1>8. /\ \A q \in Pages : on'[q] = IF q \in S THEN "none" ELSE on[q]
      /\ on' \in [Pages -> Lists \cup {"vec", "none"}]
  BY <1>1, <1>3, <1>5, PutOnIs
<1>9. \A b \in Actors : act'[b] = IF b = a THEN r2 ELSE act[b]
  BY <1>1, <1>7, Becomes
<1>10. Shape(r2) /\ Own(r2) = S /\ Ref(r2) = S
  BY <1>7 DEF Shape, Own, Ref
<1>11. TypeInv'
  BY <1>1, <1>4, <1>7, <1>8, Becomes DEF TypeInv
<1>12. Shapes'
  BY <1>1, <1>9, <1>10 DEF Shapes, Shape
<1>13. Place'
  <2>0. \A b \in Actors : Own(act[b]) \subseteq Pages
    BY <1>1 DEF Own, TypeInv, Regs
  <2>1. \A b \in Actors : \A q \in Own(act[b]) : on'[q] = "none"
    BY <1>1, <1>8, <2>0 DEF Place
  <2>2. \A q \in Own(r2) : on'[q] = "none" /\ on[q] # "none"
    BY <1>5, <1>8, <1>10
  <2>3. \A q \in Pages : on'[q] = "none" => on[q] = "none" \/ q \in Own(r2)
    BY <1>8, <1>10
  <2>4. \A q \in Pages : on'[q] \in Lists =>
          q \in user' \/ q \in Ref(r2) \/ \E b \in Actors \ {a} : q \in Ref(act[b])
    <3>1. \A q \in Pages : on'[q] \in Lists => on[q] \in Lists
      BY <1>8 DEF Lists
    <3> QED BY <1>1, <1>4, <1>6, <3>1 DEF Place
  <2>5. user' = user
    BY <1>4
  <2>6. \A q \in Own(act[a]) \ Own(r2) : FALSE
    BY <1>6
  <2> QED BY <1>1, <1>9, <2>1, <2>2, <2>3, <2>4, <2>5, <2>6, PlaceStep
<1>14. Flags'
  <2>1. FlagsFitList' /\ \A q \in Pages : on'[q] = "vec" => q \notin unev'
    BY <1>1, <1>4, <1>8 DEF Flags, FlagsFitList
  <2>2. \A b \in Actors : \A q \in act'[b].held \cup act'[b].keep : q \notin unev'
    BY <1>1, <1>4, <1>5, <1>7, <1>9 DEF Flags
  <2>3. \A b \in Actors : act'[b].pc = "add" =>
           \A q \in act'[b].page : q \notin unev' /\ q \notin active'
    BY <1>1, <1>4, <1>7, <1>9 DEF Flags
  <2> QED BY <2>1, <2>2, <2>3 DEF Flags
<1>15. NeverStranded'
  BY <1>1, <1>2, <1>4, <1>8, <1>9 DEF NeverStranded, Evictable
<1> QED BY <1>11, <1>12, <1>13, <1>14, <1>15 DEF LruInv

(* Reclaim: nobody else refers to the page, and it is in use no more.       *)
LEMMA ReclaimInv ==
  ASSUME LruInv, NEW a \in Actors, NEW p \in Pages, Reclaim(a, p) PROVE LruInv'
<1> DEFINE r  == act[a]
           r2 == [r EXCEPT !.held = @ \ {p}]
<1>1. TypeInv /\ Shapes /\ Place /\ Flags /\ NeverStranded
  BY DEF LruInv
<1>2. /\ r.pc = "work" /\ p \in r.held /\ Become(a, r2)
      /\ \A b \in Actors \ {a} : p \notin InHand(b)
      /\ user' = user \ {p} /\ active' = active \ {p}
      /\ UNCHANGED <<on, unev, mlocked, shmLocked, shm>>
  BY DEF Reclaim
<1>3. r \in Regs /\ Shape(r)
  BY <1>1 DEF TypeInv, Shapes
<1>4. r2 \in Regs /\ r2.pc = "work" /\ r2.held = r.held \ {p} /\ r2.keep = r.keep /\ r2.page = r.page
  BY <1>2, <1>3 DEF Regs
<1> HIDE DEF r2
<1>5. \A b \in Actors : act'[b] = IF b = a THEN r2 ELSE act[b]
  BY <1>1, <1>2, Becomes
<1>6. /\ Shape(r2) /\ Own(r2) \subseteq Own(r) /\ Own(r) \subseteq Own(r2) \cup {p}
      /\ Ref(r) \subseteq Ref(r2) \cup {p} /\ p \in Own(r)
  BY <1>2, <1>3, <1>4 DEF Shape, Own, Ref
<1>7. TypeInv'
  BY <1>1, <1>2, <1>4, Becomes DEF TypeInv
<1>8. Shapes'
  BY <1>1, <1>5, <1>6 DEF Shapes, Shape
<1>9. Place'
  <2>1. \A b \in Actors : \A q \in Own(act[b]) : on'[q] = "none"
    BY <1>1, <1>2 DEF Place
  <2>2. user' \subseteq user /\ p \notin user' /\ on' = on /\ on[p] = "none"
    BY <1>1, <1>2, <1>6 DEF Place
  <2>3. \A q \in Pages : on'[q] \in Lists =>
          q \in user' \/ q \in Ref(r2) \/ \E b \in Actors \ {a} : q \in Ref(act[b])
    <3> SUFFICES ASSUME NEW q \in Pages, on[q] \in Lists
                 PROVE  q \in user' \/ q \in Ref(r2) \/ \E b \in Actors \ {a} : q \in Ref(act[b])
      BY <2>2
    <3>1. q # p
      BY <2>2 DEF Lists
    <3> QED BY <1>1, <1>2, <1>6, <3>1 DEF Place
  <2>4. \A q \in Own(r2) : q \in Own(act[a]) /\ on'[q] = "none"
    BY <1>6, <2>1
  <2>5. \A q \in Own(act[a]) \ Own(r2) : q \notin user'
    BY <1>6, <2>2
  <2> QED BY <1>1, <1>5, <2>1, <2>2, <2>3, <2>4, <2>5, PlaceStep
<1>10. Flags'
  <2>1. FlagsFitList' /\ \A q \in Pages : on'[q] = "vec" => q \notin unev'
    BY <1>1, <1>2 DEF Flags, FlagsFitList
  <2>2. \A b \in Actors : \A q \in act'[b].held \cup act'[b].keep : q \notin unev'
    BY <1>1, <1>2, <1>4, <1>5 DEF Flags
  <2>3. \A b \in Actors : act'[b].pc = "add" =>
           \A q \in act'[b].page : q \notin unev' /\ q \notin active'
    BY <1>1, <1>2, <1>4, <1>5 DEF Flags
  <2> QED BY <2>1, <2>2, <2>3 DEF Flags
<1>11. NeverStranded'
  BY <1>1, <1>2, <1>4, <1>5 DEF NeverStranded, Evictable
<1> QED BY <1>7, <1>8, <1>9, <1>10, <1>11 DEF LruInv

(* The end of a scan: what it kept goes to a list of its kind, unless its    *)
(* last user went away meanwhile.                                           *)
LEMMA PutbackPagesInv == ASSUME LruInv, NEW a \in Actors, PutbackPages(a) PROVE LruInv'
<1> DEFINE r == act[a]
<1>1. TypeInv /\ Shapes /\ Place /\ Flags /\ NeverStranded
  BY DEF LruInv
<1>2. /\ r.pc = "work" /\ r.held = {} /\ Become(a, Rest)
      /\ PutOn(r.keep, [p \in r.keep |-> BackTo(p, a)])
      /\ active' = active \ Unused(r.keep, a)
      /\ UNCHANGED <<unev, mlocked, shmLocked, user, shm>>
  BY DEF PutbackPages
<1>3. r \in Regs /\ Shape(r)
  BY <1>1 DEF TypeInv, Shapes
<1>4. Own(r) = r.keep /\ Ref(r) = r.keep /\ r.keep \in SUBSET Pages
  BY <1>2, <1>3 DEF Shape, Own, Ref, Regs
<1>5. Rest \in Regs /\ Rest.pc = "idle" /\ Rest.held = {} /\ Rest.keep = {} /\ Rest.page = {}
  BY DEF Rest, Regs, Pcs, Kinds
<1>6. Shape(Rest) /\ Own(Rest) = {} /\ Ref(Rest) = {}
  BY <1>5 DEF Shape, Own, Ref
<1>7. \A b \in Actors : act'[b] = IF b = a THEN Rest ELSE act[b]
  BY <1>1, <1>2, Becomes
<1>8. \A q \in r.keep :
        /\ BackTo(q, a) \in {"active", "inactive", "none"}
        /\ BackTo(q, a) = "none" => q \notin user
        /\ BackTo(q, a) # "none" => q \in user \/ \E b \in Actors \ {a} : q \in Ref(act[b])
  BY OwnIs DEF BackTo, Unused
<1>9. /\ \A q \in Pages : on'[q] = IF q \in r.keep THEN BackTo(q, a) ELSE on[q]
      /\ on' \in [Pages -> Lists \cup {"vec", "none"}]
  <2>1. \A q \in r.keep : [p \in r.keep |-> BackTo(p, a)][q] = BackTo(q, a)
    OBVIOUS
  <2>2. \A q \in r.keep : [p \in r.keep |-> BackTo(p, a)][q] \in Lists \cup {"vec", "none"}
    BY <1>8, <2>1 DEF Lists
  <2> QED BY <1>1, <1>2, <1>4, <2>1, <2>2, PutOnIs
<1>10. TypeInv'
  BY <1>1, <1>2, <1>5, <1>9, Becomes DEF TypeInv
<1>11. Shapes'
  BY <1>1, <1>6, <1>7 DEF Shapes, Shape
<1>12. Place'
  <2>0. \A b \in Actors \ {a} : \A q \in Own(act[b]) : q \in Pages /\ q \notin r.keep
    BY <1>1, <1>4 DEF Place, Own, TypeInv, Regs
  <2>1. \A b \in Actors \ {a} : \A q \in Own(act[b]) : on'[q] = "none"
    BY <1>1, <1>9, <2>0 DEF Place
  <2>2. user' = user
    BY <1>2
  <2>3. \A q \in Pages : on'[q] = "none" => on[q] = "none" \/ q \notin user'
    BY <1>8, <1>9, <2>2
  <2>4. \A q \in Own(act[a]) \ Own(Rest) : on'[q] # "none" \/ q \notin user'
    BY <1>4, <1>8, <1>9, <2>2
  <2>5. \A q \in Pages : on'[q] \in Lists =>
          q \in user' \/ q \in Ref(Rest) \/ \E b \in Actors \ {a} : q \in Ref(act[b])
    <3> SUFFICES ASSUME NEW q \in Pages, on'[q] \in Lists, q \notin user
                 PROVE  \E b \in Actors \ {a} : q \in Ref(act[b])
      BY <2>2
    <3>1. CASE q \in r.keep
      BY <1>8, <1>9, <3>1 DEF Lists
    <3>2. CASE q \notin r.keep
      BY <1>1, <1>4, <1>9, <3>2 DEF Place
    <3> QED BY <3>1, <3>2
  <2> QED BY <1>1, <1>6, <1>7, <2>1, <2>2, <2>3, <2>4, <2>5, PlaceStep
<1>13. Flags'
  <2>1. FlagsFitList' /\ \A q \in Pages : on'[q] = "vec" => q \notin unev'
    BY <1>1, <1>2, <1>8, <1>9 DEF Flags, FlagsFitList
  <2>2. \A b \in Actors : \A q \in act'[b].held \cup act'[b].keep : q \notin unev'
    BY <1>1, <1>2, <1>5, <1>7 DEF Flags
  <2>3. \A b \in Actors : act'[b].pc = "add" =>
           \A q \in act'[b].page : q \notin unev' /\ q \notin active'
    BY <1>1, <1>2, <1>5, <1>7 DEF Flags
  <2> QED BY <2>1, <2>2, <2>3 DEF Flags
<1>14. NeverStranded'
  BY <1>1, <1>2, <1>7, <1>8, <1>9 DEF NeverStranded, Evictable
<1> QED BY <1>10, <1>11, <1>12, <1>13, <1>14 DEF LruInv

----------------------------------------------------------------------------
(* Steps of nobody's registers: the vectors, SHM_LOCK, and a user that goes. *)

(* act and the flags in hand stay when pages nobody owns move.              *)
LEMMA HandStay ==
  ASSUME Flags, act' = act, unev' \subseteq unev, active' \subseteq active,
         FlagsFitList', \A q \in Pages : on'[q] = "vec" => q \notin unev'
  PROVE  Flags'
BY DEF Flags

LEMMA DrainInv == ASSUME LruInv, Drain PROVE LruInv'
<1> DEFINE S == {p \in Pages : on[p] = "vec"}
<1>1. TypeInv /\ Shapes /\ Place /\ Flags /\ NeverStranded
  BY DEF LruInv
<1>2. /\ PutOn(S, [p \in S |-> DrainTarget(p)])
      /\ active' = active \ {p \in S : DrainTarget(p) = "none"}
      /\ UNCHANGED <<unev, mlocked, shmLocked, user, act, shm>>
  BY DEF Drain
<1>3. \A q \in S :
        /\ DrainTarget(q) \in {"active", "inactive", "none"}
        /\ DrainTarget(q) = "none" => q \notin user
        /\ DrainTarget(q) # "none" => q \in user \/ \E b \in Actors : q \in Ref(act[b])
  BY OwnIs DEF DrainTarget
<1>4. /\ \A q \in Pages : on'[q] = IF on[q] = "vec" THEN DrainTarget(q) ELSE on[q]
      /\ on' \in [Pages -> Lists \cup {"vec", "none"}]
  <2>1. \A q \in S : [p \in S |-> DrainTarget(p)][q] = DrainTarget(q)
    OBVIOUS
  <2>2. \A q \in S : [p \in S |-> DrainTarget(p)][q] \in Lists \cup {"vec", "none"}
    BY <1>3, <2>1 DEF Lists
  <2>3. S \in SUBSET Pages /\ \A q \in Pages : q \in S <=> on[q] = "vec"
    OBVIOUS
  <2> HIDE DEF S
  <2> QED BY <1>1, <1>2, <2>1, <2>2, <2>3, PutOnIs
<1>5. TypeInv'
  BY <1>1, <1>2, <1>4 DEF TypeInv
<1>6. Shapes'
  BY <1>1, <1>2 DEF Shapes, Shape
<1>7. Place'
  <2>1. \A b \in Actors : \A q \in Own(act[b]) : on'[q] = "none"
    <3>1. \A b \in Actors : Own(act[b]) \subseteq Pages
      BY <1>1 DEF Own, TypeInv, Regs
    <3> QED BY <1>1, <1>4, <3>1 DEF Place
  <2>2. \A q \in Pages : on'[q] = "none" => on[q] = "none" \/ q \notin user'
    BY <1>2, <1>3, <1>4
  <2>3. \A q \in Pages : on'[q] \in Lists => q \in user' \/ \E b \in Actors : q \in Ref(act[b])
    <3> SUFFICES ASSUME NEW q \in Pages, on'[q] \in Lists
                 PROVE  q \in user \/ \E b \in Actors : q \in Ref(act[b])
      BY <1>2
    <3>1. CASE on[q] = "vec"
      BY <1>3, <1>4, <3>1 DEF Lists
    <3>2. CASE on[q] # "vec"
      BY <1>1, <1>4, <3>2 DEF Place
    <3> QED BY <3>1, <3>2
  <2> QED BY <1>1, <1>2, <2>1, <2>2, <2>3, PlaceStay
<1>8. Flags'
  <2>1. FlagsFitList' /\ \A q \in Pages : on'[q] = "vec" => q \notin unev'
    BY <1>1, <1>2, <1>3, <1>4 DEF Flags, FlagsFitList
  <2> QED BY <1>1, <1>2, <2>1, HandStay
<1>9. NeverStranded'
  BY <1>1, <1>2, <1>3, <1>4 DEF NeverStranded, Evictable
<1> QED BY <1>5, <1>6, <1>7, <1>8, <1>9 DEF LruInv

LEMMA CheckMoveInv == ASSUME LruInv, CheckMoveUnevictablePages PROVE LruInv'
<1> DEFINE S == {p \in FilePages : on[p] = "unevictable" /\ p \in unev /\ Evictable(p)}
<1>1. TypeInv /\ Shapes /\ Place /\ Flags /\ NeverStranded
  BY DEF LruInv
<1>2. /\ PutOn(S, [p \in S |-> "inactive"]) /\ unev' = unev \ S /\ shm' = "idle"
      /\ UNCHANGED <<active, mlocked, shmLocked, user, act>>
  BY DEF CheckMoveUnevictablePages
<1>3. /\ \A q \in Pages : on'[q] = IF q \in S THEN "inactive" ELSE on[q]
      /\ on' \in [Pages -> Lists \cup {"vec", "none"}]
  <2>1. S \in SUBSET Pages /\ \A q \in S : [p \in S |-> "inactive"][q] \in Lists \cup {"vec", "none"}
    BY PagesAssumption DEF Lists
  <2>2. \A q \in S : [p \in S |-> "inactive"][q] = "inactive"
    OBVIOUS
  <2> HIDE DEF S
  <2> QED BY <1>1, <1>2, <2>1, <2>2, PutOnIs
<1>4. \A q \in S : on[q] = "unevictable"
  OBVIOUS
<1>5. \A q \in FilePages : on[q] = "unevictable" /\ Evictable(q) => q \in S
  BY <1>1, PagesAssumption DEF Flags, FlagsFitList
<1> HIDE DEF S
<1>6. TypeInv'
  BY <1>1, <1>2, <1>3 DEF TypeInv
<1>7. Shapes'
  BY <1>1, <1>2 DEF Shapes, Shape
<1>8. Place'
  <2>0. \A b \in Actors : Own(act[b]) \subseteq Pages
    BY <1>1 DEF Own, TypeInv, Regs
  <2>1. \A b \in Actors : \A q \in Own(act[b]) : on'[q] = "none"
    BY <1>1, <1>3, <1>4, <2>0 DEF Place
  <2>2. \A q \in Pages : on'[q] \in Lists => on[q] \in Lists
    BY <1>3, <1>4 DEF Lists
  <2>3. \A q \in Pages : on'[q] \in Lists => q \in user' \/ \E b \in Actors : q \in Ref(act[b])
    BY <1>1, <1>2, <2>2 DEF Place
  <2>4. \A q \in Pages : on'[q] = "none" => on[q] = "none"
    BY <1>3
  <2> QED BY <1>1, <1>2, <2>1, <2>3, <2>4, PlaceStay
<1>9. Flags'
  <2>1. FlagsFitList' /\ \A q \in Pages : on'[q] = "vec" => q \notin unev'
    BY <1>1, <1>2, <1>3 DEF Flags, FlagsFitList
  <2> QED BY <1>1, <1>2, <2>1, HandStay
<1>10. NeverStranded'
  <2> SUFFICES ASSUME NEW q \in Pages, on'[q] = "unevictable", Evictable(q)'
               PROVE  \E b \in Actors : q \in act'[b].page /\ act'[b].pc \in {"recheck", "take"}
    BY DEF NeverStranded
  <2>1. on[q] = "unevictable" /\ Evictable(q) /\ q \notin S
    BY <1>2, <1>3 DEF Evictable
  <2> QED BY <1>1, <1>2, <1>5, <2>1 DEF NeverStranded
<1> QED BY <1>6, <1>7, <1>8, <1>9, <1>10 DEF LruInv

LEMMA DropPageInv == ASSUME LruInv, NEW p \in Pages, DropPage(p) PROVE LruInv'
<1> DEFINE off == (\A a \in Actors : p \notin Ref(act[a])) /\ on[p] \in Lists
<1>1. TypeInv /\ Shapes /\ Place /\ Flags /\ NeverStranded
  BY DEF LruInv
<1>2. /\ user' = user \ {p} /\ UNCHANGED <<mlocked, shmLocked, act, shm>>
      /\ \/ /\ off /\ PutOn({p}, [q \in {p} |-> "none"])
            /\ unev' = unev \ {p} /\ active' = active \ {p}
         \/ ~off /\ on' = on /\ unev' = unev /\ active' = active
  BY OwnIs DEF DropPage
<1>3. /\ \A q \in Pages : on'[q] = IF off /\ q = p THEN "none" ELSE on[q]
      /\ on' \in [Pages -> Lists \cup {"vec", "none"}]
  <2>1. CASE off
    <3>1. PutOn({p}, [q \in {p} |-> "none"])
      BY <1>2, <2>1
    <3>2. \A q \in {p} : [x \in {p} |-> "none"][q] = "none"
      OBVIOUS
    <3> HIDE DEF off
    <3> QED BY <1>1, <2>1, <3>1, <3>2, PutOnIs
  <2>2. CASE ~off
    BY <1>1, <1>2, <2>2 DEF TypeInv
  <2> QED BY <2>1, <2>2
<1>4. unev' \subseteq unev /\ active' \subseteq active
      /\ \A q \in Pages : q # p => (q \in unev' <=> q \in unev)
  BY <1>2
<1>5. TypeInv'
  BY <1>1, <1>2, <1>3, <1>4 DEF TypeInv
<1>6. Shapes'
  BY <1>1, <1>2 DEF Shapes, Shape
<1>7. Place'
  <2>0. \A b \in Actors : Own(act[b]) \subseteq Pages
    BY <1>1 DEF Own, TypeInv, Regs
  <2>1. \A b \in Actors : \A q \in Own(act[b]) : on'[q] = "none"
    BY <1>1, <1>3, <2>0 DEF Place
  <2>2. \A q \in Pages : on'[q] = "none" => on[q] = "none" \/ q \notin user'
    BY <1>2, <1>3
  <2>3. \A q \in Pages : on'[q] \in Lists => q \in user' \/ \E b \in Actors : q \in Ref(act[b])
    BY <1>1, <1>2, <1>3 DEF Place, Lists
  <2> QED BY <1>1, <1>2, <2>1, <2>2, <2>3, PlaceStay
<1>8. Flags'
  <2>1. FlagsFitList' /\ \A q \in Pages : on'[q] = "vec" => q \notin unev'
    BY <1>1, <1>2, <1>3 DEF Flags, FlagsFitList
  <2> QED BY <1>1, <1>2, <1>4, <2>1, HandStay
<1>9. NeverStranded'
  BY <1>1, <1>2, <1>3 DEF NeverStranded, Evictable
<1> QED BY <1>5, <1>6, <1>7, <1>8, <1>9 DEF LruInv

LEMMA ShmInv == ASSUME LruInv, ShmLock \/ ShmUnlock PROVE LruInv'
<1>1. /\ UNCHANGED <<on, active, unev, mlocked, user, act>>
      /\ shmLocked' \in BOOLEAN /\ shm' \in {"idle", "move"}
      /\ (shmLocked' = TRUE /\ shm' = shm) \/ (shmLocked' = FALSE /\ shm' = "move")
  BY DEF ShmLock, ShmUnlock, LruInv, TypeInv
<1>2. TypeInv' /\ Shapes'
  BY <1>1 DEF LruInv, TypeInv, Shapes, Shape
<1>3. Place'
  BY <1>1 DEF LruInv, Place, Own, Ref
<1>4. Flags'
  BY <1>1 DEF LruInv, Flags, FlagsFitList
<1>5. NeverStranded'
  BY <1>1 DEF LruInv, NeverStranded, Evictable
<1> QED BY <1>2, <1>3, <1>4, <1>5 DEF LruInv

----------------------------------------------------------------------------

LEMMA InitLru == Init => LruInv
<1> SUFFICES ASSUME Init PROVE LruInv
  OBVIOUS
<1>1. Rest \in Regs /\ Rest.pc = "idle" /\ Rest.held = {} /\ Rest.keep = {} /\ Rest.page = {}
  BY DEF Rest, Regs, Pcs, Kinds
<1>2. \A a \in Actors : act[a] = Rest
  BY DEF Init
<1>3. Shape(Rest) /\ Own(Rest) = {} /\ Ref(Rest) = {}
  BY <1>1 DEF Shape, Own, Ref
<1>4. TypeInv
  BY <1>1 DEF Init, TypeInv, Lists
<1>5. Shapes /\ Place
  BY <1>2, <1>3 DEF Init, Shapes, Place, Lists
<1>6. Flags
  BY <1>1, <1>2 DEF Init, Flags, FlagsFitList
<1>7. NeverStranded
  BY DEF Init, NeverStranded
<1> QED BY <1>4, <1>5, <1>6, <1>7 DEF LruInv

LEMMA NextLru == LruInv /\ [Next]_vars => LruInv'
<1> SUFFICES ASSUME LruInv, [Next]_vars PROVE LruInv'
  OBVIOUS
<1>1. ASSUME NEW a \in Actors, Step(a) \/ ShrinkList(a) \/ WaitKilled(a) PROVE LruInv'
  BY <1>1, PutbackInv, AddUnevictableInv, RecheckInv, WaitInv, IsolateLruPagesInv,
     PutbackPagesInv, IsolateLruPageInv, CullInv, ReclaimInv, KeepPageInv DEF Step
<1>2. CASE UNCHANGED vars
  <2>1. UNCHANGED <<on, active, unev, mlocked, shmLocked, user, act, shm>>
    BY <1>2 DEF vars
  <2>2. TypeInv' /\ Shapes'
    BY <2>1 DEF LruInv, TypeInv, Shapes, Shape
  <2>3. Place'
    BY <2>1 DEF LruInv, Place, Own, Ref
  <2>4. Flags' /\ NeverStranded'
    BY <2>1 DEF LruInv, Flags, FlagsFitList, NeverStranded, Evictable
  <2> QED BY <2>2, <2>3, <2>4 DEF LruInv
<1> QED BY <1>1, <1>2, LockInv, DropPageInv, DrainInv, ShmInv, CheckMoveInv DEF Next

(* Shapes of the calls, places and flags of the pages hold together: each   *)
(* step of shrink_inactive_list, shrink_active_list, mlock and SHM_UNLOCK   *)
(* needs the three of them to keep one.                                     *)
THEOREM LruInvariant == Spec => []LruInv
BY InitLru, NextLru, PTL DEF Spec

(* Each page is in one place, whoever isolates it, puts it back or lets go  *)
(* of its last reference.                                                   *)
THEOREM PagesInOnePlace == Spec => []OnePlace
<1>1. LruInv => OnePlace
  <2> SUFFICES ASSUME LruInv, NEW p \in Pages
               PROVE  LET holders == {a \in Actors : p \in Isolated(a)} IN
                      /\ Cardinality(holders) <= 1
                      /\ holders # {} => on[p] = "none"
                      /\ on[p] = "none" => holders # {} \/ p \notin user
                      /\ on[p] \in Lists => p \in user \/ \E a \in Actors : p \in InHand(a)
    BY DEF OnePlace
  <2> DEFINE holders == {a \in Actors : p \in Isolated(a)}
  <2>1. Place
    BY DEF LruInv
  <2>2. holders = {a \in Actors : p \in Own(act[a])}
    BY OwnIs
  <2>3. holders = {} \/ \E a : holders = {a}
    BY <2>1, <2>2 DEF Place
  <2>4. Cardinality(holders) <= 1
    <3>1. Cardinality({}) = 0 /\ \A a : Cardinality({a}) = 1
      BY FS_EmptySet, FS_Singleton
    <3> HIDE DEF holders
    <3>2. Cardinality(holders) = 0 \/ Cardinality(holders) = 1
      BY <2>3, <3>1
    <3> QED BY <3>2
  <2>5. on[p] \in Lists => p \in user \/ \E a \in Actors : p \in InHand(a)
    BY <2>1, OwnIs DEF Place
  <2> QED BY <2>1, <2>2, <2>4, <2>5 DEF Place
<1> QED BY <1>1, LruInvariant, PTL

(* What BUG() of isolate_lru_pages and the VM_BUG_ONs of                     *)
(* check_move_unevictable_pages assert of the flags of listed pages.        *)
THEOREM FlagsAsAsserted == Spec => []FlagsFitList
<1>1. LruInv => FlagsFitList
  BY DEF LruInv, Flags
<1> QED BY <1>1, LruInvariant, PTL

(* putback_lru_page against munlock and SHM_UNLOCK: whichever order they    *)
(* come in, somebody finds a page that became evictable.                    *)
THEOREM NobodyStranded == Spec => []NeverStranded
<1>1. LruInv => NeverStranded
  BY DEF LruInv
<1> QED BY <1>1, LruInvariant, PTL

----------------------------------------------------------------------------
(* The counters of the lists.                                              *)

CountInv ==
    /\ on \in [Pages -> Lists \cup {"vec", "none"}]
    /\ nr \in [Lists -> [Kinds -> Int]]
    /\ ListsCounted

(* Pages that join a set and pages that leave it.                           *)
LEMMA CardinalityChange ==
  ASSUME NEW Old, IsFiniteSet(Old), NEW Gained, IsFiniteSet(Gained), Gained \cap Old = {},
         NEW Lost \in SUBSET Old
  PROVE  Cardinality((Old \ Lost) \cup Gained) = Cardinality(Old) + Cardinality(Gained) - Cardinality(Lost)
<1>1. IsFiniteSet(Lost) /\ IsFiniteSet(Old \ Lost)
  BY FS_Subset
<1>2. /\ Cardinality(Old) \in Nat /\ Cardinality(Gained) \in Nat
      /\ Cardinality(Lost) \in Nat /\ Cardinality(Old \ Lost) \in Nat
  BY <1>1, FS_CardinalityType
<1>3. Lost \cup (Old \ Lost) = Old /\ Lost \cap (Old \ Lost) = {}
  OBVIOUS
<1>4. Cardinality(Old) = Cardinality(Lost) + Cardinality(Old \ Lost)
  <2>1. Cardinality(Lost \cup (Old \ Lost)) =
          Cardinality(Lost) + Cardinality(Old \ Lost) - Cardinality(Lost \cap (Old \ Lost))
    BY <1>1, FS_Union
  <2> QED BY <1>2, <1>3, <2>1, FS_EmptySet
<1>5. (Old \ Lost) \cap Gained = {}
  OBVIOUS
<1>6. Cardinality((Old \ Lost) \cup Gained) = Cardinality(Old \ Lost) + Cardinality(Gained)
  <2>1. Cardinality((Old \ Lost) \cup Gained) =
          Cardinality(Old \ Lost) + Cardinality(Gained) - Cardinality((Old \ Lost) \cap Gained)
    BY <1>1, FS_Union
  <2> QED BY <1>2, <1>5, <2>1, FS_EmptySet
<1> QED BY <1>2, <1>4, <1>6

(* PutOn counts each page off the list it leaves and onto the one it joins.  *)
LEMMA PutOnCounts ==
  ASSUME CountInv, NEW S \in SUBSET Pages, NEW dest, PutOn(S, dest),
         on' \in [Pages -> Lists \cup {"vec", "none"}]
  PROVE  CountInv'
<1>1. on' = Moved(S, dest) /\ nr' = Recount(on')
  BY DEF PutOn
<1>2. ASSUME NEW l \in Lists, NEW kd \in Kinds
      PROVE  nr'[l][kd] = Cardinality(OnList(l, kd)') /\ nr'[l][kd] \in Int
  <2> DEFINE Old    == OnList(l, kd)
             Gained == {p \in Pages : Kind(p) = kd /\ on'[p] = l /\ on[p] # l}
             Lost   == {p \in Pages : Kind(p) = kd /\ on[p] = l /\ on'[p] # l}
  <2>1. OnList(l, kd)' = (Old \ Lost) \cup Gained
    BY DEF OnList
  <2>2. Lost \in SUBSET Old /\ Gained \cap Old = {}
    BY DEF OnList
  <2>3. Old \subseteq Pages /\ Gained \subseteq Pages /\ Lost \subseteq Pages
    BY DEF OnList
  <2>4. IsFiniteSet(Old) /\ IsFiniteSet(Gained) /\ IsFiniteSet(Lost)
    BY <2>3, PagesAssumption, FS_Subset
  <2>5. nr'[l][kd] = nr[l][kd] + Cardinality(Gained) - Cardinality(Lost)
    BY <1>1, Zenon DEF Recount
  <2>6. nr[l][kd] = Cardinality(Old)
    BY DEF CountInv, ListsCounted
  <2> HIDE DEF Old, Gained, Lost
  <2>7. Cardinality((Old \ Lost) \cup Gained) = Cardinality(Old) + Cardinality(Gained) - Cardinality(Lost)
    BY <2>2, <2>4, CardinalityChange
  <2>8. Cardinality(Old) \in Nat /\ Cardinality(Gained) \in Nat /\ Cardinality(Lost) \in Nat
    BY <2>4, FS_CardinalityType
  <2> QED BY <2>1, <2>5, <2>6, <2>7, <2>8
<1>3. nr' \in [Lists -> [Kinds -> Int]]
  <2> DEFINE F(l, kd) == nr[l][kd]
        + Cardinality({p \in Pages : Kind(p) = kd /\ on'[p] = l /\ on[p] # l})
        - Cardinality({p \in Pages : Kind(p) = kd /\ on[p] = l /\ on'[p] # l})
  <2>1. nr' = [l \in Lists |-> [kd \in Kinds |-> F(l, kd)]]
    BY <1>1, Zenon DEF Recount
  <2> HIDE DEF F
  <2>2. \A l \in Lists, kd \in Kinds : F(l, kd) \in Int
    BY <1>2, <2>1
  <2> QED BY <2>1, <2>2
<1> QED BY <1>2, <1>3 DEF CountInv, ListsCounted

(* A page that joins or leaves no list changes no counter.                  *)
LEMMA SameCounts ==
  ASSUME CountInv, nr' = nr, on' \in [Pages -> Lists \cup {"vec", "none"}],
         \A p \in Pages, l \in Lists : on'[p] = l <=> on[p] = l
  PROVE  CountInv'
<1>1. \A l \in Lists, kd \in Kinds : OnList(l, kd)' = OnList(l, kd)
  BY DEF OnList
<1> QED BY <1>1 DEF CountInv, ListsCounted

LEMMA NextCount == LruInv /\ LruInv' /\ CountInv /\ [Next]_vars => CountInv'
<1> SUFFICES ASSUME LruInv, LruInv', CountInv, [Next]_vars PROVE CountInv'
  OBVIOUS
<1>1. TypeInv /\ Shapes /\ on' \in [Pages -> Lists \cup {"vec", "none"}]
  BY DEF LruInv, TypeInv
<1>2. ASSUME on' = on, nr' = nr PROVE CountInv'
  BY <1>1, <1>2, SameCounts
<1>3. ASSUME NEW S \in SUBSET Pages, \E dest : PutOn(S, dest) PROVE CountInv'
  BY <1>1, <1>3, PutOnCounts
<1>4. ASSUME NEW a \in Actors, Step(a) \/ ShrinkList(a) \/ WaitKilled(a) PROVE CountInv'
  <2> DEFINE p == CHOOSE q \in act[a].page : TRUE
  <2>1. CASE Putback(a)
    <3>1. p \in Pages /\ act[a].page = {p}
      BY <1>1, <2>1, ThePage DEF Putback
    <3>2. on[p] = "none"
      BY <2>1, <3>1 DEF LruInv, Place, Own, Putback
    <3>3. nr' = nr /\ (on' = on \/ on' = [on EXCEPT ![p] = "vec"])
      BY <2>1, Zenon DEF Putback
    <3> HIDE DEF p
    <3>4. \A q \in Pages, l \in Lists : on'[q] = l <=> on[q] = l
      BY <1>1, <3>1, <3>2, <3>3 DEF TypeInv, Lists
    <3> QED BY <1>1, <3>3, <3>4, SameCounts
  <2>2. CASE AddUnevictable(a)
    <3>1. p \in Pages
      BY <1>1, <2>2, ThePage DEF AddUnevictable
    <3>2. \E dest : PutOn({p}, dest)
      BY <2>2, Zenon DEF AddUnevictable
    <3> HIDE DEF p
    <3> QED BY <1>3, <3>1, <3>2
  <2>3. CASE Recheck(a)
    <3>1. p \in Pages
      BY <1>1, <2>3, ThePage DEF Recheck
    <3>2. (\E dest : PutOn({p}, dest)) \/ \E dest : PutOn(Unused({p}, a), dest)
      BY <2>3, Zenon DEF Recheck
    <3> HIDE DEF p
    <3>3. Unused({p}, a) \in SUBSET Pages
      BY <3>1 DEF Unused
    <3> QED BY <1>3, <3>1, <3>2, <3>3
  <2>4. CASE IsolateLruPages(a)
    <3>1. PICK S \in SUBSET Takeable(act[a]) : \E dest : PutOn(S, dest)
      BY <2>4, Zenon DEF IsolateLruPages
    <3>2. S \in SUBSET Pages
      BY DEF Takeable, OnList
    <3> QED BY <1>3, <3>1, <3>2
  <2>5. CASE PutbackPages(a)
    <3>1. act[a].keep \in SUBSET Pages
      BY <1>1 DEF TypeInv, Regs
    <3>2. \E dest : PutOn(act[a].keep, dest)
      BY <2>5, Zenon DEF PutbackPages
    <3> QED BY <1>3, <3>1, <3>2
  <2>6. CASE IsolateLruPage(a)
    <3>1. p \in Pages
      BY <1>1, <2>6, ThePage DEF IsolateLruPage
    <3>2. (\E dest : PutOn({p}, dest)) \/ (on' = on /\ nr' = nr)
      BY <2>6, Zenon DEF IsolateLruPage
    <3> HIDE DEF p
    <3> QED BY <1>2, <1>3, <3>1, <3>2
  <2>7. CASE EnoughLeft(a) \/ ShrinkList(a) \/ WaitKilled(a)
    BY <1>2, <2>7 DEF EnoughLeft, ShrinkList, WaitKilled
  <2>8. ASSUME NEW q \in Pages, NEW b \in BOOLEAN,
               Cull(a, q) \/ Reclaim(a, q) \/ PutbackCull(a, q) \/ KeepPage(a, q, b)
        PROVE  CountInv'
    BY <1>2, <2>8 DEF Cull, Reclaim, PutbackCull, KeepPage
  <2> QED BY <1>4, <2>1, <2>2, <2>3, <2>4, <2>5, <2>6, <2>7, <2>8 DEF Step
<1>5. ASSUME NEW a \in Actors, NEW p \in Pages, Mlock(a, p) \/ Munlock(a, p) PROVE CountInv'
  BY <1>2, <1>5 DEF Mlock, Munlock
<1>6. ASSUME NEW p \in Pages, DropPage(p) PROVE CountInv'
  <2>1. (\E dest : PutOn({p}, dest)) \/ (on' = on /\ nr' = nr)
    BY <1>6, Zenon DEF DropPage
  <2> QED BY <1>2, <1>3, <2>1
<1>7. CASE Drain
  <2>1. \E dest : PutOn({p \in Pages : on[p] = "vec"}, dest)
    BY <1>7, Zenon DEF Drain
  <2> QED BY <1>3, <2>1
<1>8. CASE CheckMoveUnevictablePages
  <2> DEFINE S == {p \in FilePages : on[p] = "unevictable" /\ p \in unev /\ Evictable(p)}
  <2>1. \E dest : PutOn(S, dest)
    BY <1>8, Zenon DEF CheckMoveUnevictablePages
  <2>2. S \in SUBSET Pages
    BY PagesAssumption
  <2> HIDE DEF S
  <2> QED BY <1>3, <2>1, <2>2
<1>9. CASE ShmLock \/ ShmUnlock
  BY <1>2, <1>9 DEF ShmLock, ShmUnlock
<1>10. CASE UNCHANGED vars
  BY <1>2, <1>10 DEF vars
<1> QED BY <1>4, <1>5, <1>6, <1>7, <1>8, <1>9, <1>10 DEF Next

(* The counters that shrink_lruvec and get_scan_count compare are the sizes *)
(* of the lists, after every move and every page that was freed on the way. *)
THEOREM ListCountersExact == Spec => []ListsCounted
<1>1. Init => CountInv
  <2> SUFFICES ASSUME Init PROVE CountInv
    OBVIOUS
  <2>1. on \in [Pages -> Lists \cup {"vec", "none"}]
    BY DEF Init, Lists
  <2>2. \A l \in Lists, kd \in Kinds : Cardinality(OnList(l, kd)) \in Int
    <3> SUFFICES ASSUME NEW l \in Lists, NEW kd \in Kinds PROVE Cardinality(OnList(l, kd)) \in Int
      OBVIOUS
    <3>1. OnList(l, kd) \subseteq Pages
      BY DEF OnList
    <3>2. IsFiniteSet(OnList(l, kd))
      BY <3>1, PagesAssumption, FS_Subset
    <3> QED BY <3>2, FS_CardinalityType
  <2> DEFINE F(l, kd) == Cardinality(OnList(l, kd))
  <2>3. nr = [l \in Lists |-> [kd \in Kinds |-> F(l, kd)]]
    BY DEF Init
  <2> HIDE DEF F
  <2>4. nr \in [Lists -> [Kinds -> Int]] /\ \A l \in Lists, kd \in Kinds : nr[l][kd] = F(l, kd)
    BY <2>2, <2>3 DEF F
  <2> QED BY <2>1, <2>4 DEF CountInv, ListsCounted, F
<1>2. CountInv => ListsCounted
  BY DEF CountInv
<1> QED BY <1>1, <1>2, NextCount, LruInvariant, PTL DEF Spec
=============================================================================
