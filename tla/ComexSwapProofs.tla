--------------------------- MODULE ComexSwapProofs ---------------------------
(***************************************************************************)
(* An anonymous page through the swap cache, the COMEX page numbers and    *)
(* the disk, for any number of address spaces, page frames, entries and    *)
(* threads: its contents, who may write it, and the swap map.              *)
(***************************************************************************)
EXTENDS ComexSwap, FiniteSetTheorems, TLAPS

Vals == Mms \cup {Zero}
MapPtes == [k : {"map"}, f : Frames, w : BOOLEAN, d : BOOLEAN]
PteType == {NoPte, ZeroPte} \cup {SwapPte(e) : e \in Entries} \cup MapPtes
FrameType == [used : BOOLEAN, val : Vals, dirty : BOOLEAN, wb : BOOLEAN,
              entry : Entries \cup {None}, lock : Actors \cup {None},
              pins : SUBSET Actors, root : Mms \cup {None}]
DiskType == [count : Int, has : BOOLEAN]
TaskType ==
    {Idle} \cup [at : {"copied"}, m : Mms, orig : {ZeroPte} \cup MapPtes, new : Frames]
    \cup [at : {"lock"}, m : Mms, e : Entries, f : Frames]
    \cup [at : {"next"}, m : Mms, e : Entries, todo : SUBSET Entries]
    \cup [at : {"alloc", "fill"}, m : Mms, e : Entries, x : Entries,
          todo : SUBSET Entries, last : BOOLEAN]
RecType == {Idle} \cup [at : {"add", "unmap", "sent"}, f : Frames]

(* Who maps a page frame, who names an entry, and who does one or the other  *)
(* with the page of an entry.                                               *)
Maps(pt, m, f)     == pt[m].k = "map" /\ pt[m].f = f
Names(pt, m, e)    == pt[m] = SwapPte(e)
Uses(pt, fr, m, e) == Names(pt, m, e) \/ \E f \in Frames : Maps(pt, m, f) /\ fr[f].entry = e

(* An entry has one page in the cache, a page under writeback is the disk's, *)
(* and one that is being filled is clean and nobody's yet.                  *)
FrameForms(pt, fr) ==
    /\ \A f \in Frames : ~fr[f].used => fr[f] = FreeFrame
    /\ \A f, g \in Frames : fr[f].entry # None /\ fr[f].entry = fr[g].entry => f = g
    /\ \A f \in Frames : fr[f].wb => fr[f].entry \in Disk
    /\ \A f \in Frames : fr[f].lock \in Tasks =>
          fr[f].entry # None /\ ~fr[f].dirty /\ ~fr[f].wb
    /\ \A m \in Mms, f \in Frames : Maps(pt, m, f) => fr[f].used /\ fr[f].lock \notin Tasks
    /\ \A m \in Mms : pt[m].k = "map" /\ pt[m].w => pt[m].d

(* A copy is its maker's alone; the reclaimer's page is pinned and, until it *)
(* is sent, locked.                                                         *)
Copies(pt, fr, tk, rc) ==
    \A t \in Tasks : tk[t].at = "copied" =>
        LET n == tk[t].new IN
        /\ fr[n].used /\ t \in fr[n].pins /\ fr[n].entry = None /\ fr[n].lock = None
        /\ \A m \in Mms : ~Maps(pt, m, n)
        /\ tk[t].orig = ZeroPte => fr[n].val = Zero
        /\ \A u \in Tasks : tk[u].at = "copied" /\ tk[u].new = n => u = t
        /\ rc = Idle \/ rc.f # n
Reclaimed(fr, rc) ==
    /\ rc # Idle => Kswapd \in fr[rc.f].pins
    /\ rc.at \in {"add", "unmap"} => fr[rc.f].lock = Kswapd
    /\ rc.at = "add" => fr[rc.f].entry = None
    /\ rc.at = "unmap" => fr[rc.f].entry # None /\ ~fr[rc.f].wb

MapExact(pt, fr, dk) ==
    \A e \in Disk :
        /\ dk[e].count = Cardinality({m \in Mms : Names(pt, m, e)})
        /\ dk[e].has <=> \E f \in Frames : fr[f].entry = e

(* A page number that never had two owners has one user at most.            *)
OneUser(pt, fr, ta) ==
    \A e \in Comex \ ta : \A m, n \in Mms :
        Uses(pt, fr, m, e) /\ Uses(pt, fr, n, e) => m = n

(* Who may write a page shares it with nobody, or its sharers are spoilt.   *)
Shares(pt, fr, n, f) ==
    Maps(pt, n, f) \/ \E e \in Disk : fr[f].entry = e /\ Names(pt, n, e)
Writers(pt, fr, sp) ==
    \A m \in Mms, f \in Frames : Maps(pt, m, f) /\ pt[m].w =>
        \A n \in Mms : Shares(pt, fr, n, f) => n = m \/ {m, n} \subseteq sp

(* What the users of a page, and of an entry, would read.                   *)
MappedRight(pt, fr, st, wa, ta, sp) ==
    \A m \in Mms, f \in Frames : Maps(pt, m, f) /\ m \notin sp =>
        /\ fr[f].val = wa[m]
        /\ fr[f].entry \in Disk /\ ~fr[f].dirty /\ ~pt[m].d => st[fr[f].entry] = wa[m]
        /\ fr[f].entry \in Comex \ ta => st[fr[f].entry] = wa[m]
NamedRight(pt, fr, st, wa, ta, sp) ==
    \A m \in Mms, e \in Entries \ ta : Names(pt, m, e) /\ m \notin sp =>
        /\ \A f \in Frames : fr[f].entry = e /\ fr[f].lock \notin Tasks => fr[f].val = wa[m]
        /\ e \in Comex \/ (\A f \in Frames : fr[f].entry = e => ~fr[f].dirty)
             => st[e] = wa[m]
ZeroRight(pt, wa) == \A m \in Mms : pt[m] \in {NoPte, ZeroPte} => wa[m] = Zero


PageTypes(pt, fr, dk, st, wa, ta, sp) ==
    /\ pt \in [Mms -> PteType] /\ fr \in [Frames -> FrameType]
    /\ dk \in [Disk -> DiskType] /\ st \in [Entries -> Vals]
    /\ wa \in [Mms -> Vals] /\ ta \subseteq Comex /\ sp \subseteq Mms

PagesOk(pt, fr, dk, st, wa, ta, sp) ==
    /\ PageTypes(pt, fr, dk, st, wa, ta, sp) /\ FrameForms(pt, fr)
    /\ MapExact(pt, fr, dk) /\ OneUser(pt, fr, ta) /\ Writers(pt, fr, sp)
    /\ MappedRight(pt, fr, st, wa, ta, sp) /\ NamedRight(pt, fr, st, wa, ta, sp)
    /\ ZeroRight(pt, wa)

HandTypes(tk, rc) == tk \in [Tasks -> TaskType] /\ rc \in RecType
HandsOk(pt, fr, tk, rc) ==
    /\ HandTypes(tk, rc)
    /\ Copies(pt, fr, tk, rc) /\ Reclaimed(fr, rc)

LinesOk(ln)         == DOMAIN ln = Mms /\ \A m \in Mms : ln[m] \in Seq(Mms)
FaultsAlive(tk, ln) == \A t \in Tasks : tk[t] # Idle => ln[tk[t].m] # <<>>

SwapInv ==
    /\ PagesOk(pte, frame, disk, store, want, tainted, spoilt)
    /\ HandsOk(pte, frame, task, rec)
    /\ free \subseteq Comex /\ LinesOk(line) /\ FaultsAlive(task, line)
-----------------------------------------------------------------------------
(* The constants and the shapes of the records.                            *)

LEMMA Kinds ==
  /\ None \notin Entries /\ None \notin Tasks /\ Kswapd \notin Tasks /\ Kswapd # None
  /\ \A e \in Entries : e \in Disk \/ e \in Comex
  /\ \A e \in Disk : e \in Entries /\ e \notin Comex
  /\ \A e \in Comex : e \in Entries
BY SwapAssumption DEF Entries, Comex, Kswapd

LEMMA PteKinds ==
  /\ NoPte \in PteType /\ ZeroPte \in PteType /\ NoPte # ZeroPte
  /\ NoPte.k = "none" /\ ZeroPte.k = "zero"
  /\ \A e \in Entries : SwapPte(e) \in PteType
  /\ \A e : SwapPte(e).k = "swap" /\ SwapPte(e).e = e
            /\ SwapPte(e) # NoPte /\ SwapPte(e) # ZeroPte
  /\ \A f \in Frames, w \in BOOLEAN : MapPte(f, w) \in PteType
  /\ \A f, w : /\ MapPte(f, w).k = "map" /\ MapPte(f, w).f = f
               /\ MapPte(f, w).w = w /\ MapPte(f, w).d = w
  /\ \A p \in PteType :
        /\ p.k = "none" => p = NoPte
        /\ p.k = "zero" => p = ZeroPte
        /\ p.k = "swap" => p.e \in Entries /\ p = SwapPte(p.e)
        /\ p.k = "map" => p \in MapPtes
        /\ p.k \in {"none", "zero", "swap", "map"}
<1>1. /\ NoPte \in PteType /\ ZeroPte \in PteType /\ NoPte # ZeroPte
      /\ NoPte.k = "none" /\ ZeroPte.k = "zero"
  BY DEF NoPte, ZeroPte, PteType
<1>2. \A e \in Entries : SwapPte(e) \in PteType
  BY DEF PteType
<1>3. \A e : SwapPte(e).k = "swap" /\ SwapPte(e).e = e
             /\ SwapPte(e) # NoPte /\ SwapPte(e) # ZeroPte
  BY DEF SwapPte, NoPte, ZeroPte
<1>4. \A f \in Frames, w \in BOOLEAN : MapPte(f, w) \in PteType
  BY DEF MapPte, MapPtes, PteType
<1>5. \A f, w : /\ MapPte(f, w).k = "map" /\ MapPte(f, w).f = f
                /\ MapPte(f, w).w = w /\ MapPte(f, w).d = w
  BY DEF MapPte
<1>6. \A p \in MapPtes : p.k = "map"
  BY DEF MapPtes
<1>7. \A p \in PteType :
        /\ p.k = "none" => p = NoPte
        /\ p.k = "zero" => p = ZeroPte
        /\ p.k = "swap" => p.e \in Entries /\ p = SwapPte(p.e)
        /\ p.k = "map" => p \in MapPtes
        /\ p.k \in {"none", "zero", "swap", "map"}
  <2> SUFFICES ASSUME NEW p \in PteType
               PROVE  /\ p.k = "none" => p = NoPte
                      /\ p.k = "zero" => p = ZeroPte
                      /\ p.k = "swap" => p.e \in Entries /\ p = SwapPte(p.e)
                      /\ p.k = "map" => p \in MapPtes
                      /\ p.k \in {"none", "zero", "swap", "map"}
    OBVIOUS
  <2>1. p = NoPte \/ p = ZeroPte \/ (\E e \in Entries : p = SwapPte(e)) \/ p \in MapPtes
    BY DEF PteType
  <2>2. ("none" # "zero" /\ "none" # "swap" /\ "none" # "map" /\ "zero" # "swap"
         /\ "zero" # "map" /\ "swap" # "map")
    OBVIOUS
  <2> QED BY <1>1, <1>3, <1>6, <2>1, <2>2
<1> QED BY <1>1, <1>2, <1>3, <1>4, <1>5, <1>7

LEMMA TaskKinds ==
  /\ Idle.at = "idle"
  /\ \A x \in TaskType :
       /\ x.at = "idle" => x = Idle
       /\ x.at = "copied" => x.m \in Mms /\ x.orig \in {ZeroPte} \cup MapPtes /\ x.new \in Frames
       /\ x.at = "lock" => x.m \in Mms /\ x.e \in Entries /\ x.f \in Frames
       /\ x.at = "next" => x.m \in Mms /\ x.e \in Entries /\ x.todo \subseteq Entries
       /\ x.at \in {"alloc", "fill"} =>
            /\ x.m \in Mms /\ x.e \in Entries /\ x.x \in Entries
            /\ x.todo \subseteq Entries /\ x.last \in BOOLEAN
       /\ x.at \in {"idle", "copied", "lock", "next", "alloc", "fill"}
  /\ \A x \in RecType :
       /\ x # Idle => x.f \in Frames /\ x.at \in {"add", "unmap", "sent"}
       /\ x.at \in {"add", "unmap", "sent"} => x # Idle /\ x.f \in Frames
<1>1. Idle.at = "idle"
  BY DEF Idle
<1>2. ASSUME NEW x \in TaskType
      PROVE  /\ x.at = "idle" => x = Idle
             /\ x.at = "copied" => x.m \in Mms /\ x.orig \in {ZeroPte} \cup MapPtes /\ x.new \in Frames
             /\ x.at = "lock" => x.m \in Mms /\ x.e \in Entries /\ x.f \in Frames
             /\ x.at = "next" => x.m \in Mms /\ x.e \in Entries /\ x.todo \subseteq Entries
             /\ x.at \in {"alloc", "fill"} =>
                  /\ x.m \in Mms /\ x.e \in Entries /\ x.x \in Entries
                  /\ x.todo \subseteq Entries /\ x.last \in BOOLEAN
             /\ x.at \in {"idle", "copied", "lock", "next", "alloc", "fill"}
  <2>1. CASE x = Idle
    BY <1>1, <2>1
  <2>2. CASE x \in [at : {"copied"}, m : Mms, orig : {ZeroPte} \cup MapPtes, new : Frames]
    BY <2>2
  <2>3. CASE x \in [at : {"lock"}, m : Mms, e : Entries, f : Frames]
    BY <2>3
  <2>4. CASE x \in [at : {"next"}, m : Mms, e : Entries, todo : SUBSET Entries]
    BY <2>4
  <2>5. CASE x \in [at : {"alloc", "fill"}, m : Mms, e : Entries, x : Entries,
                    todo : SUBSET Entries, last : BOOLEAN]
    BY <2>5
  <2> QED BY <2>1, <2>2, <2>3, <2>4, <2>5 DEF TaskType
<1>3. \A x \in RecType :
       /\ x # Idle => x.f \in Frames /\ x.at \in {"add", "unmap", "sent"}
       /\ x.at \in {"add", "unmap", "sent"} => x # Idle /\ x.f \in Frames
  BY <1>1 DEF RecType
<1> QED BY <1>1, <1>2, <1>3

LEMMA FreeFrames ==
  /\ FreeFrame \in FrameType /\ ~FreeFrame.used /\ FreeFrame.entry = None
  /\ FreeFrame.lock = None /\ FreeFrame.pins = {} /\ ~FreeFrame.wb /\ ~FreeFrame.dirty
  /\ FreeFrame.val = Zero
BY DEF FreeFrame, FrameType, Vals, Zero

(* A page table entry names one entry, or maps one frame, or does neither.  *)
LEMMA PteOnly ==
  ASSUME NEW pt, NEW m \in Mms
  PROVE  /\ \A e, f : ~(Names(pt, m, e) /\ Maps(pt, m, f))
         /\ \A e, g : Names(pt, m, e) /\ Names(pt, m, g) => e = g
         /\ \A f, g : Maps(pt, m, f) /\ Maps(pt, m, g) => f = g
         /\ \A e, f : Names(pt, m, e) \/ Maps(pt, m, f) => pt[m] \notin {NoPte, ZeroPte}
BY PteKinds DEF Names, Maps

-----------------------------------------------------------------------------
(* Frames that differ in nothing the page tables or the cache can see.      *)

SeenSame(pt, fr, g) ==
  \A f \in Frames :
    /\ g[f].entry = fr[f].entry
    /\ (fr[f].entry # None \/ \E m \in Mms : Maps(pt, m, f)) =>
          /\ g[f].val = fr[f].val /\ g[f].dirty = fr[f].dirty
          /\ g[f].lock \in Tasks <=> fr[f].lock \in Tasks

LEMMA SeenSameKeeps ==
  ASSUME NEW pt, NEW fr, NEW g, NEW dk, NEW st, NEW wa, NEW ta, NEW sp,
         PagesOk(pt, fr, dk, st, wa, ta, sp),
         g \in [Frames -> FrameType], FrameForms(pt, g), SeenSame(pt, fr, g)
  PROVE  PagesOk(pt, g, dk, st, wa, ta, sp)
<1>1. PageTypes(pt, g, dk, st, wa, ta, sp)
  BY DEF PagesOk, PageTypes
<1>2. MapExact(pt, g, dk)
  BY DEF PagesOk, MapExact, SeenSame
<1>3. OneUser(pt, g, ta)
  BY DEF PagesOk, OneUser, Uses, SeenSame
<1>4. Writers(pt, g, sp)
  BY DEF PagesOk, Writers, Shares, SeenSame
<1>5. MappedRight(pt, g, st, wa, ta, sp)
  BY DEF PagesOk, MappedRight, SeenSame
<1>6. NamedRight(pt, g, st, wa, ta, sp)
  BY Kinds DEF PagesOk, NamedRight, SeenSame
<1> QED BY <1>1, <1>2, <1>3, <1>4, <1>5, <1>6 DEF PagesOk

(* A frame that is given back to the page allocator was mapped by nobody,   *)
(* held by nobody and not in the cache.                                     *)
LEMMA ReleasedFrames ==
  ASSUME NEW pt \in [Mms -> PteType], NEW fr \in [Frames -> FrameType]
  PROVE  /\ Released(fr, pt) \in [Frames -> FrameType]
         /\ \A f \in Frames :
              \/ Released(fr, pt)[f] = fr[f]
              \/ /\ Released(fr, pt)[f] = FreeFrame
                 /\ fr[f].pins = {} /\ fr[f].entry = None
                 /\ \A m \in Mms : ~Maps(pt, m, f)
<1>1. \A f \in Frames : Released(fr, pt)[f] =
        IF /\ fr[f].used /\ fr[f].pins = {} /\ fr[f].entry = None
           /\ \A m \in Mms : pt[m].k # "map" \/ pt[m].f # f
        THEN FreeFrame ELSE fr[f]
  BY DEF Released
<1>2. Released(fr, pt) \in [Frames -> FrameType]
  BY FreeFrames DEF Released
<1> QED BY <1>1, <1>2 DEF Maps

LEMMA ReleaseKeeps ==
  ASSUME NEW pt, NEW fr, NEW dk, NEW st, NEW wa, NEW ta, NEW sp, NEW tk, NEW rc,
         PagesOk(pt, fr, dk, st, wa, ta, sp), HandsOk(pt, fr, tk, rc)
  PROVE  /\ PagesOk(pt, Released(fr, pt), dk, st, wa, ta, sp)
         /\ HandsOk(pt, Released(fr, pt), tk, rc)
<1>1. pt \in [Mms -> PteType] /\ fr \in [Frames -> FrameType]
  BY DEF PagesOk, PageTypes
<1>2. PICK g \in [Frames -> FrameType] : g = Released(fr, pt)
  BY <1>1, ReleasedFrames
<1>3. \A f \in Frames :
        \/ g[f] = fr[f]
        \/ /\ g[f] = FreeFrame /\ fr[f].pins = {} /\ fr[f].entry = None
           /\ \A m \in Mms : ~Maps(pt, m, f)
  BY <1>1, <1>2, ReleasedFrames
<1>4. SeenSame(pt, fr, g)
  BY <1>3, FreeFrames DEF SeenSame
<1>5. FrameForms(pt, g)
  BY <1>3, FreeFrames, Kinds DEF PagesOk, FrameForms
<1>6. PagesOk(pt, g, dk, st, wa, ta, sp)
  BY <1>4, <1>5, SeenSameKeeps
<1>7. Copies(pt, g, tk, rc)
  <2> SUFFICES ASSUME NEW t \in Tasks, tk[t].at = "copied"
               PROVE  g[tk[t].new] = fr[tk[t].new]
    BY DEF HandsOk, HandTypes, Copies
  <2>1. tk[t].new \in Frames /\ t \in fr[tk[t].new].pins
    BY TaskKinds DEF HandsOk, HandTypes, Copies
  <2> QED BY <1>3, <2>1
<1>8. Reclaimed(g, rc)
  <2>1. CASE rc = Idle
    BY <2>1, TaskKinds DEF Reclaimed
  <2>2. CASE rc # Idle
    <3>1. rc.f \in Frames /\ Kswapd \in fr[rc.f].pins
      BY <2>2, TaskKinds DEF HandsOk, HandTypes, Reclaimed
    <3>2. g[rc.f] = fr[rc.f]
      BY <1>3, <3>1
    <3> QED BY <3>2 DEF HandsOk, HandTypes, Reclaimed
  <2> QED BY <2>1, <2>2
<1> QED BY <1>2, <1>6, <1>7, <1>8 DEF HandsOk, HandTypes

-----------------------------------------------------------------------------
(* Counting the page tables that name an entry.                            *)

NameCount(pt, e) == Cardinality({m \in Mms : Names(pt, m, e)})

LEMMA MmsCount ==
  ASSUME NEW S, S \subseteq Mms
  PROVE  /\ Cardinality(S) \in Nat /\ (Cardinality(S) = 0 <=> S = {})
         /\ \A m \in Mms \ S : Cardinality(S \cup {m}) = Cardinality(S) + 1
         /\ \A m \in S : Cardinality(S \ {m}) = Cardinality(S) - 1
<1>1. IsFiniteSet(S)
  BY SwapAssumption, FS_Subset
<1> QED BY <1>1, FS_EmptySet, FS_AddElement, FS_RemoveElement, FS_CardinalityType

OneEntry(pt, q, m, p) ==
  q \in [Mms -> PteType] /\ q[m] = p /\ \A n \in Mms : n # m => q[n] = pt[n]

LEMMA NameCounts ==
  ASSUME NEW pt, NEW m \in Mms, NEW p, NEW e, NEW q, OneEntry(pt, q, m, p)
  PROVE  /\ NameCount(pt, e) \in Nat /\ NameCount(q, e) \in Nat
         /\ pt[m] # SwapPte(e) /\ p # SwapPte(e) => NameCount(q, e) = NameCount(pt, e)
         /\ pt[m] # SwapPte(e) /\ p = SwapPte(e) => NameCount(q, e) = NameCount(pt, e) + 1
         /\ pt[m] = SwapPte(e) /\ p # SwapPte(e) =>
              NameCount(q, e) = NameCount(pt, e) - 1 /\ NameCount(pt, e) >= 1
         /\ NameCount(pt, e) = 0 <=> \A n \in Mms : ~Names(pt, n, e)
<1> DEFINE S == {n \in Mms : Names(pt, n, e)}  T == {n \in Mms : Names(q, n, e)}
<1>1. \A n \in Mms : n \in T <=> (IF n = m THEN p = SwapPte(e) ELSE n \in S)
  BY DEF Names, OneEntry
<1>2. m \in S <=> pt[m] = SwapPte(e)
  BY DEF Names
<1>3. S \subseteq Mms /\ T \subseteq Mms
  OBVIOUS
<1>4. NameCount(pt, e) = Cardinality(S) /\ NameCount(q, e) = Cardinality(T)
  BY DEF NameCount
<1>5. NameCount(pt, e) = 0 <=> \A n \in Mms : ~Names(pt, n, e)
  BY <1>3, <1>4, MmsCount
<1> HIDE DEF S, T
<1>6. pt[m] # SwapPte(e) /\ p # SwapPte(e) => T = S
  BY <1>1, <1>2, <1>3
<1>7. pt[m] # SwapPte(e) /\ p = SwapPte(e) => T = S \cup {m} /\ m \in Mms \ S
  BY <1>1, <1>2, <1>3
<1>8. pt[m] = SwapPte(e) /\ p # SwapPte(e) => T = S \ {m} /\ m \in S
  BY <1>1, <1>2, <1>3
<1>9. Cardinality(S) \in Nat /\ Cardinality(T) \in Nat /\ (Cardinality(S) = 0 <=> S = {})
  BY <1>3, MmsCount
<1>10. /\ m \in Mms \ S => Cardinality(S \cup {m}) = Cardinality(S) + 1
       /\ m \in S => Cardinality(S \ {m}) = Cardinality(S) - 1
  BY <1>3, MmsCount
<1>11. m \in S => Cardinality(S) >= 1
  <2>1. m \in S => Cardinality(S) # 0
    BY <1>9
  <2> QED BY <1>9, <2>1
<1> QED BY <1>4, <1>5, <1>6, <1>7, <1>8, <1>9, <1>10, <1>11

LEMMA Counted ==
  ASSUME NEW pt, NEW fr, NEW dk, MapExact(pt, fr, dk)
  PROVE  \A e \in Disk : /\ dk[e].count = NameCount(pt, e)
                         /\ dk[e].count = 0 <=> \A m \in Mms : ~Names(pt, m, e)
                         /\ dk[e].has <=> \E f \in Frames : fr[f].entry = e
<1> SUFFICES ASSUME NEW e \in Disk
             PROVE  /\ dk[e].count = NameCount(pt, e)
                    /\ dk[e].count = 0 <=> \A m \in Mms : ~Names(pt, m, e)
                    /\ dk[e].has <=> \E f \in Frames : fr[f].entry = e
  OBVIOUS
<1> DEFINE S == {m \in Mms : Names(pt, m, e)}
<1>1. Cardinality(S) = 0 <=> S = {}
  <2>1. S \subseteq Mms
    OBVIOUS
  <2> HIDE DEF S
  <2> QED BY <2>1, MmsCount
<1> QED BY <1>1 DEF MapExact, NameCount

-----------------------------------------------------------------------------
(* A page leaves the swap cache and is dirty: nobody names its entry on the  *)
(* disk any more, or COMEX still has the contents.                          *)

LEMMA DecacheKeeps ==
  ASSUME NEW pt, NEW fr, NEW dk, NEW st, NEW wa, NEW ta, NEW sp, NEW f \in Frames,
         PagesOk(pt, fr, dk, st, wa, ta, sp), fr[f].lock \notin Tasks, ~fr[f].wb,
         fr[f].entry # None, fr[f].entry \in Disk => dk[fr[f].entry].count = 0,
         NEW g, g = DeleteFromSwapCache(fr, f),
         NEW d, d = SwapcacheFree(dk, fr[f].entry)
  PROVE  PagesOk(pt, g, d, st, wa, ta, sp)
<1> PICK e : e = fr[f].entry
  OBVIOUS
<1>1. fr \in [Frames -> FrameType] /\ dk \in [Disk -> DiskType] /\ e \in Entries
  BY DEF PagesOk, PageTypes, FrameType
<1>2. /\ g \in [Frames -> FrameType]
      /\ g[f].used = fr[f].used /\ g[f].wb = fr[f].wb /\ g[f].lock = fr[f].lock
      /\ g[f].entry = None /\ g[f].val = fr[f].val
      /\ \A h \in Frames : h # f => g[h] = fr[h]
  BY <1>1 DEF FrameType, DeleteFromSwapCache
<1>3. /\ d \in [Disk -> DiskType]
      /\ \A x \in Disk : d[x].count = dk[x].count /\ (x # e => d[x] = dk[x])
      /\ e \in Disk => d[e].has = FALSE
  BY <1>1 DEF DiskType, SwapcacheFree
<1>4. \A h \in Frames : h # f => fr[h].entry # e
  BY DEF PagesOk, FrameForms
<1>5. fr[f].used
  BY FreeFrames DEF PagesOk, FrameForms
<1>6. PageTypes(pt, g, d, st, wa, ta, sp)
  BY <1>2, <1>3 DEF PagesOk, PageTypes
<1>7. FrameForms(pt, g)
  <2>0. FrameForms(pt, fr) /\ None \notin Tasks
    BY Kinds DEF PagesOk
  <2>1. \A h \in Frames : ~g[h].used => g[h] = FreeFrame
    BY <1>2, <1>5, <2>0 DEF FrameForms
  <2>2. \A h, k \in Frames : g[h].entry # None /\ g[h].entry = g[k].entry => h = k
    BY <1>2, <2>0 DEF FrameForms
  <2>3. \A h \in Frames : g[h].wb => g[h].entry \in Disk
    BY <1>2, <2>0 DEF FrameForms
  <2>4. \A h \in Frames : g[h].lock \in Tasks => g[h].entry # None /\ ~g[h].dirty /\ ~g[h].wb
    BY <1>2, <2>0 DEF FrameForms
  <2>5. /\ \A m \in Mms, h \in Frames : Maps(pt, m, h) => g[h].used /\ g[h].lock \notin Tasks
        /\ \A m \in Mms : pt[m].k = "map" /\ pt[m].w => pt[m].d
    BY <1>2, <2>0 DEF FrameForms
  <2> QED BY <2>1, <2>2, <2>3, <2>4, <2>5 DEF FrameForms
<1>8. MapExact(pt, g, d)
  <2> SUFFICES ASSUME NEW x \in Disk
               PROVE  /\ d[x].count = Cardinality({m \in Mms : Names(pt, m, x)})
                      /\ d[x].has <=> \E h \in Frames : g[h].entry = x
    BY DEF MapExact
  <2>1. x # None
    BY Kinds
  <2>2. d[x].count = Cardinality({m \in Mms : Names(pt, m, x)})
    BY <1>3 DEF PagesOk, MapExact
  <2>3. (\E h \in Frames : g[h].entry = x) <=> x # e /\ \E h \in Frames : fr[h].entry = x
    BY <1>2, <1>4, <2>1
  <2>4. d[x].has <=> x # e /\ dk[x].has
    BY <1>3
  <2>5. dk[x].has <=> \E h \in Frames : fr[h].entry = x
    BY DEF PagesOk, MapExact
  <2> QED BY <2>2, <2>3, <2>4, <2>5
<1>9. OneUser(pt, g, ta)
  BY <1>2, Kinds DEF PagesOk, OneUser, Uses
<1>10. Writers(pt, g, sp)
  BY <1>2, Kinds DEF PagesOk, Writers, Shares
<1>11. MappedRight(pt, g, st, wa, ta, sp)
  BY <1>2, Kinds DEF PagesOk, MappedRight
<1>12. e \in Disk => \A m \in Mms : ~Names(pt, m, e)
  BY Counted DEF PagesOk
<1>13. NamedRight(pt, g, st, wa, ta, sp)
  BY <1>1, <1>2, <1>4, <1>12, Kinds DEF PagesOk, NamedRight
<1> QED BY <1>6, <1>7, <1>8, <1>9, <1>10, <1>11, <1>13 DEF PagesOk

(* Only f may have left the cache.                                         *)
LeftCache(fr, g, f) ==
  /\ \A h \in Frames : h # f => g[h] = fr[h]
  /\ \/ g = fr
     \/ /\ fr[f].entry # None
        /\ g[f] = [fr[f] EXCEPT !.entry = None, !.dirty = TRUE]

LEMMA TryToFreeKeeps ==
  ASSUME NEW pt, NEW fr, NEW dk, NEW st, NEW wa, NEW ta, NEW sp, NEW f \in Frames,
         PagesOk(pt, fr, dk, st, wa, ta, sp), fr[f].lock \notin Tasks,
         NEW r, r = TryToFreeSwap(fr, dk, f)
  PROVE  PagesOk(pt, r.fr, r.dk, st, wa, ta, sp) /\ LeftCache(fr, r.fr, f)
<1>0. fr \in [Frames -> FrameType]
  BY DEF PagesOk, PageTypes
<1>1. CASE ~MayFreeSwap(fr, dk, f)
  BY <1>1 DEF TryToFreeSwap, LeftCache
<1>2. CASE MayFreeSwap(fr, dk, f)
  <2>1. /\ fr[f].entry # None /\ ~fr[f].wb
        /\ fr[f].entry \in Disk => dk[fr[f].entry].count = 0
    BY <1>2 DEF MayFreeSwap
  <2>2. r.fr = DeleteFromSwapCache(fr, f) /\ r.dk = SwapcacheFree(dk, fr[f].entry)
    BY <1>2 DEF TryToFreeSwap
  <2>3. PagesOk(pt, r.fr, r.dk, st, wa, ta, sp)
    BY <2>1, <2>2, DecacheKeeps
  <2>4. /\ \A h \in Frames : h # f => r.fr[h] = fr[h]
        /\ r.fr[f] = [fr[f] EXCEPT !.entry = None, !.dirty = TRUE]
    BY <1>0, <2>2 DEF DeleteFromSwapCache, FrameType
  <2> QED BY <2>1, <2>3, <2>4 DEF LeftCache
<1> QED BY <1>1, <1>2

-----------------------------------------------------------------------------
(* Steps that only pin, lock or let go.                                    *)

LockSame(x, y) == y.lock \in Tasks <=> x.lock \in Tasks
Quiet(x, y) ==
  \/ y = x
  \/ /\ x.used /\ y.used /\ y.val = x.val /\ y.dirty = x.dirty /\ y.wb = x.wb
     /\ y.entry = x.entry /\ LockSame(x, y)

LEMMA QuietKeeps ==
  ASSUME NEW pt, NEW fr, NEW g, NEW dk, NEW st, NEW wa, NEW ta, NEW sp,
         PagesOk(pt, fr, dk, st, wa, ta, sp),
         g \in [Frames -> FrameType], \A f \in Frames : Quiet(fr[f], g[f])
  PROVE  PagesOk(pt, g, dk, st, wa, ta, sp)
<1>1. SeenSame(pt, fr, g)
  BY DEF SeenSame, Quiet, LockSame
<1>2. FrameForms(pt, fr)
  BY DEF PagesOk
<1>3. \A h \in Frames :
         /\ g[h].used <=> fr[h].used
         /\ g[h].dirty = fr[h].dirty /\ g[h].wb = fr[h].wb
         /\ g[h].entry = fr[h].entry /\ LockSame(fr[h], g[h])
         /\ ~fr[h].used => g[h] = fr[h]
  BY DEF Quiet, LockSame
<1>4. FrameForms(pt, g)
  <2>1. \A h \in Frames : ~g[h].used => g[h] = FreeFrame
    BY <1>2, <1>3 DEF FrameForms
  <2>2. \A h, k \in Frames : g[h].entry # None /\ g[h].entry = g[k].entry => h = k
    BY <1>2, <1>3 DEF FrameForms
  <2>3. \A h \in Frames : g[h].wb => g[h].entry \in Disk
    BY <1>2, <1>3 DEF FrameForms
  <2>4. \A h \in Frames : g[h].lock \in Tasks => g[h].entry # None /\ ~g[h].dirty /\ ~g[h].wb
    BY <1>2, <1>3 DEF FrameForms, LockSame
  <2>5. /\ \A m \in Mms, h \in Frames : Maps(pt, m, h) => g[h].used /\ g[h].lock \notin Tasks
        /\ \A m \in Mms : pt[m].k = "map" /\ pt[m].w => pt[m].d
    BY <1>2, <1>3 DEF FrameForms, LockSame
  <2> QED BY <2>1, <2>2, <2>3, <2>4, <2>5 DEF FrameForms
<1> QED BY <1>1, <1>4, SeenSameKeeps

(* Copies that go on stay what they were.                                  *)
CopiesKept(pt2, fr, g, tk, tk2, rc2) ==
  \A t \in Tasks : tk2[t].at = "copied" =>
    /\ tk2[t] = tk[t]
    /\ \A n \in Frames : n = tk2[t].new =>
          /\ g[n].used /\ g[n].val = fr[n].val /\ g[n].entry = None /\ g[n].lock = None
          /\ t \in g[n].pins
          /\ \A m \in Mms : ~Maps(pt2, m, n)
          /\ rc2 = Idle \/ rc2.f # n

LEMMA HandsKeep ==
  ASSUME NEW pt, NEW fr, NEW tk, NEW rc, NEW pt2, NEW g, NEW tk2, NEW rc2,
         HandsOk(pt, fr, tk, rc), HandTypes(tk2, rc2),
         CopiesKept(pt2, fr, g, tk, tk2, rc2), Reclaimed(g, rc2)
  PROVE  HandsOk(pt2, g, tk2, rc2)
<1> SUFFICES ASSUME NEW t \in Tasks, tk2[t].at = "copied", NEW n, n = tk2[t].new
             PROVE  /\ g[n].used /\ t \in g[n].pins /\ g[n].entry = None /\ g[n].lock = None
                    /\ \A m \in Mms : ~Maps(pt2, m, n)
                    /\ tk2[t].orig = ZeroPte => g[n].val = Zero
                    /\ \A u \in Tasks : tk2[u].at = "copied" /\ tk2[u].new = n => u = t
                    /\ rc2 = Idle \/ rc2.f # n
  BY DEF HandsOk, HandTypes, Copies
<1>1. tk2[t] = tk[t] /\ n \in Frames
  BY TaskKinds DEF CopiesKept, HandTypes
<1>2. /\ tk[t].orig = ZeroPte => fr[n].val = Zero
      /\ \A u \in Tasks : tk[u].at = "copied" /\ tk[u].new = n => u = t
  BY <1>1 DEF HandsOk, HandTypes, Copies
<1>3. /\ g[n].used /\ g[n].val = fr[n].val /\ g[n].entry = None /\ g[n].lock = None
      /\ t \in g[n].pins /\ \A m \in Mms : ~Maps(pt2, m, n)
      /\ rc2 = Idle \/ rc2.f # n
  BY <1>1 DEF CopiesKept
<1>4. \A u \in Tasks : tk2[u].at = "copied" => tk2[u] = tk[u]
  BY DEF CopiesKept
<1> QED BY <1>1, <1>2, <1>3, <1>4

(* What a copy is, in the state.                                           *)
LEMMA CopyIs ==
  ASSUME SwapInv, NEW t \in Tasks, task[t].at = "copied", NEW n, n = task[t].new
  PROVE  /\ n \in Frames /\ frame[n].used /\ t \in frame[n].pins
         /\ frame[n].entry = None /\ frame[n].lock = None
         /\ \A m \in Mms : ~Maps(pte, m, n)
         /\ rec = Idle \/ rec.f # n
         /\ task[t].orig = ZeroPte => frame[n].val = Zero
BY TaskKinds DEF SwapInv, HandsOk, HandTypes, Copies

LEMMA FrameFields ==
  /\ \A x \in FrameType, p \in SUBSET Actors :
       LET y == [x EXCEPT !.pins = p] IN
       /\ y \in FrameType /\ y.pins = p /\ y.used = x.used /\ y.val = x.val
       /\ y.dirty = x.dirty /\ y.wb = x.wb /\ y.entry = x.entry /\ y.lock = x.lock
  /\ \A x \in FrameType, k \in Actors \cup {None} :
       LET y == [x EXCEPT !.lock = k] IN
       /\ y \in FrameType /\ y.pins = x.pins /\ y.used = x.used /\ y.val = x.val
       /\ y.dirty = x.dirty /\ y.wb = x.wb /\ y.entry = x.entry /\ y.lock = k
<1>1. ASSUME NEW x \in FrameType, NEW p \in SUBSET Actors
      PROVE  LET y == [x EXCEPT !.pins = p] IN
             /\ y \in FrameType /\ y.pins = p /\ y.used = x.used /\ y.val = x.val
             /\ y.dirty = x.dirty /\ y.wb = x.wb /\ y.entry = x.entry /\ y.lock = x.lock
  BY DEF FrameType
<1>2. ASSUME NEW x \in FrameType, NEW k \in Actors \cup {None}
      PROVE  LET y == [x EXCEPT !.lock = k] IN
             /\ y \in FrameType /\ y.pins = x.pins /\ y.used = x.used /\ y.val = x.val
             /\ y.dirty = x.dirty /\ y.wb = x.wb /\ y.entry = x.entry /\ y.lock = k
  BY DEF FrameType
<1> QED BY <1>1, <1>2

(* A thread pins a page or lets it go.                                     *)
LEMMA PinKeeps ==
  ASSUME SwapInv, NEW t \in Tasks, NEW f \in Frames, NEW p \in SUBSET Actors,
         frame[f].used, NEW g, g = [frame EXCEPT ![f].pins = p],
         NEW x \in TaskType, x.at # "copied", NEW tk, tk = [task EXCEPT ![t] = x],
         \A a \in Actors : a # t /\ a \in frame[f].pins => a \in p
  PROVE  /\ PagesOk(pte, g, disk, store, want, tainted, spoilt)
         /\ HandsOk(pte, g, tk, rec)
<1>1. frame \in [Frames -> FrameType] /\ task \in [Tasks -> TaskType] /\ rec \in RecType
  BY DEF SwapInv, PagesOk, PageTypes, HandsOk, HandTypes
<1>2. /\ g \in [Frames -> FrameType] /\ g[f].pins = p
      /\ \A h \in Frames : h # f => g[h] = frame[h]
      /\ g[f].used = frame[f].used /\ g[f].val = frame[f].val /\ g[f].dirty = frame[f].dirty
      /\ g[f].wb = frame[f].wb /\ g[f].entry = frame[f].entry /\ g[f].lock = frame[f].lock
  <2>1. PICK y : y = [frame[f] EXCEPT !.pins = p]
    OBVIOUS
  <2>2. g = [frame EXCEPT ![f] = y]
    BY <2>1
  <2>3. /\ y \in FrameType /\ y.pins = p /\ y.used = frame[f].used /\ y.val = frame[f].val
        /\ y.dirty = frame[f].dirty /\ y.wb = frame[f].wb /\ y.entry = frame[f].entry
        /\ y.lock = frame[f].lock
    BY <1>1, <2>1 DEF FrameType
  <2> QED BY <1>1, <2>2, <2>3
<1>3. PagesOk(pte, g, disk, store, want, tainted, spoilt)
  <2>1. \A h \in Frames : Quiet(frame[h], g[h])
    BY <1>2 DEF Quiet, LockSame
  <2> QED BY <1>2, <2>1, QuietKeeps DEF SwapInv
<1>4. tk \in [Tasks -> TaskType] /\ tk[t] = x /\ \A u \in Tasks : u # t => tk[u] = task[u]
  BY <1>1
<1>5. CopiesKept(pte, frame, g, task, tk, rec)
  <2> SUFFICES ASSUME NEW u \in Tasks, NEW h \in Frames, tk[u].at = "copied", h = tk[u].new
               PROVE  /\ tk[u] = task[u]
                      /\ g[h].used /\ g[h].val = frame[h].val /\ g[h].entry = None
                      /\ g[h].lock = None /\ u \in g[h].pins
                      /\ \A m \in Mms : ~Maps(pte, m, h)
                      /\ rec = Idle \/ rec.f # h
    BY <1>4, TaskKinds DEF CopiesKept
  <2>1. u # t /\ tk[u] = task[u] /\ u \in Actors
    BY <1>4 DEF Actors
  <2>2. /\ frame[h].used /\ u \in frame[h].pins /\ frame[h].entry = None /\ frame[h].lock = None
        /\ \A m \in Mms : ~Maps(pte, m, h)
        /\ rec = Idle \/ rec.f # h
    BY <2>1, CopyIs
  <2> QED BY <1>2, <2>1, <2>2
<1>6. Reclaimed(g, rec)
  <2>1. Kswapd \in Actors /\ Kswapd # t
    BY Kinds DEF Actors
  <2>2. CASE rec = Idle
    BY <2>2, TaskKinds DEF Reclaimed
  <2>3. CASE rec # Idle
    <3>1. rec.f \in Frames /\ Reclaimed(frame, rec)
      BY <1>1, <2>3, TaskKinds DEF SwapInv, HandsOk, HandTypes
    <3> QED BY <1>2, <2>1, <2>3, <3>1 DEF Reclaimed
  <2> QED BY <2>2, <2>3
<1>7. HandsOk(pte, frame, task, rec)
  BY DEF SwapInv
<1>8. HandsOk(pte, g, tk, rec)
  <2>1. HandTypes(tk, rec)
    BY <1>1, <1>4 DEF HandTypes
  <2> QED BY <1>5, <1>6, <1>7, <2>1, HandsKeep
<1> QED BY <1>3, <1>8

LEMMA TaskKeeps ==
  ASSUME SwapInv, NEW t \in Tasks, NEW x \in TaskType, x.at # "copied",
         NEW tk, tk = [task EXCEPT ![t] = x], x # Idle => line[x.m] # <<>>
  PROVE  HandsOk(pte, frame, tk, rec) /\ FaultsAlive(tk, line) /\ tk \in [Tasks -> TaskType]
<1>1. task \in [Tasks -> TaskType] /\ rec \in RecType
  BY DEF SwapInv, HandsOk, HandTypes
<1>2. tk \in [Tasks -> TaskType] /\ tk[t] = x /\ \A u \in Tasks : u # t => tk[u] = task[u]
  BY <1>1
<1>3. CopiesKept(pte, frame, frame, task, tk, rec)
  <2> SUFFICES ASSUME NEW u \in Tasks, NEW h \in Frames, tk[u].at = "copied", h = tk[u].new
               PROVE  /\ tk[u] = task[u]
                      /\ frame[h].used /\ frame[h].entry = None
                      /\ frame[h].lock = None /\ u \in frame[h].pins
                      /\ \A m \in Mms : ~Maps(pte, m, h)
                      /\ rec = Idle \/ rec.f # h
    BY <1>2, TaskKinds DEF CopiesKept
  <2>1. u # t /\ tk[u] = task[u]
    BY <1>2
  <2> QED BY <2>1, CopyIs
<1>4. HandTypes(tk, rec)
  BY <1>1, <1>2 DEF HandTypes
<1>5. Reclaimed(frame, rec) /\ HandsOk(pte, frame, task, rec)
  BY DEF SwapInv, HandsOk
<1>6. FaultsAlive(tk, line)
  BY <1>2 DEF SwapInv, FaultsAlive
<1> QED BY <1>2, <1>3, <1>4, <1>5, <1>6, HandsKeep

(* A page in the cache is in use.                                          *)
LEMMA CachedUsed ==
  ASSUME SwapInv, NEW f \in Frames, frame[f].entry # None
  PROVE  frame[f].used /\ frame[f].entry \in Entries
<1>1. frame[f] \in FrameType /\ (~frame[f].used => frame[f] = FreeFrame)
  BY DEF SwapInv, PagesOk, PageTypes, FrameForms
<1> QED BY <1>1, FreeFrames DEF FrameType

LEMMA StateTypes ==
  ASSUME SwapInv
  PROVE  /\ pte \in [Mms -> PteType] /\ frame \in [Frames -> FrameType]
         /\ disk \in [Disk -> DiskType] /\ store \in [Entries -> Vals]
         /\ want \in [Mms -> Vals] /\ tainted \subseteq Comex /\ spoilt \subseteq Mms
         /\ task \in [Tasks -> TaskType] /\ rec \in RecType /\ free \subseteq Comex
         /\ \A f \in Frames : frame[f] \in FrameType /\ frame[f].pins \subseteq Actors
         /\ \A m \in Mms : pte[m] \in PteType
         /\ \A m \in Mms : m \in Alive => line[m] # <<>>
BY DEF SwapInv, PagesOk, PageTypes, HandsOk, HandTypes, FrameType, Alive

(* A pin is added for a fault.                                             *)
LEMMA PinForTask ==
  ASSUME SwapInv, NEW t \in Tasks, NEW f \in Frames, frame[f].entry # None,
         frame' = [frame EXCEPT ![f].pins = @ \cup {t}],
         NEW x \in TaskType, x.at # "copied", x # Idle => line[x.m] # <<>>,
         task' = [task EXCEPT ![t] = x],
         UNCHANGED <<pte, swap, rec, line, ghosts>>
  PROVE  SwapInv'
<1> PICK p : p = frame[f].pins \cup {t}
  OBVIOUS
<1>1. /\ p \in SUBSET Actors /\ frame' = [frame EXCEPT ![f].pins = p]
      /\ \A a \in Actors : a # t /\ a \in frame[f].pins => a \in p
      /\ frame[f].used
  BY StateTypes, CachedUsed DEF Actors
<1>2. PICK g, tk : g = frame' /\ tk = task'
  OBVIOUS
<1>3. /\ PagesOk(pte, g, disk, store, want, tainted, spoilt)
      /\ HandsOk(pte, g, tk, rec)
  <2>1. g = [frame EXCEPT ![f].pins = p] /\ tk = [task EXCEPT ![t] = x]
    BY <1>1, <1>2
  <2>2. p \in SUBSET Actors /\ frame[f].used /\ \A a \in Actors : a # t /\ a \in frame[f].pins => a \in p
    BY <1>1
  <2> QED BY <2>1, <2>2, PinKeeps
<1>4. FaultsAlive(tk, line)
  BY <1>2, TaskKeeps
<1> QED BY <1>2, <1>3, <1>4 DEF SwapInv, swap, ghosts

LEMMA TaskMoves ==
  ASSUME SwapInv, NEW t \in Tasks,
         NEW x \in TaskType, x.at # "copied", x # Idle => line[x.m] # <<>>,
         task' = [task EXCEPT ![t] = x],
         UNCHANGED <<pte, frame, swap, rec, line, ghosts>>
  PROVE  SwapInv'
<1>1. PICK tk : tk = task'
  OBVIOUS
<1>2. HandsOk(pte, frame, tk, rec) /\ FaultsAlive(tk, line)
  BY <1>1, TaskKeeps
<1> QED BY <1>1, <1>2 DEF SwapInv, swap, ghosts

LEMMA DoSwapPageKeeps ==
  ASSUME SwapInv, NEW t \in Tasks, NEW m \in Mms, DoSwapPage(t, m)
  PROVE  SwapInv'
<1>1. PICK e : e = pte[m].e /\ pte[m].k = "swap"
  BY DEF DoSwapPage
<1>2. e \in Entries /\ e # None /\ line[m] # <<>> /\ Ahead(e) \subseteq Entries
  BY <1>1, StateTypes, PteKinds, Kinds DEF DoSwapPage, Ahead
<1>3. CASE \E f \in Cached(e) :
             /\ frame' = [frame EXCEPT ![f].pins = @ \cup {t}]
             /\ task' = [task EXCEPT ![t] = [at |-> "lock", m |-> m, e |-> e, f |-> f]]
  <2>1. PICK f \in Frames :
             /\ frame[f].entry = e
             /\ frame' = [frame EXCEPT ![f].pins = @ \cup {t}]
             /\ task' = [task EXCEPT ![t] = [at |-> "lock", m |-> m, e |-> e, f |-> f]]
    BY <1>3 DEF Cached
  <2>2. PICK x : x = [at |-> "lock", m |-> m, e |-> e, f |-> f]
    OBVIOUS
  <2>3. x \in TaskType /\ x.at = "lock" /\ x.m = m
    BY <1>2, <2>2 DEF TaskType
  <2> QED BY <1>2, <2>1, <2>2, <2>3, PinForTask DEF DoSwapPage, swap, ghosts
<1>4. CASE /\ UNCHANGED frame
           /\ task' = [task EXCEPT ![t] = [at |-> "next", m |-> m, e |-> e, todo |-> Ahead(e)]]
  <2>2. PICK x : x = [at |-> "next", m |-> m, e |-> e, todo |-> Ahead(e)]
    OBVIOUS
  <2>3. x \in TaskType /\ x.at = "next" /\ x.m = m
    BY <1>2, <2>2 DEF TaskType
  <2> QED BY <1>2, <1>4, <2>2, <2>3, TaskMoves DEF DoSwapPage, swap, ghosts
<1> QED BY <1>1, <1>3, <1>4 DEF DoSwapPage

(* What a fault in progress knows.                                         *)
LEMMA FaultKnows ==
  ASSUME SwapInv, NEW t \in Tasks, task[t].at # "idle"
  PROVE  /\ task[t] \in TaskType /\ task[t].m \in Mms /\ line[task[t].m] # <<>>
         /\ task[t].at # "copied" => task[t].e \in Entries
         /\ task[t].at = "lock" => task[t].f \in Frames
         /\ task[t].at = "next" => task[t].todo \subseteq Entries
         /\ task[t].at \in {"alloc", "fill"} =>
              task[t].x \in Entries /\ task[t].todo \subseteq Entries /\ task[t].last \in BOOLEAN
<1>1. task[t] \in TaskType /\ task[t] # Idle
  BY StateTypes, TaskKinds
<1> QED BY <1>1, TaskKinds DEF SwapInv, FaultsAlive

LEMMA FindInCacheKeeps ==
  ASSUME SwapInv, NEW t \in Tasks, FindInCache(t)
  PROVE  SwapInv'
<1> PICK a : a = task[t]
  OBVIOUS
<1>1. a.at = "next" /\ a.m \in Mms /\ a.e \in Entries /\ a.todo \subseteq Entries /\ line[a.m] # <<>>
  BY FaultKnows DEF FindInCache
<1>2. PICK x \in Entries :
          LET last == task[t].todo = {}
              todo == task[t].todo \ {x}
          IN  \/ /\ Cached(x) # {} /\ ~last
                 /\ task' = [task EXCEPT ![t].todo = todo] /\ UNCHANGED frame
              \/ /\ Cached(x) # {} /\ last
                 /\ \E f \in Cached(x) :
                       /\ frame' = [frame EXCEPT ![f].pins = @ \cup {t}]
                       /\ task' = [task EXCEPT ![t] =
                              [at |-> "lock", m |-> @.m, e |-> x, f |-> f]]
              \/ /\ Cached(x) = {} /\ UNCHANGED frame
                 /\ task' = [task EXCEPT ![t] = Going(t, "alloc", x, todo, last)]
  BY DEF FindInCache
<1>3. x # None /\ task \in [Tasks -> TaskType]
  BY Kinds, StateTypes
<1>7. UNCHANGED <<pte, swap, rec, line, ghosts>>
  BY DEF FindInCache
<1>4. CASE task' = [task EXCEPT ![t].todo = task[t].todo \ {x}] /\ UNCHANGED frame
  <2>1. PICK y : y = [a EXCEPT !.todo = a.todo \ {x}]
    OBVIOUS
  <2>2. a \in [at : {"next"}, m : Mms, e : Entries, todo : SUBSET Entries]
    <3>1. a \in TaskType
      BY <1>3
    <3> QED BY <1>1, <3>1, TaskKinds DEF TaskType, Idle
  <2>3. y \in TaskType /\ y.at = "next" /\ y.m = a.m
    BY <2>1, <2>2 DEF TaskType
  <2>4. task' = [task EXCEPT ![t] = y]
    BY <1>3, <1>4, <2>1
  <2> QED BY <1>1, <1>4, <2>3, <1>7, <2>4, TaskMoves
<1>5. CASE \E f \in Cached(x) :
              /\ frame' = [frame EXCEPT ![f].pins = @ \cup {t}]
              /\ task' = [task EXCEPT ![t] = [at |-> "lock", m |-> @.m, e |-> x, f |-> f]]
  <2>1. PICK f \in Frames :
              /\ frame[f].entry = x
              /\ frame' = [frame EXCEPT ![f].pins = @ \cup {t}]
              /\ task' = [task EXCEPT ![t] = [at |-> "lock", m |-> @.m, e |-> x, f |-> f]]
    BY <1>5 DEF Cached
  <2>2. PICK y : y = [at |-> "lock", m |-> a.m, e |-> x, f |-> f]
    OBVIOUS
  <2>3. y \in TaskType /\ y.at = "lock" /\ y.m = a.m
    BY <1>1, <2>2 DEF TaskType
  <2>4. task' = [task EXCEPT ![t] = y]
    BY <1>3, <2>1, <2>2
  <2>5. y.at # "copied" /\ (y # Idle => line[y.m] # <<>>) /\ frame[f].entry # None
    BY <1>1, <1>3, <2>1, <2>3
  <2>6. frame' = [frame EXCEPT ![f].pins = @ \cup {t}]
    BY <2>1
  <2> QED BY <1>7, <2>3, <2>4, <2>5, <2>6, PinForTask
<1>6. CASE /\ UNCHANGED frame
           /\ task' = [task EXCEPT ![t] =
                         Going(t, "alloc", x, task[t].todo \ {x}, task[t].todo = {})]
  <2>1. PICK y : y = Going(t, "alloc", x, task[t].todo \ {x}, task[t].todo = {})
    OBVIOUS
  <2>2. y = [at |-> "alloc", m |-> a.m, e |-> a.e, x |-> x,
             todo |-> a.todo \ {x}, last |-> (a.todo = {})]
    BY <2>1 DEF Going
  <2>3. y \in TaskType /\ y.at = "alloc" /\ y.m = a.m
    BY <1>1, <2>2 DEF TaskType
  <2> QED BY <1>1, <1>6, <2>1, <1>7, <2>3, TaskMoves
<1> QED BY <1>2, <1>4, <1>5, <1>6

LEMMA ReadFailsKeeps ==
  ASSUME SwapInv, NEW t \in Tasks, ReadFails(t) \/ ReadAgain(t)
  PROVE  SwapInv'
<1> PICK a : a = task[t]
  OBVIOUS
<1>1. /\ a.at = "alloc" /\ a.m \in Mms /\ a.e \in Entries /\ a.todo \subseteq Entries
      /\ line[a.m] # <<>> /\ a.x \in Entries /\ a \in TaskType /\ task \in [Tasks -> TaskType]
  BY FaultKnows, TaskKinds, StateTypes DEF ReadFails, ReadAgain
<1>2. UNCHANGED <<pte, frame, swap, rec, line, ghosts>>
  BY DEF ReadFails, ReadAgain, mem
<1>3. \E y \in TaskType : /\ task' = [task EXCEPT ![t] = y]
                          /\ y.at # "copied" /\ (y # Idle => y.m = a.m)
  <2> DEFINE n == [at |-> "next", m |-> a.m, e |-> a.e, todo |-> a.todo]
             k == [at |-> "next", m |-> a.m, e |-> a.e,
                   todo |-> IF a.last THEN {} ELSE a.todo \cup {a.x}]
  <2>1. n \in TaskType /\ k \in TaskType /\ Idle \in TaskType
    BY <1>1 DEF TaskType
  <2>2. n.at # "copied" /\ n.m = a.m /\ k.at # "copied" /\ k.m = a.m /\ Idle.at # "copied"
    BY TaskKinds
  <2>3. CASE ReadFails(t)
    <3>1. task' = [task EXCEPT ![t] = IF a.last THEN Idle ELSE n]
      BY <1>1, <2>3 DEF ReadFails
    <3> HIDE DEF n, k
    <3> QED BY <2>1, <2>2, <3>1
  <2>4. CASE ReadAgain(t)
    <3>1. task' = [task EXCEPT ![t] = k]
      BY <1>1, <2>4 DEF ReadAgain
    <3> HIDE DEF n, k
    <3> QED BY <2>1, <2>2, <3>1
  <2> QED BY <2>3, <2>4
<1>4. PICK y \in TaskType : /\ task' = [task EXCEPT ![t] = y]
                            /\ y.at # "copied" /\ (y # Idle => y.m = a.m)
  BY <1>3
<1>5. y # Idle => line[y.m] # <<>>
  BY <1>1, <1>4
<1> QED BY <1>2, <1>4, <1>5, TaskMoves

(* A fault ends without having changed anything: the page is let go.       *)
LEMMA LetGo ==
  ASSUME SwapInv, NEW t \in Tasks, NEW f \in Frames, frame[f].used,
         frame' = Released(Unpin(frame, f, t), pte),
         task' = [task EXCEPT ![t] = Idle], UNCHANGED <<pte, swap, rec, line, ghosts>>
  PROVE  SwapInv'
<1>1. PICK p \in SUBSET Actors : p = frame[f].pins \ {t}
  BY StateTypes
<1>2. PICK g : g = [frame EXCEPT ![f].pins = p]
  OBVIOUS
<1>3. PICK i \in TaskType : i = Idle
  BY DEF TaskType
<1>4. PICK tk : tk = [task EXCEPT ![t] = i]
  OBVIOUS
<1>5. \A a \in Actors : a # t /\ a \in frame[f].pins => a \in p
  BY <1>1
<1>6. i.at # "copied" /\ (i # Idle => line[i.m] # <<>>)
  BY <1>3, TaskKinds
<1>7. /\ PagesOk(pte, g, disk, store, want, tainted, spoilt)
      /\ HandsOk(pte, g, tk, rec)
  BY <1>2, <1>4, <1>5, <1>6, PinKeeps
<1>8. FaultsAlive(tk, line)
  BY <1>4, <1>6, TaskKeeps
<1>9. g = Unpin(frame, f, t)
  BY <1>1, <1>2 DEF Unpin
<1>10. /\ PagesOk(pte, Released(g, pte), disk, store, want, tainted, spoilt)
       /\ HandsOk(pte, Released(g, pte), tk, rec)
  BY <1>7, ReleaseKeeps
<1>11. frame' = Released(g, pte) /\ task' = tk
  BY <1>3, <1>4, <1>9
<1> QED BY <1>8, <1>10, <1>11 DEF SwapInv, swap, ghosts

LEMMA LockRetryKeeps ==
  ASSUME SwapInv, NEW t \in Tasks, LockRetry(t)
  PROVE  SwapInv'
<1>1. task[t].f \in Frames
  BY FaultKnows DEF LockRetry
<1>2. frame[task[t].f].used
  BY <1>1, FreeFrames DEF LockRetry, SwapInv, PagesOk, FrameForms
<1>3. /\ frame' = Released(Unpin(frame, task[t].f, t), pte)
      /\ task' = [task EXCEPT ![t] = Idle] /\ UNCHANGED <<pte, swap, rec, line, ghosts>>
  BY DEF LockRetry
<1> QED BY <1>1, <1>2, <1>3, LetGo

-----------------------------------------------------------------------------
(* Fresh frames.                                                           *)

(* A frame that is not in use is mapped by nobody, nobody's copy and not    *)
(* the reclaimer's.                                                        *)
LEMMA Fresh ==
  ASSUME SwapInv, NEW f \in Frames, FreshFrame(f)
  PROVE  /\ frame[f] = FreeFrame /\ \A m \in Mms : ~Maps(pte, m, f)
         /\ \A t \in Tasks : task[t].at = "copied" => task[t].new # f
         /\ rec = Idle \/ rec.f # f
<1>1. ~frame[f].used
  BY DEF FreshFrame
<1>2. frame[f] = FreeFrame /\ \A m \in Mms : ~Maps(pte, m, f)
  BY <1>1 DEF SwapInv, PagesOk, FrameForms
<1>3. \A t \in Tasks : task[t].at = "copied" => task[t].new # f
  BY <1>1, CopyIs
<1>4. rec = Idle \/ rec.f # f
  BY <1>2, FreeFrames DEF SwapInv, HandsOk, Reclaimed
<1> QED BY <1>2, <1>3, <1>4

LEMMA NewFrames ==
  ASSUME NEW a \in Actors, NEW m \in Mms \cup {None}, NEW v \in Vals
  PROVE  /\ NewFrame(a, m, v) \in FrameType
         /\ NewFrame(a, m, v).used /\ NewFrame(a, m, v).val = v /\ ~NewFrame(a, m, v).dirty
         /\ ~NewFrame(a, m, v).wb /\ NewFrame(a, m, v).entry = None
         /\ NewFrame(a, m, v).lock = None /\ NewFrame(a, m, v).pins = {a}
BY DEF NewFrame, FreeFrame, FrameType

LEMMA FrameSet ==
  ASSUME NEW fr \in [Frames -> FrameType], NEW f \in Frames, NEW y \in FrameType,
         NEW g, g = [fr EXCEPT ![f] = y]
  PROVE  g \in [Frames -> FrameType] /\ g[f] = y /\ \A h \in Frames : h # f => g[h] = fr[h]
OBVIOUS

(* What is seen of the frames does not change when one that is out of sight *)
(* does.                                                                    *)
LEMMA UnseenKeeps ==
  ASSUME NEW pt, NEW fr, NEW g, NEW dk, NEW st, NEW wa, NEW ta, NEW sp, NEW f \in Frames,
         PagesOk(pt, fr, dk, st, wa, ta, sp), g \in [Frames -> FrameType],
         fr[f].entry = None, \A m \in Mms : ~Maps(pt, m, f),
         g[f].used, g[f].entry = None, ~g[f].wb, g[f].lock \notin Tasks,
         \A h \in Frames : h # f => g[h] = fr[h]
  PROVE  PagesOk(pt, g, dk, st, wa, ta, sp)
<1>1. SeenSame(pt, fr, g)
  BY DEF SeenSame
<1>2. FrameForms(pt, fr)
  BY DEF PagesOk
<1>3. FrameForms(pt, g)
  <2>1. \A h \in Frames : ~g[h].used => g[h] = FreeFrame
    BY <1>2 DEF FrameForms
  <2>2. \A h, k \in Frames : g[h].entry # None /\ g[h].entry = g[k].entry => h = k
    BY <1>2 DEF FrameForms
  <2>3. \A h \in Frames : g[h].wb => g[h].entry \in Disk
    BY <1>2 DEF FrameForms
  <2>4. \A h \in Frames : g[h].lock \in Tasks => g[h].entry # None /\ ~g[h].dirty /\ ~g[h].wb
    BY <1>2 DEF FrameForms
  <2>5. /\ \A m \in Mms, h \in Frames : Maps(pt, m, h) => g[h].used /\ g[h].lock \notin Tasks
        /\ \A m \in Mms : pt[m].k = "map" /\ pt[m].w => pt[m].d
    BY <1>2 DEF FrameForms
  <2> QED BY <2>1, <2>2, <2>3, <2>4, <2>5 DEF FrameForms
<1> QED BY <1>1, <1>3, SeenSameKeeps

(* The hands of a state whose pages change: what copies and the reclaimer   *)
(* hold is not touched.                                                    *)
LEMMA HandsUntouched ==
  ASSUME SwapInv, NEW pt2, NEW g, NEW tk, HandTypes(tk, rec),
         \A t \in Tasks : tk[t].at = "copied" => tk[t] = task[t],
         \A t \in Tasks : task[t].at = "copied" => g[task[t].new] = frame[task[t].new],
         \A t \in Tasks, m \in Mms : task[t].at = "copied" => ~Maps(pt2, m, task[t].new),
         Reclaimed(g, rec)
  PROVE  HandsOk(pt2, g, tk, rec)
<1>1. CopiesKept(pt2, frame, g, task, tk, rec)
  <2> SUFFICES ASSUME NEW u \in Tasks, NEW h \in Frames, tk[u].at = "copied", h = tk[u].new
               PROVE  /\ tk[u] = task[u]
                      /\ g[h].used /\ g[h].val = frame[h].val /\ g[h].entry = None
                      /\ g[h].lock = None /\ u \in g[h].pins
                      /\ \A m \in Mms : ~Maps(pt2, m, h)
                      /\ rec = Idle \/ rec.f # h
    BY TaskKinds DEF CopiesKept, HandTypes
  <2>1. tk[u] = task[u] /\ g[h] = frame[h] /\ \A m \in Mms : ~Maps(pt2, m, h)
    OBVIOUS
  <2> QED BY <2>1, CopyIs
<1> QED BY <1>1, HandsKeep DEF SwapInv

LEMMA ReclaimedUntouched ==
  ASSUME SwapInv, NEW g, rec = Idle \/ g[rec.f] = frame[rec.f]
  PROVE  Reclaimed(g, rec)
BY TaskKinds DEF SwapInv, HandsOk, Reclaimed

LEMMA WpCopyKeeps ==
  ASSUME SwapInv, NEW t \in Tasks, NEW m \in Mms, NEW new \in Frames, WpCopy(t, m, new)
  PROVE  SwapInv'
<1>1. /\ task[t] = Idle /\ line[m] # <<>> /\ FreshFrame(new)
      /\ task' = [task EXCEPT ![t] = [at |-> "copied", m |-> m, orig |-> pte[m], new |-> new]]
      /\ UNCHANGED <<pte, swap, rec, line, ghosts>>
  BY StateTypes DEF WpCopy
<1>2. PICK x : x = [at |-> "copied", m |-> m, orig |-> pte[m], new |-> new]
  OBVIOUS
<1>3. x \in TaskType /\ x.at = "copied" /\ x.m = m /\ x.new = new /\ x.orig = pte[m]
  <2>1. pte[m] \in {ZeroPte} \cup MapPtes
    BY StateTypes, PteKinds DEF WpCopy
  <2> QED BY <1>2, <2>1 DEF TaskType
<1>4. PICK tk : tk = [task EXCEPT ![t] = x]
  OBVIOUS
<1>5. tk \in [Tasks -> TaskType] /\ tk[t] = x /\ \A u \in Tasks : u # t => tk[u] = task[u]
  BY <1>3, <1>4, StateTypes
<1>6. /\ frame[new] = FreeFrame /\ \A n \in Mms : ~Maps(pte, n, new)
      /\ \A u \in Tasks : task[u].at = "copied" => task[u].new # new
      /\ rec = Idle \/ rec.f # new
  BY <1>1, Fresh
<1>7. /\ \A e \in {Zero} : e \in Vals
      /\ \A f \in Frames : frame[f].val \in Vals
      /\ t \in Actors
  BY StateTypes DEF Vals, Actors, FrameType
<1>8. \E v \in Vals, fr \in [Frames -> FrameType] :
        /\ frame' = [fr EXCEPT ![new] = NewFrame(t, m, v)]
        /\ fr[new] = frame[new] /\ (pte[m] = ZeroPte => v = Zero)
        /\ \/ fr = frame
           \/ \E f \in Frames : /\ f # new /\ frame[f].used
                                /\ fr = [frame EXCEPT ![f].pins = @ \cup {t}]
  <2>1. CASE pte[m] = ZeroPte /\ frame' = [frame EXCEPT ![new] = NewFrame(t, m, Zero)]
    BY <1>7, <2>1, StateTypes
  <2>2. CASE /\ pte[m].k = "map"
             /\ LET f == pte[m].f IN
                frame' = [frame EXCEPT ![new] = NewFrame(t, m, frame[f].val),
                                       ![f].pins = @ \cup {t}]
    <3>1. PICK f \in Frames : f = pte[m].f
      BY <2>2, StateTypes, PteKinds DEF MapPtes
    <3>2. Maps(pte, m, f)
      BY <2>2, <3>1 DEF Maps
    <3>3. f # new /\ frame[f].used
      BY <1>6, <3>2 DEF SwapInv, PagesOk, FrameForms
    <3>4. PICK v \in Vals : v = frame[f].val
      BY <1>7
    <3>5. PICK y : y = NewFrame(t, m, v)
      OBVIOUS
    <3>6. PICK p \in SUBSET Actors : p = frame[f].pins \cup {t}
      BY <1>7, StateTypes
    <3>7. PICK z \in FrameType : z = [frame[f] EXCEPT !.pins = p]
      BY StateTypes, FrameFields
    <3>8. PICK fr : fr = [frame EXCEPT ![f] = z]
      OBVIOUS
    <3>9. fr \in [Frames -> FrameType] /\ fr[new] = frame[new]
      BY <3>3, <3>7, <3>8, StateTypes
    <3>10. fr = [frame EXCEPT ![f].pins = @ \cup {t}]
      BY <3>6, <3>7, <3>8
    <3>11. frame' = [fr EXCEPT ![new] = NewFrame(t, m, v)]
      <4>1. frame' = [frame EXCEPT ![new] = NewFrame(t, m, v), ![f].pins = p]
        BY <2>2, <3>1, <3>3, <3>4, <3>6, StateTypes
      <4>2. \A h \in Frames : frame'[h] = IF h = f THEN z ELSE IF h = new THEN y ELSE frame[h]
        BY <3>3, <3>5, <3>7, <4>1, StateTypes
      <4>3. frame' = [h \in Frames |-> IF h = f THEN z ELSE IF h = new THEN y ELSE frame[h]]
        BY <3>3, <3>5, <3>7, <4>1, StateTypes
      <4> QED BY <3>3, <3>5, <3>8, <3>9, <4>3, StateTypes
    <3>12. pte[m] # ZeroPte
      BY <2>2, PteKinds
    <3> QED BY <3>3, <3>9, <3>10, <3>11, <3>12
  <2> QED BY <2>1, <2>2 DEF WpCopy
<1>9. PICK v \in Vals, fr \in [Frames -> FrameType] :
        /\ frame' = [fr EXCEPT ![new] = NewFrame(t, m, v)]
        /\ fr[new] = frame[new] /\ (pte[m] = ZeroPte => v = Zero)
        /\ \/ fr = frame
           \/ \E f \in Frames : /\ f # new /\ frame[f].used
                                /\ fr = [frame EXCEPT ![f].pins = @ \cup {t}]
  BY <1>8
<1>10. PICK g : g = [fr EXCEPT ![new] = NewFrame(t, m, v)]
  OBVIOUS
<1>11. PICK y : y = NewFrame(t, m, v)
  OBVIOUS
<1>12. /\ y \in FrameType /\ y.used /\ y.val = v /\ ~y.wb /\ y.entry = None /\ y.lock = None
       /\ t \in y.pins
  BY <1>7, <1>11, NewFrames
<1>13. g \in [Frames -> FrameType] /\ g[new] = y /\ \A h \in Frames : h # new => g[h] = fr[h]
  BY <1>10, <1>11, <1>12
<1>14. \A h \in Frames :
         /\ Quiet(frame[h], fr[h]) /\ frame[h].pins \subseteq fr[h].pins
         /\ fr[h].lock = frame[h].lock /\ fr[h].val = frame[h].val
         /\ fr[h].entry = frame[h].entry /\ fr[h].wb = frame[h].wb
         /\ frame[h].used => fr[h].used
  <2>1. CASE fr = frame
    BY <2>1 DEF Quiet
  <2>2. CASE \E f \in Frames : /\ f # new /\ frame[f].used
                               /\ fr = [frame EXCEPT ![f].pins = @ \cup {t}]
    <3>1. PICK f \in Frames : frame[f].used /\ fr = [frame EXCEPT ![f].pins = @ \cup {t}]
      BY <2>2
    <3>2. PICK p \in SUBSET Actors : p = frame[f].pins \cup {t}
      BY <1>7, StateTypes
    <3>3. PICK z : z = [frame[f] EXCEPT !.pins = p]
      OBVIOUS
    <3>4. /\ z.pins = p /\ z.used = frame[f].used /\ z.val = frame[f].val
          /\ z.dirty = frame[f].dirty /\ z.wb = frame[f].wb /\ z.entry = frame[f].entry
          /\ z.lock = frame[f].lock
      BY <3>3, StateTypes DEF FrameType
    <3>5. fr[f] = z /\ \A h \in Frames : h # f => fr[h] = frame[h]
      BY <3>1, <3>2, <3>3, StateTypes
    <3> QED BY <3>1, <3>2, <3>4, <3>5 DEF Quiet, LockSame
  <2> QED BY <1>9, <2>1, <2>2
<1>15. PagesOk(pte, fr, disk, store, want, tainted, spoilt)
  BY <1>9, <1>14, QuietKeeps DEF SwapInv
<1>16. PagesOk(pte, g, disk, store, want, tainted, spoilt)
  <2>1. fr[new].entry = None /\ y.lock \notin Tasks
    BY <1>6, <1>9, <1>12, FreeFrames, Kinds
  <2> QED BY <1>6, <1>12, <1>13, <1>15, <2>1, UnseenKeeps
<1>17. Copies(pte, g, tk, rec)
  <2> SUFFICES ASSUME NEW u \in Tasks, tk[u].at = "copied", NEW n, n = tk[u].new
               PROVE  /\ g[n].used /\ u \in g[n].pins /\ g[n].entry = None /\ g[n].lock = None
                      /\ \A k \in Mms : ~Maps(pte, k, n)
                      /\ tk[u].orig = ZeroPte => g[n].val = Zero
                      /\ \A w \in Tasks : tk[w].at = "copied" /\ tk[w].new = n => w = u
                      /\ rec = Idle \/ rec.f # n
    BY DEF Copies
  <2>1. CASE u = t
    <3>1. n = new /\ g[n] = y
      BY <1>3, <1>5, <1>13, <2>1
    <3>2. \A w \in Tasks : tk[w].at = "copied" /\ tk[w].new = n => w = u
      BY <1>5, <1>6, <2>1, <3>1
    <3>3. tk[u].orig = ZeroPte => g[n].val = Zero
      BY <1>3, <1>5, <1>9, <1>12, <2>1, <3>1
    <3> QED BY <1>6, <1>12, <2>1, <3>1, <3>2, <3>3
  <2>2. CASE u # t
    <3>1. tk[u] = task[u] /\ n # new
      BY <1>5, <1>6, <2>2
    <3>2. /\ n \in Frames /\ frame[n].used /\ u \in frame[n].pins
          /\ frame[n].entry = None /\ frame[n].lock = None
          /\ \A k \in Mms : ~Maps(pte, k, n)
          /\ rec = Idle \/ rec.f # n
          /\ task[u].orig = ZeroPte => frame[n].val = Zero
      BY <3>1, CopyIs
    <3>3. \A w \in Tasks : task[w].at = "copied" /\ task[w].new = n => w = u
      BY <3>1 DEF SwapInv, HandsOk, Copies
    <3>4. \A w \in Tasks : tk[w].at = "copied" /\ tk[w].new = n => w = u
      BY <1>3, <1>5, <3>1, <3>3
    <3> QED BY <1>13, <1>14, <3>1, <3>2, <3>4
  <2> QED BY <2>1, <2>2
<1>18. Reclaimed(g, rec)
  <2>1. CASE rec = Idle
    BY <2>1, TaskKinds DEF Reclaimed
  <2>2. CASE rec # Idle
    <3>1. rec.f \in Frames /\ Reclaimed(frame, rec) /\ rec.f # new
      BY <1>6, <2>2, TaskKinds, StateTypes DEF SwapInv, HandsOk
    <3>2. g[rec.f] = fr[rec.f]
      BY <1>13, <3>1
    <3> QED BY <1>14, <2>2, <3>1, <3>2 DEF Reclaimed
  <2> QED BY <2>1, <2>2
<1>19. HandsOk(pte, g, tk, rec)
  BY <1>5, <1>17, <1>18, StateTypes DEF HandsOk, HandTypes
<1>20. FaultsAlive(tk, line)
  BY <1>1, <1>3, <1>5 DEF SwapInv, FaultsAlive
<1>21. frame' = g /\ task' = tk
  BY <1>1, <1>2, <1>4, <1>9, <1>10
<1> QED BY <1>1, <1>16, <1>19, <1>20, <1>21 DEF SwapInv, swap, ghosts

-----------------------------------------------------------------------------
(* The read of an entry into the swap cache.                               *)

LEMMA GhostsGrow ==
  ASSUME NEW pt, NEW fr, NEW dk, NEW st, NEW wa, NEW ta, NEW sp, NEW tb, NEW sq,
         PagesOk(pt, fr, dk, st, wa, ta, sp),
         ta \subseteq tb, tb \subseteq Comex, sp \subseteq sq, sq \subseteq Mms
  PROVE  PagesOk(pt, fr, dk, st, wa, tb, sq)
<1>1. PageTypes(pt, fr, dk, st, wa, tb, sq)
  BY DEF PagesOk, PageTypes
<1>2. OneUser(pt, fr, tb)
  BY DEF PagesOk, OneUser
<1>3. Writers(pt, fr, sq)
  BY DEF PagesOk, Writers
<1>4. MappedRight(pt, fr, st, wa, tb, sq)
  BY DEF PagesOk, MappedRight
<1>5. NamedRight(pt, fr, st, wa, tb, sq)
  BY DEF PagesOk, NamedRight
<1> QED BY <1>1, <1>2, <1>3, <1>4, <1>5 DEF PagesOk

(* A fresh frame becomes the page of an entry that had none, to be filled.  *)
LEMMA CacheAdd ==
  ASSUME NEW pt, NEW fr, NEW dk, NEW st, NEW wa, NEW ta, NEW sp,
         NEW f \in Frames, NEW x \in Entries, NEW y \in FrameType,
         PagesOk(pt, fr, dk, st, wa, ta, sp),
         fr[f].entry = None, \A m \in Mms : ~Maps(pt, m, f),
         \A h \in Frames : fr[h].entry # x,
         y.used, y.entry = x, ~y.wb, ~y.dirty, y.lock \in Tasks,
         NEW g, g = [fr EXCEPT ![f] = y],
         NEW d, d = IF x \in Disk THEN [dk EXCEPT ![x].has = TRUE] ELSE dk
  PROVE  PagesOk(pt, g, d, st, wa, ta, sp)
<1>1. fr \in [Frames -> FrameType] /\ dk \in [Disk -> DiskType] /\ FrameForms(pt, fr)
  BY DEF PagesOk, PageTypes
<1>2. g \in [Frames -> FrameType] /\ g[f] = y /\ \A h \in Frames : h # f => g[h] = fr[h]
  BY <1>1
<1>3. /\ d \in [Disk -> DiskType]
      /\ \A e \in Disk : d[e].count = dk[e].count /\ (e # x => d[e] = dk[e])
      /\ x \in Disk => d[x].has = TRUE
  BY <1>1 DEF DiskType
<1>4. PageTypes(pt, g, d, st, wa, ta, sp)
  BY <1>2, <1>3 DEF PagesOk, PageTypes
<1>5. FrameForms(pt, g)
  <2>1. \A h \in Frames : ~g[h].used => g[h] = FreeFrame
    BY <1>1, <1>2 DEF FrameForms
  <2>2. \A h, k \in Frames : g[h].entry # None /\ g[h].entry = g[k].entry => h = k
    BY <1>1, <1>2 DEF FrameForms
  <2>3. \A h \in Frames : g[h].wb => g[h].entry \in Disk
    BY <1>1, <1>2 DEF FrameForms
  <2>4. \A h \in Frames : g[h].lock \in Tasks => g[h].entry # None /\ ~g[h].dirty /\ ~g[h].wb
    BY <1>1, <1>2, Kinds DEF FrameForms
  <2>5. /\ \A m \in Mms, h \in Frames : Maps(pt, m, h) => g[h].used /\ g[h].lock \notin Tasks
        /\ \A m \in Mms : pt[m].k = "map" /\ pt[m].w => pt[m].d
    BY <1>1, <1>2 DEF FrameForms
  <2> QED BY <2>1, <2>2, <2>3, <2>4, <2>5 DEF FrameForms
<1>6. MapExact(pt, g, d)
  <2> SUFFICES ASSUME NEW e \in Disk
               PROVE  /\ d[e].count = Cardinality({m \in Mms : Names(pt, m, e)})
                      /\ d[e].has <=> \E h \in Frames : g[h].entry = e
    BY DEF MapExact
  <2>1. e # None
    BY Kinds
  <2>2. d[e].count = Cardinality({m \in Mms : Names(pt, m, e)})
    BY <1>3 DEF PagesOk, MapExact
  <2>3. (\E h \in Frames : g[h].entry = e) <=> e = x \/ \E h \in Frames : fr[h].entry = e
    BY <1>2, <2>1
  <2>4. d[e].has <=> e = x \/ dk[e].has
    BY <1>3
  <2>5. dk[e].has <=> \E h \in Frames : fr[h].entry = e
    BY DEF PagesOk, MapExact
  <2> QED BY <2>2, <2>3, <2>4, <2>5
<1>7. OneUser(pt, g, ta)
  BY <1>2 DEF PagesOk, OneUser, Uses
<1>8. Writers(pt, g, sp)
  BY <1>2 DEF PagesOk, Writers, Shares
<1>9. MappedRight(pt, g, st, wa, ta, sp)
  BY <1>2 DEF PagesOk, MappedRight
<1>10. NamedRight(pt, g, st, wa, ta, sp)
  BY <1>2, Kinds DEF PagesOk, NamedRight
<1> QED BY <1>4, <1>5, <1>6, <1>7, <1>8, <1>9, <1>10 DEF PagesOk

LEMMA AddForReadKeeps ==
  ASSUME SwapInv, NEW t \in Tasks, NEW f \in Frames, AddForRead(t, f)
  PROVE  SwapInv'
<1>1. PICK a : a = task[t]
  OBVIOUS
<1>2. /\ a.at = "alloc" /\ a.m \in Mms /\ a.e \in Entries /\ a.todo \subseteq Entries
      /\ line[a.m] # <<>> /\ a.x \in Entries /\ a \in TaskType /\ a.last \in BOOLEAN
  BY <1>1, FaultKnows, TaskKinds, StateTypes DEF AddForRead
<1>3. PICK x \in Entries : x = a.x
  BY <1>2
<1>4. /\ FreshFrame(f) /\ Cached(x) = {}
      /\ frame' = [frame EXCEPT ![f] = [NewFrame(t, None, Zero) EXCEPT !.entry = x, !.lock = t]]
      /\ disk' = IF x \in Disk THEN [disk EXCEPT ![x].has = TRUE] ELSE disk
      /\ tainted' = tainted \cup ({x} \cap free)
      /\ task' = [task EXCEPT ![t].at = "fill"]
      /\ UNCHANGED <<pte, store, free, rec, line, want, spoilt, ops>>
  BY <1>1, <1>3 DEF AddForRead
<1>5. PICK y : y = [NewFrame(t, None, Zero) EXCEPT !.entry = x, !.lock = t]
  OBVIOUS
<1>6. /\ y \in FrameType /\ y.used /\ y.entry = x /\ ~y.wb /\ ~y.dirty /\ y.lock = t
  <2>1. t \in Actors /\ Zero \in Vals /\ x \in Entries
    BY DEF Actors, Vals
  <2> QED BY <1>5, <2>1 DEF NewFrame, FreeFrame, FrameType
<1>7. /\ frame[f] = FreeFrame /\ \A n \in Mms : ~Maps(pte, n, f)
      /\ \A u \in Tasks : task[u].at = "copied" => task[u].new # f
      /\ rec = Idle \/ rec.f # f
  BY <1>4, Fresh
<1>8. PICK g, d : g = frame' /\ d = disk'
  OBVIOUS
<1>9. PagesOk(pte, g, d, store, want, tainted, spoilt)
  <2>1. g = [frame EXCEPT ![f] = y]
    BY <1>4, <1>5, <1>8
  <2>2. d = IF x \in Disk THEN [disk EXCEPT ![x].has = TRUE] ELSE disk
    BY <1>4, <1>8
  <2>3. frame[f].entry = None /\ \A h \in Frames : frame[h].entry # x
    BY <1>4, <1>7, FreeFrames DEF Cached
  <2>4. PagesOk(pte, frame, disk, store, want, tainted, spoilt)
    BY DEF SwapInv
  <2> QED BY <1>6, <1>7, <2>1, <2>2, <2>3, <2>4, CacheAdd
<1>10. PICK tb : tb = tainted'
  OBVIOUS
<1>11. PagesOk(pte, g, d, store, want, tb, spoilt)
  <2>1. tainted \subseteq tb /\ tb \subseteq Comex /\ spoilt \subseteq Mms
    BY <1>4, <1>10, StateTypes
  <2> QED BY <1>9, <2>1, GhostsGrow
<1>12. PICK tk : tk = task'
  OBVIOUS
<1>13. /\ tk \in [Tasks -> TaskType] /\ \A u \in Tasks : u # t => tk[u] = task[u]
       /\ tk[t].at = "fill" /\ tk[t].m = a.m
  <2>1. a \in [at : {"alloc", "fill"}, m : Mms, e : Entries, x : Entries,
               todo : SUBSET Entries, last : BOOLEAN]
    BY <1>2, TaskKinds DEF TaskType, Idle
  <2>2. PICK z : z = [a EXCEPT !.at = "fill"]
    OBVIOUS
  <2>3. z \in TaskType /\ z.at = "fill" /\ z.m = a.m
    BY <2>1, <2>2 DEF TaskType
  <2>4. tk = [task EXCEPT ![t] = z]
    BY <1>1, <1>4, <1>12, <2>2, StateTypes
  <2> QED BY <2>3, <2>4, StateTypes
<1>14. HandsOk(pte, g, tk, rec)
  <2>1. HandTypes(tk, rec)
    BY <1>13, StateTypes DEF HandTypes
  <2>2. \A h \in Frames : h # f => g[h] = frame[h]
    BY <1>4, <1>8, StateTypes
  <2>3. \A u \in Tasks : tk[u].at = "copied" => tk[u] = task[u]
    BY <1>13
  <2>4. \A u \in Tasks : task[u].at = "copied" => g[task[u].new] = frame[task[u].new]
    BY <1>7, <2>2, CopyIs
  <2>5. \A u \in Tasks, m \in Mms : task[u].at = "copied" => ~Maps(pte, m, task[u].new)
    BY CopyIs
  <2>6. Reclaimed(g, rec)
    <3>1. rec = Idle \/ rec.f \in Frames
      BY StateTypes, TaskKinds
    <3> QED BY <1>7, <2>2, <3>1, ReclaimedUntouched
  <2> QED BY <2>1, <2>3, <2>4, <2>5, <2>6, HandsUntouched
<1>15. FaultsAlive(tk, line)
  BY <1>2, <1>13 DEF SwapInv, FaultsAlive
<1> QED BY <1>4, <1>8, <1>10, <1>11, <1>12, <1>14, <1>15 DEF SwapInv

(* What is read into the page is what the entry's users expect.            *)
LEMMA FillPages ==
  ASSUME NEW pt, NEW fr, NEW dk, NEW st, NEW wa, NEW ta, NEW sp,
         NEW f \in Frames, NEW y \in FrameType,
         PagesOk(pt, fr, dk, st, wa, ta, sp), fr[f].lock \in Tasks,
         y.used, y.entry = fr[f].entry, ~y.wb, y.lock \notin Tasks,
         y.val = st[fr[f].entry], y.dirty => fr[f].entry \in Comex,
         NEW g, g = [fr EXCEPT ![f] = y]
  PROVE  PagesOk(pt, g, dk, st, wa, ta, sp)
<1>1. fr \in [Frames -> FrameType] /\ FrameForms(pt, fr)
  BY DEF PagesOk, PageTypes
<1>2. g \in [Frames -> FrameType] /\ g[f] = y /\ \A h \in Frames : h # f => g[h] = fr[h]
  BY <1>1
<1>3. /\ fr[f].entry # None /\ ~fr[f].dirty /\ \A m \in Mms : ~Maps(pt, m, f)
      /\ \A h \in Frames : fr[h].entry = fr[f].entry => h = f
      /\ \A h \in Frames : g[h].entry = fr[h].entry
  BY <1>1, <1>2 DEF FrameForms
<1>4. PageTypes(pt, g, dk, st, wa, ta, sp)
  BY <1>2 DEF PagesOk, PageTypes
<1>5. FrameForms(pt, g)
  <2>1. \A h \in Frames : ~g[h].used => g[h] = FreeFrame
    BY <1>1, <1>2 DEF FrameForms
  <2>2. \A h, k \in Frames : g[h].entry # None /\ g[h].entry = g[k].entry => h = k
    BY <1>1, <1>3 DEF FrameForms
  <2>3. \A h \in Frames : g[h].wb => g[h].entry \in Disk
    BY <1>1, <1>2 DEF FrameForms
  <2>4. \A h \in Frames : g[h].lock \in Tasks => g[h].entry # None /\ ~g[h].dirty /\ ~g[h].wb
    BY <1>1, <1>2 DEF FrameForms
  <2>5. /\ \A m \in Mms, h \in Frames : Maps(pt, m, h) => g[h].used /\ g[h].lock \notin Tasks
        /\ \A m \in Mms : pt[m].k = "map" /\ pt[m].w => pt[m].d
    BY <1>1, <1>2 DEF FrameForms
  <2> QED BY <2>1, <2>2, <2>3, <2>4, <2>5 DEF FrameForms
<1>6. MapExact(pt, g, dk)
  BY <1>3 DEF PagesOk, MapExact
<1>7. OneUser(pt, g, ta)
  BY <1>3 DEF PagesOk, OneUser, Uses
<1>8. Writers(pt, g, sp)
  BY <1>3 DEF PagesOk, Writers, Shares
<1>9. MappedRight(pt, g, st, wa, ta, sp)
  BY <1>2, <1>3 DEF PagesOk, MappedRight
<1>10. NamedRight(pt, g, st, wa, ta, sp)
  <2> SUFFICES ASSUME NEW m \in Mms, NEW e \in Entries \ ta, Names(pt, m, e), m \notin sp
               PROVE  /\ \A h \in Frames : g[h].entry = e /\ g[h].lock \notin Tasks => g[h].val = wa[m]
                      /\ e \in Comex \/ (\A h \in Frames : g[h].entry = e => ~g[h].dirty)
                            => st[e] = wa[m]
    BY DEF NamedRight
  <2>1. /\ \A h \in Frames : fr[h].entry = e /\ fr[h].lock \notin Tasks => fr[h].val = wa[m]
        /\ e \in Comex \/ (\A h \in Frames : fr[h].entry = e => ~fr[h].dirty) => st[e] = wa[m]
    BY DEF PagesOk, NamedRight
  <2>2. CASE e = fr[f].entry
    <3>1. st[e] = wa[m]
      BY <1>3, <2>1, <2>2
    <3> QED BY <1>2, <1>3, <2>2, <3>1
  <2>3. CASE e # fr[f].entry
    BY <1>2, <1>3, <2>1, <2>3
  <2> QED BY <2>2, <2>3
<1> QED BY <1>4, <1>5, <1>6, <1>7, <1>8, <1>9, <1>10 DEF PagesOk

LEMMA FillKeeps ==
  ASSUME SwapInv, NEW t \in Tasks, Fill(t)
  PROVE  SwapInv'
<1>1. PICK a : a = task[t]
  OBVIOUS
<1>2. /\ a.at = "fill" /\ a.m \in Mms /\ a.e \in Entries /\ a.todo \subseteq Entries
      /\ line[a.m] # <<>> /\ a.x \in Entries /\ a \in TaskType /\ a.last \in BOOLEAN
  BY <1>1, FaultKnows, TaskKinds, StateTypes DEF Fill
<1>3. PICK x \in Entries : x = a.x
  BY <1>2
<1>4. PICK f \in Frames :
          /\ frame[f].entry = x /\ frame[f].lock = t
          /\ LET filled == [frame EXCEPT ![f].val = store[x], ![f].lock = None,
                                         ![f].dirty = x \in Comex]
             IN frame' = IF a.last THEN filled ELSE Unpin(filled, f, t)
          /\ task' = [task EXCEPT ![t] = AfterRead(t, f)]
  BY <1>1, <1>3 DEF Fill, Cached
<1>5. /\ free' \subseteq Comex /\ tainted \subseteq tainted' /\ tainted' \subseteq Comex
      /\ UNCHANGED <<pte, disk, store, rec, line, want, spoilt>>
  <2>1. UNCHANGED <<pte, disk, store, rec, line, want, spoilt>>
        /\ IF x \in Comex THEN GiveBack(x) ELSE UNCHANGED <<free, tainted>>
    BY <1>1, <1>3 DEF Fill
  <2> QED BY <2>1, StateTypes DEF GiveBack
<1>6. PICK v \in Vals : v = store[x]
  BY StateTypes
<1>7. PICK b \in BOOLEAN : b = (x \in Comex)
  <2>1. (x \in Comex) \in BOOLEAN
    OBVIOUS
  <2> QED BY <2>1, Zenon
<1>8. PICK p \in SUBSET Actors : p = IF a.last THEN frame[f].pins ELSE frame[f].pins \ {t}
  BY StateTypes
<1>9. PICK y : y = [frame[f] EXCEPT !.val = v, !.lock = None, !.dirty = b, !.pins = p]
  OBVIOUS
<1>10. /\ y \in FrameType /\ y.used = frame[f].used /\ y.entry = x /\ y.wb = frame[f].wb
       /\ y.lock = None /\ y.val = v /\ y.dirty = b /\ y.pins = p
  BY <1>4, <1>9, StateTypes DEF FrameType
<1>11. frame' = [frame EXCEPT ![f] = y]
  <2>1. CASE a.last
    <3>1. frame' = [frame EXCEPT ![f].val = v, ![f].lock = None, ![f].dirty = b]
      BY <1>4, <1>6, <1>7, <2>1
    <3>2. y = [frame[f] EXCEPT !.val = v, !.lock = None, !.dirty = b]
      BY <1>8, <1>9, <2>1, StateTypes DEF FrameType
    <3> QED BY <3>1, <3>2, StateTypes
  <2>2. CASE ~a.last
    <3>1. frame' = Unpin([frame EXCEPT ![f].val = v, ![f].lock = None, ![f].dirty = b], f, t)
      BY <1>4, <1>6, <1>7, <2>2
    <3>2. PICK z : z = [frame[f] EXCEPT !.val = v, !.lock = None, !.dirty = b]
      OBVIOUS
    <3>3. frame' = Unpin([frame EXCEPT ![f] = z], f, t)
      BY <3>1, <3>2, StateTypes
    <3>4. z.pins = frame[f].pins /\ z \in FrameType /\ y = [z EXCEPT !.pins = p]
      BY <1>9, <3>2, StateTypes DEF FrameType, Vals
    <3>5. frame' = [frame EXCEPT ![f] = [z EXCEPT !.pins = p]]
      BY <1>8, <2>2, <3>3, <3>4, StateTypes DEF Unpin
    <3> QED BY <3>4, <3>5
  <2> QED BY <2>1, <2>2
<1>12. PICK g : g = [frame EXCEPT ![f] = y]
  OBVIOUS
<1>13. frame[f].used /\ ~frame[f].wb
  BY <1>4, CachedUsed, Kinds DEF SwapInv, PagesOk, FrameForms
<1>14. PagesOk(pte, g, disk, store, want, tainted, spoilt)
  <2>1. PagesOk(pte, frame, disk, store, want, tainted, spoilt)
    BY DEF SwapInv
  <2>2. /\ frame[f].lock \in Tasks /\ y.entry = frame[f].entry /\ y.lock \notin Tasks
        /\ y.val = store[frame[f].entry] /\ (y.dirty => frame[f].entry \in Comex)
    BY <1>4, <1>6, <1>7, <1>10, Kinds
  <2> QED BY <1>10, <1>12, <1>13, <2>1, <2>2, FillPages
<1>15. PICK tb : tb = tainted'
  OBVIOUS
<1>16. PagesOk(pte, g, disk, store, want, tb, spoilt)
  BY <1>5, <1>14, <1>15, StateTypes, GhostsGrow
<1>17. PICK tk : tk = task'
  OBVIOUS
<1>18. /\ tk \in [Tasks -> TaskType] /\ \A u \in Tasks : u # t => tk[u] = task[u]
       /\ tk[t].at # "copied" /\ tk[t].m = a.m
  <2>1. PICK z : z = AfterRead(t, f)
    OBVIOUS
  <2>2. z = IF a.last THEN [at |-> "lock", m |-> a.m, e |-> a.e, f |-> f]
            ELSE [at |-> "next", m |-> a.m, e |-> a.e, todo |-> a.todo]
    BY <1>1, <2>1 DEF AfterRead
  <2>3. z \in TaskType /\ z.at # "copied" /\ z.m = a.m
    BY <1>2, <2>2 DEF TaskType
  <2>4. tk = [task EXCEPT ![t] = z]
    BY <1>4, <1>17, <2>1
  <2> QED BY <2>3, <2>4, StateTypes
<1>19. HandsOk(pte, g, tk, rec)
  <2>1. HandTypes(tk, rec)
    BY <1>18, StateTypes DEF HandTypes
  <2>2. g[f] = y /\ \A h \in Frames : h # f => g[h] = frame[h]
    BY <1>12, StateTypes
  <2>3. \A u \in Tasks : tk[u].at = "copied" => tk[u] = task[u]
    BY <1>18
  <2>4. \A u \in Tasks : task[u].at = "copied" => g[task[u].new] = frame[task[u].new]
    BY <1>4, <2>2, CopyIs, Kinds
  <2>5. \A u \in Tasks, m \in Mms : task[u].at = "copied" => ~Maps(pte, m, task[u].new)
    BY CopyIs
  <2>6. Reclaimed(g, rec)
    <3>1. rec = Idle \/ rec.f \in Frames
      BY StateTypes, TaskKinds
    <3>2. Reclaimed(frame, rec)
      BY DEF SwapInv, HandsOk
    <3>3. CASE rec # Idle /\ rec.f = f
      <4>1. rec.at = "sent" /\ Kswapd \in frame[f].pins
        BY <1>4, <3>2, <3>3, Kinds, StateTypes, TaskKinds DEF Reclaimed
      <4>2. Kswapd \in y.pins
        BY <1>8, <1>10, <4>1, Kinds
      <4> QED BY <2>2, <3>3, <4>1, <4>2 DEF Reclaimed
    <3>4. CASE rec = Idle \/ rec.f # f
      BY <2>2, <3>1, <3>4, ReclaimedUntouched
    <3> QED BY <3>3, <3>4
  <2> QED BY <2>1, <2>3, <2>4, <2>5, <2>6, HandsUntouched
<1>20. FaultsAlive(tk, line)
  BY <1>2, <1>18 DEF SwapInv, FaultsAlive
<1> QED BY <1>5, <1>11, <1>12, <1>15, <1>16, <1>17, <1>19, <1>20 DEF SwapInv

-----------------------------------------------------------------------------
(* The reclaimer.                                                          *)

LEMMA RecIs ==
  ASSUME SwapInv, rec # Idle
  PROVE  /\ rec.f \in Frames /\ frame[rec.f].used /\ Kswapd \in frame[rec.f].pins
         /\ rec.at \in {"add", "unmap"} => frame[rec.f].lock = Kswapd
         /\ rec.at = "add" => frame[rec.f].entry = None
         /\ rec.at = "unmap" =>
              frame[rec.f].entry # None /\ frame[rec.f].entry \in Entries /\ ~frame[rec.f].wb
         /\ \A t \in Tasks : task[t].at = "copied" => task[t].new # rec.f
<1>1. rec.f \in Frames /\ Kswapd \in frame[rec.f].pins
  BY TaskKinds, StateTypes DEF SwapInv, HandsOk, Reclaimed
<1>2. frame[rec.f].used
  BY <1>1, FreeFrames DEF SwapInv, PagesOk, FrameForms
<1>3. /\ rec.at \in {"add", "unmap"} => frame[rec.f].lock = Kswapd
      /\ rec.at = "add" => frame[rec.f].entry = None
      /\ rec.at = "unmap" => frame[rec.f].entry # None /\ ~frame[rec.f].wb
  BY DEF SwapInv, HandsOk, Reclaimed
<1>4. \A t \in Tasks : task[t].at = "copied" => task[t].new # rec.f
  BY CopyIs
<1> QED BY <1>1, <1>2, <1>3, <1>4, CachedUsed

LEMMA PutBackKeeps ==
  ASSUME SwapInv, rec # Idle, NEW fr, NEW dk, NEW st, NEW ta,
         PagesOk(pte, fr, dk, st, want, ta, spoilt),
         \A h \in Frames : h # rec.f => fr[h] = frame[h],
         fr[rec.f].used, PutBack(fr)
  PROVE  /\ PagesOk(pte, frame', dk, st, want, ta, spoilt)
         /\ HandsOk(pte, frame', task, rec')
<1>1. PICK f \in Frames : f = rec.f
  BY RecIs
<1>2. fr \in [Frames -> FrameType] /\ fr[f] \in FrameType
  BY DEF PagesOk, PageTypes
<1>3. PICK p \in SUBSET Actors : p = fr[f].pins \ {Kswapd}
  BY <1>2 DEF FrameType
<1>4. PICK k \in Actors \cup {None} : k = IF fr[f].lock = Kswapd THEN None ELSE fr[f].lock
  BY <1>2 DEF FrameType
<1>5. PICK y : y = [fr[f] EXCEPT !.pins = p, !.lock = k]
  OBVIOUS
<1>6. /\ y \in FrameType /\ y.used = fr[f].used /\ y.entry = fr[f].entry /\ y.wb = fr[f].wb
      /\ y.lock = k /\ y.val = fr[f].val /\ y.dirty = fr[f].dirty /\ y.pins = p
  BY <1>2, <1>5 DEF FrameType
<1>7. PICK g : g = [fr EXCEPT ![f] = y]
  OBVIOUS
<1>8. g \in [Frames -> FrameType] /\ g[f] = y /\ \A h \in Frames : h # f => g[h] = fr[h]
  BY <1>2, <1>6, <1>7
<1>9. frame' = Released(g, pte) /\ rec' = Idle
  <2>1. g = [fr EXCEPT ![f].pins = @ \ {Kswapd}, ![f].lock = IF @ = Kswapd THEN None ELSE @]
    BY <1>2, <1>3, <1>4, <1>5, <1>7
  <2> QED BY <1>1, <2>1 DEF PutBack
<1>10. PagesOk(pte, g, dk, st, want, ta, spoilt)
  <2>1. \A h \in Frames : Quiet(fr[h], g[h])
    BY <1>1, <1>4, <1>6, <1>8, Kinds DEF Quiet, LockSame
  <2> QED BY <1>8, <2>1, QuietKeeps
<1>11. PICK i \in RecType : i = Idle
  BY DEF RecType
<1>12. HandsOk(pte, g, task, i)
  <2>1. HandTypes(task, i)
    BY StateTypes DEF HandTypes
  <2>2. Reclaimed(g, i)
    BY <1>11, TaskKinds DEF Reclaimed
  <2>3. CopiesKept(pte, frame, g, task, task, i)
    <3> SUFFICES ASSUME NEW u \in Tasks, NEW h \in Frames, task[u].at = "copied", h = task[u].new
                 PROVE  /\ g[h].used /\ g[h].val = frame[h].val /\ g[h].entry = None
                        /\ g[h].lock = None /\ u \in g[h].pins
                        /\ \A m \in Mms : ~Maps(pte, m, h)
      BY <1>11, TaskKinds DEF CopiesKept
    <3>1. h # f /\ g[h] = frame[h]
      BY <1>1, <1>8, RecIs
    <3> QED BY <3>1, CopyIs
  <2>4. HandsOk(pte, frame, task, rec)
    BY DEF SwapInv
  <2> QED BY <2>1, <2>2, <2>3, <2>4, HandsKeep
<1>13. /\ PagesOk(pte, Released(g, pte), dk, st, want, ta, spoilt)
       /\ HandsOk(pte, Released(g, pte), task, i)
  BY <1>10, <1>12, ReleaseKeeps
<1> QED BY <1>9, <1>11, <1>13

LEMMA IsolateKeeps ==
  ASSUME SwapInv, NEW f \in Frames, Isolate(f)
  PROVE  SwapInv'
<1>1. /\ rec = Idle /\ frame[f].lock = None /\ ~frame[f].wb
      /\ MapCount(f) > 0 \/ frame[f].entry # None
      /\ frame' = [frame EXCEPT ![f].lock = Kswapd, ![f].pins = @ \cup {Kswapd}]
      /\ rec' = [at |-> IF frame[f].entry = None THEN "add" ELSE "unmap", f |-> f]
      /\ UNCHANGED <<pte, swap, task, line, ghosts, ops>>
  BY DEF Isolate
<1>2. frame[f].used /\ \A t \in Tasks : task[t].at = "copied" => task[t].new # f
  <2>1. CASE frame[f].entry # None
    BY <2>1, CachedUsed, CopyIs
  <2>2. CASE MapCount(f) > 0
    <3>1. MappedBy(f) # {}
      <4>1. MappedBy(f) = {} => MapCount(f) = 0
        BY MmsCount DEF MapCount
      <4> QED BY <2>2, <4>1
    <3>2. PICK m \in Mms : Maps(pte, m, f)
      BY <3>1 DEF MappedBy, Maps
    <3> QED BY <3>2, CopyIs DEF SwapInv, PagesOk, FrameForms
  <2> QED BY <1>1, <2>1, <2>2
<1>3. PICK p \in SUBSET Actors : p = frame[f].pins \cup {Kswapd}
  BY StateTypes DEF Actors
<1>4. PICK y : y = [frame[f] EXCEPT !.lock = Kswapd, !.pins = p]
  OBVIOUS
<1>5. /\ y \in FrameType /\ y.used = frame[f].used /\ y.entry = frame[f].entry
      /\ y.wb = frame[f].wb /\ y.lock = Kswapd /\ y.val = frame[f].val
      /\ y.dirty = frame[f].dirty /\ y.pins = p
  <2>1. Kswapd \in Actors
    BY DEF Actors
  <2> QED BY <1>4, <2>1, StateTypes DEF FrameType
<1>6. PICK g : g = [frame EXCEPT ![f] = y]
  OBVIOUS
<1>7. g \in [Frames -> FrameType] /\ g[f] = y /\ \A h \in Frames : h # f => g[h] = frame[h]
  BY <1>5, <1>6, StateTypes
<1>8. frame' = g
  BY <1>1, <1>3, <1>4, <1>6, StateTypes
<1>9. PagesOk(pte, g, disk, store, want, tainted, spoilt)
  <2>1. \A h \in Frames : Quiet(frame[h], g[h])
    BY <1>1, <1>2, <1>5, <1>7, Kinds DEF Quiet, LockSame
  <2> QED BY <1>7, <2>1, QuietKeeps DEF SwapInv
<1>10. PICK r : r = rec'
  OBVIOUS
<1>11. r \in RecType /\ r.f = f /\ r # Idle
       /\ r.at = IF frame[f].entry = None THEN "add" ELSE "unmap"
  BY <1>1, <1>10, TaskKinds DEF RecType
<1>12. HandsOk(pte, g, task, r)
  <2>1. HandTypes(task, r)
    BY <1>11, StateTypes DEF HandTypes
  <2>2. Reclaimed(g, r)
    BY <1>1, <1>3, <1>5, <1>7, <1>11 DEF Reclaimed
  <2>3. CopiesKept(pte, frame, g, task, task, r)
    <3> SUFFICES ASSUME NEW u \in Tasks, NEW h \in Frames, task[u].at = "copied", h = task[u].new
                 PROVE  /\ g[h].used /\ g[h].val = frame[h].val /\ g[h].entry = None
                        /\ g[h].lock = None /\ u \in g[h].pins
                        /\ \A m \in Mms : ~Maps(pte, m, h)
                        /\ r.f # h
      BY TaskKinds DEF CopiesKept
    <3>1. h # f /\ g[h] = frame[h]
      BY <1>2, <1>7
    <3> QED BY <1>11, <3>1, CopyIs
  <2>4. HandsOk(pte, frame, task, rec)
    BY DEF SwapInv
  <2> QED BY <2>1, <2>2, <2>3, <2>4, HandsKeep
<1> QED BY <1>1, <1>8, <1>9, <1>10, <1>12 DEF SwapInv, swap, ghosts

LEMMA ActivateKeeps ==
  ASSUME SwapInv, Activate
  PROVE  SwapInv'
<1>1. PICK r : r = TryToFreeSwap(frame, disk, rec.f)
  OBVIOUS
<1>2. /\ rec # Idle /\ PutBack(r.fr) /\ disk' = r.dk
      /\ UNCHANGED <<pte, store, free, task, line, ghosts, ops>>
      /\ rec.at = "unmap"
  BY <1>1, TaskKinds DEF Activate
<1>3. rec.f \in Frames /\ frame[rec.f].used /\ frame[rec.f].lock = Kswapd
  BY <1>2, RecIs
<1>4. /\ PagesOk(pte, r.fr, r.dk, store, want, tainted, spoilt)
      /\ \A h \in Frames : h # rec.f => r.fr[h] = frame[h]
      /\ \/ r.fr = frame
         \/ r.fr[rec.f] = [frame[rec.f] EXCEPT !.entry = None, !.dirty = TRUE]
  <2>1. PagesOk(pte, frame, disk, store, want, tainted, spoilt)
    BY DEF SwapInv
  <2>2. PICK f \in Frames : f = rec.f
    BY <1>3
  <2>3. frame[f].lock \notin Tasks
    BY <1>3, <2>2, Kinds
  <2>4. r = TryToFreeSwap(frame, disk, f)
    BY <1>1, <2>2
  <2>5. PagesOk(pte, r.fr, r.dk, store, want, tainted, spoilt) /\ LeftCache(frame, r.fr, f)
    BY <2>1, <2>3, <2>4, TryToFreeKeeps
  <2> QED BY <2>2, <2>5 DEF LeftCache
<1>5. r.fr[rec.f].used
  BY <1>3, <1>4, StateTypes DEF FrameType
<1>6. /\ PagesOk(pte, frame', r.dk, store, want, tainted, spoilt)
      /\ HandsOk(pte, frame', task, rec')
  BY <1>2, <1>4, <1>5, PutBackKeeps
<1> QED BY <1>2, <1>6 DEF SwapInv, ghosts

LEMMA UnmapFailsKeeps ==
  ASSUME SwapInv, UnmapFails
  PROVE  SwapInv'
<1>1. /\ rec # Idle /\ PutBack(frame) /\ UNCHANGED <<pte, swap, task, line, ghosts>>
  BY TaskKinds DEF UnmapFails
<1>2. frame[rec.f].used /\ PagesOk(pte, frame, disk, store, want, tainted, spoilt)
  BY <1>1, RecIs DEF SwapInv
<1>3. /\ PagesOk(pte, frame', disk, store, want, tainted, spoilt)
      /\ HandsOk(pte, frame', task, rec')
  BY <1>1, <1>2, PutBackKeeps
<1> QED BY <1>1, <1>3 DEF SwapInv, swap, ghosts

(* A page number whose name is still around is tainted when it is taken.    *)
LEMMA StoreKeeps ==
  ASSUME SwapInv, NEW e \in Comex, NEW v \in Vals, NEW st, st = [store EXCEPT ![e] = v],
         NEW ta, ta = IF StillNamed(e) THEN tainted \cup {e} ELSE tainted
  PROVE  PagesOk(pte, frame, disk, st, want, ta, spoilt)
<1>1. PagesOk(pte, frame, disk, store, want, ta, spoilt)
  <2>1. PagesOk(pte, frame, disk, store, want, tainted, spoilt)
    BY DEF SwapInv
  <2>2. tainted \subseteq ta /\ ta \subseteq Comex /\ spoilt \subseteq Mms
    BY StateTypes
  <2> QED BY <2>1, <2>2, GhostsGrow
<1>2. e \notin ta => /\ \A f \in Frames : frame[f].entry # e
                     /\ \A m \in Mms : ~Names(pte, m, e)
  BY DEF StillNamed, Cached, Names
<1>3. st \in [Entries -> Vals] /\ \A x \in Entries : x # e => st[x] = store[x]
  BY StateTypes
<1>4. MappedRight(pte, frame, st, want, ta, spoilt)
  BY <1>1, <1>2, <1>3, Kinds DEF PagesOk, MappedRight
<1>5. NamedRight(pte, frame, st, want, ta, spoilt)
  BY <1>1, <1>2, <1>3, Kinds DEF PagesOk, NamedRight
<1>6. PageTypes(pte, frame, disk, st, want, ta, spoilt)
  BY <1>1, <1>3 DEF PagesOk, PageTypes
<1> QED BY <1>1, <1>4, <1>5, <1>6 DEF PagesOk

LEMMA AddToSwapFailsKeeps ==
  ASSUME SwapInv, AddToSwapFails
  PROVE  SwapInv'
<1>1. /\ rec # Idle /\ PutBack(frame) /\ UNCHANGED <<pte, disk, task, line, want, spoilt>>
  BY TaskKinds DEF AddToSwapFails
<1>2. PICK st, ta : st = store' /\ ta = tainted'
  OBVIOUS
<1>3. PagesOk(pte, frame, disk, st, want, ta, spoilt) /\ free' \subseteq Comex
  <2>1. CASE UNCHANGED <<store, free, tainted>>
    BY <1>2, <2>1 DEF SwapInv
  <2>2. CASE \E e \in Places(rec.f) \cap Comex :
             /\ store' = [store EXCEPT ![e] = frame[rec.f].val]
             /\ free' = free \ {e}
             /\ tainted' = IF StillNamed(e) THEN tainted \cup {e} ELSE tainted
    <3>1. PICK e \in Comex :
             /\ store' = [store EXCEPT ![e] = frame[rec.f].val]
             /\ free' = free \ {e}
             /\ tainted' = IF StillNamed(e) THEN tainted \cup {e} ELSE tainted
      BY <2>2
    <3>2. PICK v \in Vals : v = frame[rec.f].val
      BY <1>1, RecIs, StateTypes DEF FrameType
    <3> QED BY <1>2, <3>1, <3>2, StoreKeeps, StateTypes
  <2> QED BY <2>1, <2>2 DEF AddToSwapFails
<1>4. /\ PagesOk(pte, frame', disk, st, want, ta, spoilt)
      /\ HandsOk(pte, frame', task, rec')
  BY <1>1, <1>3, RecIs, PutBackKeeps
<1> QED BY <1>1, <1>2, <1>3, <1>4 DEF SwapInv

(* Who counts in a page's references.                                      *)
LEMMA MapCounts ==
  ASSUME NEW f \in Frames
  PROVE  /\ MapCount(f) \in Nat /\ (MapCount(f) = 0 <=> \A m \in Mms : ~Maps(pte, m, f))
         /\ MapCount(f) = 1 => \E m \in Mms : \A n \in Mms : Maps(pte, n, f) <=> n = m
         /\ MapCount(f) <= 1 =>
              \A m, n \in Mms : Maps(pte, m, f) /\ Maps(pte, n, f) => m = n
<1>1. PICK S : S = MappedBy(f)
  OBVIOUS
<1>2. S \subseteq Mms /\ MapCount(f) = Cardinality(S) /\ \A m \in Mms : m \in S <=> Maps(pte, m, f)
  BY <1>1 DEF MappedBy, Maps, MapCount
<1>3. /\ Cardinality(S) \in Nat /\ (Cardinality(S) = 0 <=> S = {})
      /\ \A m \in S : Cardinality(S \ {m}) = Cardinality(S) - 1
  BY <1>2, MmsCount
<1>4. \A m \in S : Cardinality(S \ {m}) \in Nat /\ (Cardinality(S \ {m}) = 0 <=> S \ {m} = {})
  <2> SUFFICES ASSUME NEW m \in S
               PROVE  Cardinality(S \ {m}) \in Nat /\ (Cardinality(S \ {m}) = 0 <=> S \ {m} = {})
    OBVIOUS
  <2>1. PICK T : T = S \ {m}
    OBVIOUS
  <2>2. T \subseteq Mms
    BY <1>2, <2>1
  <2> QED BY <2>1, <2>2, MmsCount
<1>5. Cardinality(S) <= 1 => \A m, n \in S : m = n
  <2> SUFFICES ASSUME Cardinality(S) <= 1, NEW m \in S, NEW n \in S, m # n PROVE FALSE
    OBVIOUS
  <2>1. Cardinality(S \ {m}) \in Nat /\ Cardinality(S \ {m}) # 0
    BY <1>4
  <2>2. Cardinality(S \ {m}) = Cardinality(S) - 1
    BY <1>3
  <2> QED BY <1>3, <2>1, <2>2
<1>6. Cardinality(S) = 1 => \E m \in S : S = {m}
  <2>1. Cardinality(S) = 1 => S # {}
    BY <1>3
  <2> QED BY <1>3, <1>5, <2>1
<1> QED BY <1>2, <1>3, <1>5, <1>6

LEMMA PinCounts ==
  ASSUME NEW p, p \subseteq Actors
  PROVE  /\ Cardinality(p) \in Nat
         /\ Kswapd \in p => Cardinality(p) >= 1 /\ (Cardinality(p) = 1 => p = {Kswapd})
<1>1. IsFiniteSet(Actors)
  BY SwapAssumption, FS_AddElement, FS_Singleton, FS_Union DEF Actors
<1>2. IsFiniteSet(p) /\ Cardinality(p) \in Nat
  BY <1>1, FS_Subset, FS_CardinalityType
<1>3. ASSUME Kswapd \in p
      PROVE  Cardinality(p) >= 1 /\ (Cardinality(p) = 1 => p = {Kswapd})
  <2>1. PICK T : T = p \ {Kswapd}
    OBVIOUS
  <2>2. IsFiniteSet(T) /\ Cardinality(T) = Cardinality(p) - 1
    BY <1>2, <1>3, <2>1, FS_RemoveElement
  <2>3. Cardinality(T) \in Nat /\ (Cardinality(T) = 0 <=> T = {})
    BY <2>2, FS_CardinalityType, FS_EmptySet
  <2>4. Cardinality(p) = 1 => T = {}
    BY <2>2, <2>3
  <2> QED BY <1>2, <1>3, <2>1, <2>2, <2>3, <2>4
<1> QED BY <1>2, <1>3

(* Two references, the cache and the reclaimer, are all there are.          *)
LEMMA TwoReferences ==
  ASSUME SwapInv, NEW f \in Frames, Kswapd \in frame[f].pins, frame[f].entry # None,
         PageCount(f) = 2
  PROVE  frame[f].pins = {Kswapd} /\ \A m \in Mms : ~Maps(pte, m, f)
<1>1. PICK p : p = frame[f].pins /\ p \subseteq Actors
  BY StateTypes
<1>2. Cardinality(p) \in Nat /\ Cardinality(p) >= 1 /\ (Cardinality(p) = 1 => p = {Kswapd})
  BY <1>1, PinCounts
<1>3. MapCount(f) \in Nat
  BY MapCounts
<1>4. MapCount(f) + Cardinality(p) + 1 = 2
  BY <1>1 DEF PageCount
<1>5. MapCount(f) = 0 /\ Cardinality(p) = 1
  BY <1>2, <1>3, <1>4
<1> QED BY <1>1, <1>2, <1>5, MapCounts

LEMMA PageoutComexKeeps ==
  ASSUME SwapInv, PageoutComex
  PROVE  SwapInv'
<1>1. PICK f : f = rec.f
  OBVIOUS
<1>2. /\ rec.at = "unmap" /\ rec # Idle /\ MapCount(f) = 0 /\ frame[f].entry \in Comex
      /\ frame' = [frame EXCEPT ![f].dirty = FALSE, ![f].lock = None]
      /\ rec' = [rec EXCEPT !.at = "sent"]
      /\ UNCHANGED <<pte, swap, task, line, ghosts, ops>>
  BY <1>1, TaskKinds DEF PageoutComex
<1>3. /\ f \in Frames /\ frame[f].used /\ Kswapd \in frame[f].pins /\ frame[f].lock = Kswapd
      /\ \A t \in Tasks : task[t].at = "copied" => task[t].new # f
      /\ \A m \in Mms : ~Maps(pte, m, f) /\ ~frame[f].wb
  BY <1>1, <1>2, RecIs, MapCounts
<1>4. PICK y : y = [frame[f] EXCEPT !.dirty = FALSE, !.lock = None]
  OBVIOUS
<1>5. /\ y \in FrameType /\ y.used = frame[f].used /\ y.entry = frame[f].entry
      /\ y.wb = frame[f].wb /\ y.lock = None /\ y.val = frame[f].val
      /\ ~y.dirty /\ y.pins = frame[f].pins
  BY <1>3, <1>4, StateTypes DEF FrameType
<1>6. PICK g : g = [frame EXCEPT ![f] = y]
  OBVIOUS
<1>7. g \in [Frames -> FrameType] /\ g[f] = y /\ \A h \in Frames : h # f => g[h] = frame[h]
  BY <1>3, <1>5, <1>6, StateTypes
<1>8. frame' = g
  BY <1>2, <1>3, <1>4, <1>6, StateTypes
<1>9. PagesOk(pte, g, disk, store, want, tainted, spoilt)
  <2>0. PagesOk(pte, frame, disk, store, want, tainted, spoilt) /\ FrameForms(pte, frame)
    BY DEF SwapInv, PagesOk
  <2>1. PageTypes(pte, g, disk, store, want, tainted, spoilt)
    BY <1>7, <2>0 DEF PagesOk, PageTypes
  <2>2. \A h \in Frames : g[h].entry = frame[h].entry
    BY <1>5, <1>7
  <2>3. FrameForms(pte, g)
    <3>1. \A h \in Frames : ~g[h].used => g[h] = FreeFrame
      BY <1>3, <1>5, <1>7, <2>0 DEF FrameForms
    <3>2. \A h, k \in Frames : g[h].entry # None /\ g[h].entry = g[k].entry => h = k
      BY <2>0, <2>2 DEF FrameForms
    <3>3. \A h \in Frames : g[h].wb => g[h].entry \in Disk
      BY <1>5, <1>7, <2>0 DEF FrameForms
    <3>4. \A h \in Frames : g[h].lock \in Tasks => g[h].entry # None /\ ~g[h].dirty /\ ~g[h].wb
      BY <1>5, <1>7, <2>0, Kinds DEF FrameForms
    <3>5. /\ \A m \in Mms, h \in Frames : Maps(pte, m, h) => g[h].used /\ g[h].lock \notin Tasks
          /\ \A m \in Mms : pte[m].k = "map" /\ pte[m].w => pte[m].d
      BY <1>3, <1>7, <2>0 DEF FrameForms
    <3> QED BY <3>1, <3>2, <3>3, <3>4, <3>5 DEF FrameForms
  <2>4. MapExact(pte, g, disk)
    BY <2>0, <2>2 DEF PagesOk, MapExact
  <2>5. OneUser(pte, g, tainted)
    BY <2>0, <2>2 DEF PagesOk, OneUser, Uses
  <2>6. Writers(pte, g, spoilt)
    BY <2>0, <2>2 DEF PagesOk, Writers, Shares
  <2>7. MappedRight(pte, g, store, want, tainted, spoilt)
    BY <1>3, <1>7, <2>0 DEF PagesOk, MappedRight
  <2>8. NamedRight(pte, g, store, want, tainted, spoilt)
    BY <1>2, <1>3, <1>5, <1>7, <2>0, Kinds DEF PagesOk, NamedRight
  <2>9. ZeroRight(pte, want)
    BY <2>0 DEF PagesOk
  <2> QED BY <2>1, <2>3, <2>4, <2>5, <2>6, <2>7, <2>8, <2>9 DEF PagesOk
<1>10. PICK r : r = rec'
  OBVIOUS
<1>11. r \in RecType /\ r.f = f /\ r # Idle /\ r.at = "sent"
  <2>1. rec \in [at : {"add", "unmap", "sent"}, f : Frames]
    BY <1>2, StateTypes DEF RecType
  <2> QED BY <1>1, <1>2, <1>10, <2>1, TaskKinds DEF RecType
<1>12. HandsOk(pte, g, task, r)
  <2>1. HandTypes(task, r)
    BY <1>11, StateTypes DEF HandTypes
  <2>2. Reclaimed(g, r)
    BY <1>3, <1>5, <1>7, <1>11 DEF Reclaimed
  <2>3. CopiesKept(pte, frame, g, task, task, r)
    <3> SUFFICES ASSUME NEW u \in Tasks, NEW h \in Frames, task[u].at = "copied", h = task[u].new
                 PROVE  /\ g[h].used /\ g[h].val = frame[h].val /\ g[h].entry = None
                        /\ g[h].lock = None /\ u \in g[h].pins
                        /\ \A m \in Mms : ~Maps(pte, m, h)
                        /\ r.f # h
      BY TaskKinds DEF CopiesKept
    <3>1. h # f /\ g[h] = frame[h]
      BY <1>3, <1>7
    <3> QED BY <1>11, <3>1, CopyIs
  <2>4. HandsOk(pte, frame, task, rec)
    BY DEF SwapInv
  <2> QED BY <2>1, <2>2, <2>3, <2>4, HandsKeep
<1> QED BY <1>2, <1>8, <1>9, <1>10, <1>12 DEF SwapInv, swap, ghosts

(* One frame changes and keeps the form of a frame.                        *)
LEMMA FormsSet ==
  ASSUME NEW pt, NEW fr \in [Frames -> FrameType], NEW f \in Frames, NEW y \in FrameType,
         FrameForms(pt, fr), NEW g, g = [fr EXCEPT ![f] = y],
         ~y.used => y = FreeFrame /\ \A m \in Mms : ~Maps(pt, m, f),
         y.entry = None \/ \A h \in Frames : fr[h].entry = y.entry => h = f,
         y.wb => y.entry \in Disk, y.lock \notin Tasks
  PROVE  /\ FrameForms(pt, g) /\ g \in [Frames -> FrameType] /\ g[f] = y
         /\ \A h \in Frames : h # f => g[h] = fr[h]
<1>1. g \in [Frames -> FrameType] /\ g[f] = y /\ \A h \in Frames : h # f => g[h] = fr[h]
  OBVIOUS
<1>2. \A h \in Frames : ~g[h].used => g[h] = FreeFrame
  BY <1>1 DEF FrameForms
<1>3. \A h, k \in Frames : g[h].entry # None /\ g[h].entry = g[k].entry => h = k
  BY <1>1 DEF FrameForms
<1>4. \A h \in Frames : g[h].wb => g[h].entry \in Disk
  BY <1>1 DEF FrameForms
<1>5. \A h \in Frames : g[h].lock \in Tasks => g[h].entry # None /\ ~g[h].dirty /\ ~g[h].wb
  BY <1>1 DEF FrameForms
<1>6. /\ \A m \in Mms, h \in Frames : Maps(pt, m, h) => g[h].used /\ g[h].lock \notin Tasks
      /\ \A m \in Mms : pt[m].k = "map" /\ pt[m].w => pt[m].d
  BY <1>1 DEF FrameForms
<1> QED BY <1>1, <1>2, <1>3, <1>4, <1>5, <1>6 DEF FrameForms

(* A dirty page with an entry of its own, not yet named.                   *)
LEMMA EntryGiven ==
  ASSUME SwapInv, NEW f \in Frames, NEW e \in Entries, NEW y \in FrameType,
         frame[f].entry = None, frame[f].lock = Kswapd,
         \A h \in Frames : frame[h].entry # e,
         e \in Comex => MapCount(f) = 1, e \in Disk => disk[e].count = 0,
         y.used, y.entry = e, y.dirty, y.wb = frame[f].wb, y.lock = Kswapd,
         y.val = frame[f].val,
         NEW g, g = [frame EXCEPT ![f] = y],
         NEW d, d = IF e \in Disk THEN [disk EXCEPT ![e].has = TRUE] ELSE disk,
         NEW st, st = IF e \in Comex THEN [store EXCEPT ![e] = frame[f].val] ELSE store,
         NEW ta, ta = IF e \in Comex /\ StillNamed(e) THEN tainted \cup {e} ELSE tainted
  PROVE  PagesOk(pte, g, d, st, want, ta, spoilt)
<1>0. /\ PagesOk(pte, frame, disk, store, want, tainted, spoilt) /\ FrameForms(pte, frame)
      /\ frame \in [Frames -> FrameType] /\ disk \in [Disk -> DiskType] /\ ~frame[f].wb
  BY StateTypes, Kinds DEF SwapInv, PagesOk, FrameForms
<1>1. FrameForms(pte, g) /\ g \in [Frames -> FrameType] /\ g[f] = y
      /\ \A h \in Frames : h # f => g[h] = frame[h]
  <2>1. y.lock \notin Tasks /\ \A h \in Frames : frame[h].entry = y.entry => h = f
    BY Kinds
  <2> QED BY <1>0, <2>1, FormsSet
<1>2. /\ d \in [Disk -> DiskType]
      /\ \A x \in Disk : d[x].count = disk[x].count /\ (x # e => d[x] = disk[x])
      /\ e \in Disk => d[e].has = TRUE
  BY <1>0 DEF DiskType
<1>3. /\ st \in [Entries -> Vals] /\ \A x \in Entries : x # e => st[x] = store[x]
      /\ e \in Disk => st = store
      /\ e \in Comex => st[e] = frame[f].val
  <2>1. frame[f].val \in Vals
    BY <1>0 DEF FrameType
  <2> QED BY <2>1, StateTypes, Kinds
<1>4. ta \subseteq Comex /\ tainted \subseteq ta
      /\ \A x \in Comex \ ta : x \in Comex \ tainted
      /\ e \in Comex \ ta => \A m \in Mms : ~Names(pte, m, e)
  BY StateTypes DEF StillNamed, Names
<1>5. e \in Disk => \A m \in Mms : ~Names(pte, m, e)
  BY <1>0, Counted DEF PagesOk
<1>6. MapExact(pte, g, d)
  <2> SUFFICES ASSUME NEW x \in Disk
               PROVE  /\ d[x].count = Cardinality({m \in Mms : Names(pte, m, x)})
                      /\ d[x].has <=> \E h \in Frames : g[h].entry = x
    BY DEF MapExact
  <2>1. x # None
    BY Kinds
  <2>2. d[x].count = Cardinality({m \in Mms : Names(pte, m, x)})
    BY <1>0, <1>2 DEF PagesOk, MapExact
  <2>3. (\E h \in Frames : g[h].entry = x) <=> e = x \/ \E h \in Frames : frame[h].entry = x
    BY <1>1, <2>1
  <2>4. d[x].has <=> e = x \/ disk[x].has
    BY <1>2
  <2>5. disk[x].has <=> \E h \in Frames : frame[h].entry = x
    BY <1>0 DEF PagesOk, MapExact
  <2> QED BY <2>2, <2>3, <2>4, <2>5
<1>7. OneUser(pte, g, ta)
  <2> SUFFICES ASSUME NEW x \in Comex \ ta, NEW m \in Mms, NEW n \in Mms,
                      Uses(pte, g, m, x), Uses(pte, g, n, x)
               PROVE  m = n
    BY DEF OneUser
  <2>1. CASE x = e
    <3>1. Maps(pte, m, f) /\ Maps(pte, n, f)
      BY <1>1, <1>4, <2>1 DEF Uses
    <3> QED BY <2>1, <3>1, MapCounts
  <2>2. CASE x # e
    <3>1. Uses(pte, frame, m, x) /\ Uses(pte, frame, n, x)
      BY <1>1, <2>2 DEF Uses
    <3> QED BY <1>0, <1>4, <3>1 DEF PagesOk, OneUser
  <2> QED BY <2>1, <2>2
<1>8. Writers(pte, g, spoilt)
  BY <1>0, <1>1, <1>5 DEF PagesOk, Writers, Shares
<1>9. MappedRight(pte, g, st, want, ta, spoilt)
  BY <1>0, <1>1, <1>3, <1>4, Kinds DEF PagesOk, MappedRight
<1>10. NamedRight(pte, g, st, want, ta, spoilt)
  <2> SUFFICES ASSUME NEW m \in Mms, NEW x \in Entries \ ta, Names(pte, m, x), m \notin spoilt
               PROVE  /\ \A h \in Frames : g[h].entry = x /\ g[h].lock \notin Tasks => g[h].val = want[m]
                      /\ x \in Comex \/ (\A h \in Frames : g[h].entry = x => ~g[h].dirty)
                            => st[x] = want[m]
    BY DEF NamedRight
  <2>1. x # e /\ x \in Entries \ tainted
    BY <1>4, <1>5, Kinds
  <2>2. st[x] = store[x]
    BY <1>3, <2>1
  <2>3. \A h \in Frames : g[h].entry = x \/ frame[h].entry = x => h # f /\ g[h] = frame[h]
    BY <1>1, <2>1, Kinds
  <2>4. /\ \A h \in Frames : frame[h].entry = x /\ frame[h].lock \notin Tasks => frame[h].val = want[m]
        /\ x \in Comex \/ (\A h \in Frames : frame[h].entry = x => ~frame[h].dirty)
              => store[x] = want[m]
    BY <1>0, <2>1 DEF PagesOk, NamedRight
  <2> QED BY <2>2, <2>3, <2>4
<1>11. PageTypes(pte, g, d, st, want, ta, spoilt)
  BY <1>0, <1>1, <1>2, <1>3, <1>4 DEF PagesOk, PageTypes
<1> QED BY <1>0, <1>1, <1>6, <1>7, <1>8, <1>9, <1>10, <1>11 DEF PagesOk

LEMMA AddToSwapKeeps ==
  ASSUME SwapInv, NEW e \in Entries, AddToSwap(e)
  PROVE  SwapInv'
<1>1. PICK f : f = rec.f
  OBVIOUS
<1>2. /\ rec.at = "add" /\ rec # Idle /\ e \in Places(f) /\ Cached(e) = {}
      /\ store' = IF e \in Comex THEN [store EXCEPT ![e] = frame[f].val] ELSE store
      /\ free' = free \ {e}
      /\ disk' = IF e \in Disk THEN [disk EXCEPT ![e].has = TRUE] ELSE disk
      /\ tainted' = IF e \in Comex /\ StillNamed(e) THEN tainted \cup {e} ELSE tainted
      /\ frame' = [frame EXCEPT ![f].entry = e, ![f].dirty = TRUE]
      /\ rec' = [rec EXCEPT !.at = "unmap"]
      /\ UNCHANGED <<pte, task, line, want, spoilt>>
  BY <1>1, TaskKinds DEF AddToSwap
<1>3. /\ f \in Frames /\ frame[f].used /\ Kswapd \in frame[f].pins /\ frame[f].lock = Kswapd
      /\ \A t \in Tasks : task[t].at = "copied" => task[t].new # f
      /\ frame[f].entry = None /\ e # None
  BY <1>1, <1>2, RecIs, Kinds
<1>4. /\ e \in Comex => MapCount(f) = 1
      /\ e \in Disk => disk[e].count = 0
  BY <1>2, StateTypes, Kinds DEF Places, MayMove, Comex
<1>5. PICK y : y = [frame[f] EXCEPT !.entry = e, !.dirty = TRUE]
  OBVIOUS
<1>6. /\ y \in FrameType /\ y.used = frame[f].used /\ y.entry = e
      /\ y.wb = frame[f].wb /\ y.lock = frame[f].lock /\ y.val = frame[f].val
      /\ y.dirty /\ y.pins = frame[f].pins
  BY <1>3, <1>5, StateTypes DEF FrameType
<1>7. PICK g : g = [frame EXCEPT ![f] = y]
  OBVIOUS
<1>8. g \in [Frames -> FrameType] /\ g[f] = y /\ \A h \in Frames : h # f => g[h] = frame[h]
  BY <1>3, <1>6, <1>7, StateTypes
<1>9. frame' = g
  BY <1>2, <1>3, <1>5, <1>7, StateTypes
<1>10. PICK d, st, ta : d = disk' /\ st = store' /\ ta = tainted'
  OBVIOUS
<1>11. PagesOk(pte, g, d, st, want, ta, spoilt)
  <2>1. \A h \in Frames : frame[h].entry # e
    BY <1>2 DEF Cached
  <2>2. d = IF e \in Disk THEN [disk EXCEPT ![e].has = TRUE] ELSE disk
    BY <1>2, <1>10
  <2>3. st = IF e \in Comex THEN [store EXCEPT ![e] = frame[f].val] ELSE store
    BY <1>2, <1>10
  <2>4. ta = IF e \in Comex /\ StillNamed(e) THEN tainted \cup {e} ELSE tainted
    BY <1>2, <1>10
  <2> QED BY <1>3, <1>4, <1>6, <1>7, <2>1, <2>2, <2>3, <2>4, EntryGiven
<1>12. PICK r : r = rec'
  OBVIOUS
<1>13. r \in RecType /\ r.f = f /\ r # Idle /\ r.at = "unmap"
  <2>1. rec \in [at : {"add", "unmap", "sent"}, f : Frames]
    BY <1>2, StateTypes DEF RecType
  <2> QED BY <1>1, <1>2, <1>12, <2>1, TaskKinds DEF RecType
<1>14. HandsOk(pte, g, task, r)
  <2>1. HandTypes(task, r)
    BY <1>13, StateTypes DEF HandTypes
  <2>2. ~frame[f].wb
    BY <1>3, Kinds DEF SwapInv, PagesOk, FrameForms
  <2>3. Reclaimed(g, r)
    BY <1>3, <1>6, <1>8, <1>13, <2>2 DEF Reclaimed
  <2>4. CopiesKept(pte, frame, g, task, task, r)
    <3> SUFFICES ASSUME NEW u \in Tasks, NEW h \in Frames, task[u].at = "copied", h = task[u].new
                 PROVE  /\ g[h].used /\ g[h].val = frame[h].val /\ g[h].entry = None
                        /\ g[h].lock = None /\ u \in g[h].pins
                        /\ \A m \in Mms : ~Maps(pte, m, h)
                        /\ r.f # h
      BY TaskKinds DEF CopiesKept
    <3>1. h # f /\ g[h] = frame[h]
      BY <1>3, <1>8
    <3> QED BY <1>13, <3>1, CopyIs
  <2>5. HandsOk(pte, frame, task, rec)
    BY DEF SwapInv
  <2> QED BY <2>1, <2>3, <2>4, <2>5, HandsKeep
<1>15. free' \subseteq Comex
  BY <1>2, StateTypes
<1> QED BY <1>2, <1>9, <1>10, <1>11, <1>12, <1>14, <1>15 DEF SwapInv

(* What is written for an entry of the disk is what its page holds.        *)
LEMMA WrittenKeeps ==
  ASSUME NEW pt, NEW fr, NEW dk, NEW st, NEW wa, NEW ta, NEW sp,
         NEW f \in Frames, NEW e \in Disk, NEW y \in FrameType,
         PagesOk(pt, fr, dk, st, wa, ta, sp),
         fr[f].entry = e, fr[f].lock \notin Tasks, fr[f].used,
         y.used, y.entry = e, y.val = fr[f].val, y.lock = fr[f].lock,
         NEW g, g = [fr EXCEPT ![f] = y],
         NEW s2, s2 = [st EXCEPT ![e] = fr[f].val] \/ (s2 = st /\ y.dirty = fr[f].dirty)
  PROVE  PagesOk(pt, g, dk, s2, wa, ta, sp)
<1>0. /\ fr \in [Frames -> FrameType] /\ FrameForms(pt, fr) /\ st \in [Entries -> Vals]
      /\ e \in Entries /\ e \notin Comex /\ fr[f].val \in Vals /\ ta \subseteq Comex
  BY Kinds DEF PagesOk, PageTypes, FrameType
<1>1. FrameForms(pt, g) /\ g \in [Frames -> FrameType] /\ g[f] = y
      /\ \A h \in Frames : h # f => g[h] = fr[h]
  <2>1. \A h \in Frames : fr[h].entry = y.entry => h = f
    BY <1>0, Kinds DEF FrameForms
  <2>2. (y.wb => y.entry \in Disk) /\ y.lock \notin Tasks
    OBVIOUS
  <2> QED BY <1>0, <2>1, <2>2, FormsSet
<1>2. /\ s2 \in [Entries -> Vals] /\ \A x \in Entries : x # e => s2[x] = st[x]
      /\ s2[e] = fr[f].val \/ (s2[e] = st[e] /\ y.dirty = fr[f].dirty)
  BY <1>0
<1>3. \A h \in Frames : g[h].entry = fr[h].entry
  BY <1>1
<1>4. PageTypes(pt, g, dk, s2, wa, ta, sp)
  BY <1>1, <1>2 DEF PagesOk, PageTypes
<1>5. MapExact(pt, g, dk)
  BY <1>3 DEF PagesOk, MapExact
<1>6. OneUser(pt, g, ta)
  BY <1>3 DEF PagesOk, OneUser, Uses
<1>7. Writers(pt, g, sp)
  BY <1>3 DEF PagesOk, Writers, Shares
<1>8. MappedRight(pt, g, s2, wa, ta, sp)
  <2> SUFFICES ASSUME NEW m \in Mms, NEW h \in Frames, Maps(pt, m, h), m \notin sp
               PROVE  /\ g[h].val = wa[m]
                      /\ g[h].entry \in Disk /\ ~g[h].dirty /\ ~pt[m].d => s2[g[h].entry] = wa[m]
                      /\ g[h].entry \in Comex \ ta => s2[g[h].entry] = wa[m]
    BY DEF MappedRight
  <2>1. /\ fr[h].val = wa[m]
        /\ fr[h].entry \in Disk /\ ~fr[h].dirty /\ ~pt[m].d => st[fr[h].entry] = wa[m]
        /\ fr[h].entry \in Comex \ ta => st[fr[h].entry] = wa[m]
    BY DEF PagesOk, MappedRight
  <2>2. CASE h = f
    BY <1>0, <1>1, <1>2, <2>1, <2>2
  <2>3. CASE h # f
    <3>1. fr[h].entry # e
      BY <1>0, <2>3, Kinds DEF FrameForms
    <3> QED BY <1>1, <1>2, <2>1, <2>3, <3>1, Kinds
  <2> QED BY <2>2, <2>3
<1>9. NamedRight(pt, g, s2, wa, ta, sp)
  <2> SUFFICES ASSUME NEW m \in Mms, NEW x \in Entries \ ta, Names(pt, m, x), m \notin sp
               PROVE  /\ \A h \in Frames : g[h].entry = x /\ g[h].lock \notin Tasks => g[h].val = wa[m]
                      /\ x \in Comex \/ (\A h \in Frames : g[h].entry = x => ~g[h].dirty)
                            => s2[x] = wa[m]
    BY DEF NamedRight
  <2>1. /\ \A h \in Frames : fr[h].entry = x /\ fr[h].lock \notin Tasks => fr[h].val = wa[m]
        /\ x \in Comex \/ (\A h \in Frames : fr[h].entry = x => ~fr[h].dirty)
              => st[x] = wa[m]
    BY DEF PagesOk, NamedRight
  <2>2. \A h \in Frames : g[h].entry = x /\ g[h].lock \notin Tasks => g[h].val = wa[m]
    BY <1>1, <2>1
  <2>3. CASE x = e
    <3>1. fr[f].val = wa[m] /\ \A h \in Frames : fr[h].entry = e => h = f
      BY <1>0, <2>1, <2>3, Kinds DEF FrameForms
    <3> QED BY <1>0, <1>1, <1>2, <2>1, <2>2, <2>3, <3>1
  <2>4. CASE x # e
    <3>1. \A h \in Frames : g[h].entry = x \/ fr[h].entry = x => g[h] = fr[h]
      BY <1>1, <2>4
    <3> QED BY <1>2, <2>1, <2>2, <2>4, <3>1
  <2> QED BY <2>3, <2>4
<1> QED BY <1>1, <1>4, <1>5, <1>6, <1>7, <1>8, <1>9 DEF PagesOk

LEMMA PageoutDiskKeeps ==
  ASSUME SwapInv, PageoutDisk
  PROVE  SwapInv'
<1>1. PICK f : f = rec.f
  OBVIOUS
<1>2. PICK r : r = TryToFreeSwap(frame, disk, f)
  OBVIOUS
<1>3. PICK e : e = frame[f].entry
  OBVIOUS
<1>4. /\ rec.at = "unmap" /\ rec # Idle /\ e \in Disk
      /\ \/ PutBack(r.fr) /\ disk' = r.dk /\ UNCHANGED store
         \/ /\ PutBack([frame EXCEPT ![f].dirty = FALSE, ![f].wb = TRUE])
            /\ store' = [store EXCEPT ![e] = frame[f].val]
            /\ UNCHANGED disk
      /\ UNCHANGED <<pte, free, task, line, ghosts, ops>>
  BY <1>1, <1>2, <1>3, TaskKinds DEF PageoutDisk
<1>5. f \in Frames /\ frame[f].used /\ frame[f].lock = Kswapd /\ frame[f].lock \notin Tasks
  BY <1>1, <1>4, RecIs, Kinds
<1>6. PagesOk(pte, frame, disk, store, want, tainted, spoilt)
  BY DEF SwapInv
<1>7. CASE PutBack(r.fr) /\ disk' = r.dk /\ UNCHANGED store
  <2>1. PagesOk(pte, r.fr, r.dk, store, want, tainted, spoilt) /\ LeftCache(frame, r.fr, f)
    BY <1>2, <1>5, <1>6, TryToFreeKeeps
  <2>2. r.fr[f].used
    BY <1>5, <2>1, StateTypes DEF FrameType, LeftCache
  <2>3. \A h \in Frames : h # rec.f => r.fr[h] = frame[h]
    BY <1>1, <2>1 DEF LeftCache
  <2>4. /\ PagesOk(pte, frame', r.dk, store, want, tainted, spoilt)
        /\ HandsOk(pte, frame', task, rec')
    BY <1>1, <1>4, <1>7, <2>1, <2>2, <2>3, PutBackKeeps
  <2> QED BY <1>4, <1>7, <2>4 DEF SwapInv, ghosts
<1>8. CASE /\ PutBack([frame EXCEPT ![f].dirty = FALSE, ![f].wb = TRUE])
           /\ store' = [store EXCEPT ![e] = frame[f].val]
           /\ UNCHANGED disk
  <2>1. PICK y : y = [frame[f] EXCEPT !.dirty = FALSE, !.wb = TRUE]
    OBVIOUS
  <2>2. /\ y \in FrameType /\ y.used = frame[f].used /\ y.entry = e
        /\ y.wb /\ y.lock = frame[f].lock /\ y.val = frame[f].val
    BY <1>3, <1>5, <2>1, StateTypes DEF FrameType
  <2>3. PICK g : g = [frame EXCEPT ![f] = y]
    OBVIOUS
  <2>4. PutBack(g) /\ g[f] = y /\ \A h \in Frames : h # f => g[h] = frame[h]
    BY <1>5, <1>8, <2>1, <2>3, StateTypes
  <2>5. PICK s2 : s2 = store'
    OBVIOUS
  <2>6. PagesOk(pte, g, disk, s2, want, tainted, spoilt)
    <3>1. s2 = [store EXCEPT ![e] = frame[f].val]
      BY <1>8, <2>5
    <3> QED BY <1>3, <1>4, <1>5, <1>6, <2>2, <2>3, <3>1, WrittenKeeps
  <2>7. /\ PagesOk(pte, frame', disk, s2, want, tainted, spoilt)
        /\ HandsOk(pte, frame', task, rec')
    <3>1. g[rec.f].used /\ \A h \in Frames : h # rec.f => g[h] = frame[h]
      BY <1>1, <1>5, <2>2, <2>4
    <3> QED BY <1>4, <2>4, <2>6, <3>1, PutBackKeeps
  <2> QED BY <1>4, <1>8, <2>5, <2>7 DEF SwapInv, ghosts
<1> QED BY <1>4, <1>7, <1>8

LEMMA EndWritebackKeeps ==
  ASSUME SwapInv, NEW f \in Frames, EndWriteback(f)
  PROVE  SwapInv'
<1>1. PICK e : e = frame[f].entry
  OBVIOUS
<1>2. PICK s2 : s2 = store'
  OBVIOUS
<1>3. /\ frame[f].wb /\ frame' = Released([frame EXCEPT ![f].wb = FALSE], pte)
      /\ s2 = [store EXCEPT ![e] = frame[f].val] \/ s2 = store
      /\ UNCHANGED <<pte, disk, free, task, rec, line, ghosts, ops>>
  BY <1>1, <1>2 DEF EndWriteback
<1>4. /\ e \in Disk /\ frame[f].lock \notin Tasks /\ frame[f].used /\ e # None
  BY <1>1, <1>3, CachedUsed, Kinds DEF SwapInv, PagesOk, FrameForms
<1>5. PICK y : y = [frame[f] EXCEPT !.wb = FALSE]
  OBVIOUS
<1>6. /\ y \in FrameType /\ y.used = frame[f].used /\ y.entry = e /\ y.pins = frame[f].pins
      /\ ~y.wb /\ y.lock = frame[f].lock /\ y.val = frame[f].val /\ y.dirty = frame[f].dirty
  BY <1>1, <1>5, StateTypes DEF FrameType
<1>7. PICK g : g = [frame EXCEPT ![f] = y]
  OBVIOUS
<1>8. frame' = Released(g, pte) /\ g[f] = y /\ \A h \in Frames : h # f => g[h] = frame[h]
  BY <1>3, <1>5, <1>7, StateTypes
<1>9. PagesOk(pte, g, disk, s2, want, tainted, spoilt)
  <2>1. PagesOk(pte, frame, disk, store, want, tainted, spoilt) /\ frame[f].entry = e
    BY <1>1 DEF SwapInv
  <2>2. y \in FrameType /\ y.used /\ y.entry = e /\ y.val = frame[f].val /\ y.lock = frame[f].lock
    BY <1>4, <1>6
  <2>3. CASE s2 = [store EXCEPT ![e] = frame[f].val]
    BY <1>4, <1>7, <2>1, <2>2, <2>3, WrittenKeeps
  <2>4. CASE s2 = store
    <3>1. y.dirty = frame[f].dirty
      BY <1>6
    <3> QED BY <1>4, <1>7, <2>1, <2>2, <2>4, <3>1, WrittenKeeps
  <2> QED BY <1>3, <2>3, <2>4
<1>10. HandsOk(pte, g, task, rec)
  <2>1. HandTypes(task, rec)
    BY StateTypes DEF HandTypes
  <2>2. \A u \in Tasks : task[u].at = "copied" => g[task[u].new] = frame[task[u].new]
    BY <1>1, <1>4, <1>8, CopyIs
  <2>3. \A u \in Tasks, m \in Mms : task[u].at = "copied" => ~Maps(pte, m, task[u].new)
    BY CopyIs
  <2>4. Reclaimed(g, rec)
    <3>1. rec = Idle \/ rec.f \in Frames
      BY StateTypes, TaskKinds
    <3>2. Reclaimed(frame, rec)
      BY DEF SwapInv, HandsOk
    <3>3. CASE rec # Idle /\ rec.f = f
      BY <1>1, <1>6, <1>8, <3>2, <3>3 DEF Reclaimed
    <3>4. CASE rec = Idle \/ rec.f # f
      BY <1>8, <3>1, <3>4, ReclaimedUntouched
    <3> QED BY <3>3, <3>4
  <2> QED BY <2>1, <2>2, <2>3, <2>4, HandsUntouched
<1>11. /\ PagesOk(pte, Released(g, pte), disk, s2, want, tainted, spoilt)
       /\ HandsOk(pte, Released(g, pte), task, rec)
  BY <1>9, <1>10, ReleaseKeeps
<1> QED BY <1>2, <1>3, <1>8, <1>11 DEF SwapInv, ghosts

(* A clean page that only the cache and the reclaimer have goes.           *)
LEMMA PageGoes ==
  ASSUME NEW pt, NEW fr, NEW dk, NEW st, NEW wa, NEW ta, NEW sp, NEW f \in Frames,
         PagesOk(pt, fr, dk, st, wa, ta, sp),
         fr[f].entry # None, ~fr[f].dirty, \A m \in Mms : ~Maps(pt, m, f),
         NEW g, g = [fr EXCEPT ![f] = FreeFrame],
         NEW d, d = SwapcacheFree(dk, fr[f].entry)
  PROVE  PagesOk(pt, g, d, st, wa, ta, sp)
<1> PICK e : e = fr[f].entry
  OBVIOUS
<1>1. fr \in [Frames -> FrameType] /\ dk \in [Disk -> DiskType] /\ FrameForms(pt, fr)
  BY DEF PagesOk, PageTypes
<1>2. /\ FrameForms(pt, g) /\ g \in [Frames -> FrameType] /\ g[f] = FreeFrame
      /\ \A h \in Frames : h # f => g[h] = fr[h]
  <2>1. g \in [Frames -> FrameType] /\ g[f] = FreeFrame /\ \A h \in Frames : h # f => g[h] = fr[h]
    BY <1>1, FreeFrames
  <2>2. \A h \in Frames : ~g[h].used => g[h] = FreeFrame
    BY <1>1, <2>1 DEF FrameForms
  <2>3. \A h, k \in Frames : g[h].entry # None /\ g[h].entry = g[k].entry => h = k
    BY <1>1, <2>1, FreeFrames DEF FrameForms
  <2>4. \A h \in Frames : g[h].wb => g[h].entry \in Disk
    BY <1>1, <2>1, FreeFrames DEF FrameForms
  <2>5. \A h \in Frames : g[h].lock \in Tasks => g[h].entry # None /\ ~g[h].dirty /\ ~g[h].wb
    BY <1>1, <2>1, FreeFrames, Kinds DEF FrameForms
  <2>6. /\ \A m \in Mms, h \in Frames : Maps(pt, m, h) => g[h].used /\ g[h].lock \notin Tasks
        /\ \A m \in Mms : pt[m].k = "map" /\ pt[m].w => pt[m].d
    BY <1>1, <2>1 DEF FrameForms
  <2> QED BY <2>1, <2>2, <2>3, <2>4, <2>5, <2>6 DEF FrameForms
<1>3. /\ d \in [Disk -> DiskType]
      /\ \A x \in Disk : d[x].count = dk[x].count /\ (x # e => d[x] = dk[x])
      /\ e \in Disk => d[e].has = FALSE
  BY <1>1 DEF DiskType, SwapcacheFree
<1>4. \A h \in Frames : h # f => fr[h].entry # e
  BY <1>1 DEF FrameForms
<1>5. g[f].entry = None
  BY <1>2, FreeFrames
<1>6. PageTypes(pt, g, d, st, wa, ta, sp)
  BY <1>2, <1>3 DEF PagesOk, PageTypes
<1>8. MapExact(pt, g, d)
  <2> SUFFICES ASSUME NEW x \in Disk
               PROVE  /\ d[x].count = Cardinality({m \in Mms : Names(pt, m, x)})
                      /\ d[x].has <=> \E h \in Frames : g[h].entry = x
    BY DEF MapExact
  <2>1. x # None
    BY Kinds
  <2>2. d[x].count = Cardinality({m \in Mms : Names(pt, m, x)})
    BY <1>3 DEF PagesOk, MapExact
  <2>3. (\E h \in Frames : g[h].entry = x) <=> x # e /\ \E h \in Frames : fr[h].entry = x
    BY <1>2, <1>4, <1>5, <2>1
  <2>4. d[x].has <=> x # e /\ dk[x].has
    BY <1>3
  <2>5. dk[x].has <=> \E h \in Frames : fr[h].entry = x
    BY DEF PagesOk, MapExact
  <2> QED BY <2>2, <2>3, <2>4, <2>5
<1>9. OneUser(pt, g, ta)
  BY <1>2 DEF PagesOk, OneUser, Uses
<1>10. Writers(pt, g, sp)
  BY <1>2 DEF PagesOk, Writers, Shares
<1>11. MappedRight(pt, g, st, wa, ta, sp)
  BY <1>2 DEF PagesOk, MappedRight
<1>13. NamedRight(pt, g, st, wa, ta, sp)
  <2> SUFFICES ASSUME NEW m \in Mms, NEW x \in Entries \ ta, Names(pt, m, x), m \notin sp
               PROVE  /\ \A h \in Frames : g[h].entry = x /\ g[h].lock \notin Tasks => g[h].val = wa[m]
                      /\ x \in Comex \/ (\A h \in Frames : g[h].entry = x => ~g[h].dirty)
                            => st[x] = wa[m]
    BY DEF NamedRight
  <2>1. /\ \A h \in Frames : fr[h].entry = x /\ fr[h].lock \notin Tasks => fr[h].val = wa[m]
        /\ x \in Comex \/ (\A h \in Frames : fr[h].entry = x => ~fr[h].dirty)
              => st[x] = wa[m]
    BY DEF PagesOk, NamedRight
  <2>2. \A h \in Frames : g[h].entry = x => h # f /\ g[h] = fr[h]
    BY <1>2, <1>5, Kinds
  <2>3. (\A h \in Frames : g[h].entry = x => ~g[h].dirty)
           => \A h \in Frames : fr[h].entry = x => ~fr[h].dirty
    BY <1>2
  <2> QED BY <2>1, <2>2, <2>3
<1> QED BY <1>2, <1>6, <1>8, <1>9, <1>10, <1>11, <1>13 DEF PagesOk

LEMMA RemoveMappingKeeps ==
  ASSUME SwapInv, RemoveMapping
  PROVE  SwapInv'
<1>1. PICK f : f = rec.f
  OBVIOUS
<1>2. /\ rec # Idle /\ UNCHANGED <<pte, store, free, task, line, ghosts, ops>>
      /\ \/ /\ ~frame[f].dirty /\ frame[f].entry # None /\ PageCount(f) = 2
            /\ frame' = [frame EXCEPT ![f] = FreeFrame]
            /\ disk' = SwapcacheFree(disk, frame[f].entry)
            /\ rec' = Idle
         \/ PutBack(frame) /\ UNCHANGED disk
  BY <1>1, TaskKinds DEF RemoveMapping
<1>3. /\ f \in Frames /\ frame[f].used /\ Kswapd \in frame[f].pins
      /\ \A t \in Tasks : task[t].at = "copied" => task[t].new # f
  BY <1>1, <1>2, RecIs
<1>4. PagesOk(pte, frame, disk, store, want, tainted, spoilt)
  BY DEF SwapInv
<1>5. CASE /\ ~frame[f].dirty /\ frame[f].entry # None /\ PageCount(f) = 2
           /\ frame' = [frame EXCEPT ![f] = FreeFrame]
           /\ disk' = SwapcacheFree(disk, frame[f].entry)
           /\ rec' = Idle
  <2>1. PICK g, d : g = frame' /\ d = disk'
    OBVIOUS
  <2>2. \A m \in Mms : ~Maps(pte, m, f)
    BY <1>3, <1>5, TwoReferences
  <2>3. PagesOk(pte, g, d, store, want, tainted, spoilt)
    <3>1. g = [frame EXCEPT ![f] = FreeFrame] /\ d = SwapcacheFree(disk, frame[f].entry)
      BY <1>5, <2>1
    <3> QED BY <1>3, <1>4, <1>5, <2>2, <3>1, PageGoes
  <2>4. PICK i \in RecType : i = Idle
    BY DEF RecType
  <2>5. HandsOk(pte, g, task, i)
    <3>1. HandTypes(task, i)
      BY StateTypes DEF HandTypes
    <3>2. Reclaimed(g, i)
      BY <2>4, TaskKinds DEF Reclaimed
    <3>3. CopiesKept(pte, frame, g, task, task, i)
      <4> SUFFICES ASSUME NEW u \in Tasks, NEW h \in Frames, task[u].at = "copied", h = task[u].new
                   PROVE  /\ g[h].used /\ g[h].val = frame[h].val /\ g[h].entry = None
                          /\ g[h].lock = None /\ u \in g[h].pins
                          /\ \A m \in Mms : ~Maps(pte, m, h)
        BY <2>4, TaskKinds DEF CopiesKept
      <4>1. h # f /\ g[h] = frame[h]
        BY <1>3, <1>5, <2>1, StateTypes
      <4> QED BY <4>1, CopyIs
    <3>4. HandsOk(pte, frame, task, rec)
      BY DEF SwapInv
    <3> QED BY <3>1, <3>2, <3>3, <3>4, HandsKeep
  <2>6. frame' = g /\ disk' = d /\ rec' = i
    BY <1>5, <2>1, <2>4
  <2> QED BY <1>2, <2>3, <2>5, <2>6 DEF SwapInv, ghosts
<1>6. CASE PutBack(frame) /\ UNCHANGED disk
  <2>1. /\ PagesOk(pte, frame', disk, store, want, tainted, spoilt)
        /\ HandsOk(pte, frame', task, rec')
    BY <1>1, <1>2, <1>3, <1>4, <1>6, PutBackKeeps
  <2> QED BY <1>2, <1>6, <2>1 DEF SwapInv, ghosts
<1> QED BY <1>2, <1>5, <1>6

-----------------------------------------------------------------------------
(* A page table entry changes.                                             *)

(* What an address space has is dropped.                                   *)
SwapFreed(dk, d, p) ==
  (p.k = "swap" => d = SwapFree(dk, p.e)) /\ (p.k # "swap" => d = dk)

Forgets(wa, w2, m) == w2 = [wa EXCEPT ![m] = Zero]

LEMMA DropUser ==
  ASSUME NEW pt, NEW fr, NEW dk, NEW st, NEW wa, NEW ta, NEW sp, NEW m \in Mms,
         PagesOk(pt, fr, dk, st, wa, ta, sp),
         NEW q, OneEntry(pt, q, m, NoPte), NEW d, SwapFreed(dk, d, pt[m]),
         NEW w2, Forgets(wa, w2, m), NEW s2, s2 = sp \ {m}
  PROVE  /\ PagesOk(q, fr, d, st, w2, ta, s2)
         /\ \A n \in Mms, h \in Frames : Maps(q, n, h) => Maps(pt, n, h)
<1>1. /\ pt \in [Mms -> PteType] /\ dk \in [Disk -> DiskType] /\ wa \in [Mms -> Vals]
      /\ NoPte \in PteType /\ FrameForms(pt, fr) /\ pt[m] \in PteType
  BY PteKinds DEF PagesOk, PageTypes
<1>2. PICK p \in PteType : p = NoPte
  BY <1>1
<1>4. /\ q \in [Mms -> PteType] /\ q[m] = p
      /\ \A n \in Mms : n # m => /\ q[n] = pt[n]
                                 /\ \A e : Names(q, n, e) <=> Names(pt, n, e)
                                 /\ \A f : Maps(q, n, f) <=> Maps(pt, n, f)
  <2>1. q \in [Mms -> PteType] /\ q[m] = p /\ \A n \in Mms : n # m => q[n] = pt[n]
    BY <1>2 DEF OneEntry
  <2> QED BY <2>1 DEF Names, Maps
<1>5. \A e, f : ~Names(q, m, e) /\ ~Maps(q, m, f)
  BY <1>2, <1>4, PteKinds DEF Names, Maps
<1>6. /\ w2 \in [Mms -> Vals] /\ w2[m] = Zero /\ \A n \in Mms : n # m => w2[n] = wa[n]
  BY <1>1 DEF Vals, Forgets
<1>7. /\ \A n \in Mms : \A e : Names(q, n, e) => Names(pt, n, e) /\ n # m
      /\ \A n \in Mms : \A f : Maps(q, n, f) => Maps(pt, n, f) /\ n # m
  BY <1>4, <1>5
<1>8. /\ d \in [Disk -> DiskType]
      /\ \A e \in Disk : /\ pt[m] # SwapPte(e) => d[e] = dk[e]
                         /\ pt[m] = SwapPte(e) => /\ d[e].count = dk[e].count - 1
                                                  /\ d[e].has = dk[e].has
  <2>1. CASE pt[m].k # "swap"
    BY <1>1, <2>1, PteKinds DEF SwapFreed
  <2>2. CASE pt[m].k = "swap"
    <3>1. PICK x \in Entries : x = pt[m].e /\ pt[m] = SwapPte(x)
      BY <1>1, <2>2, PteKinds
    <3>2. d = SwapFree(dk, x) /\ \A e : pt[m] = SwapPte(e) <=> e = x
      BY <2>2, <3>1, PteKinds DEF SwapFreed
    <3>3. /\ d \in [Disk -> DiskType]
          /\ \A e \in Disk : /\ e # x => d[e] = dk[e]
                             /\ e = x => d[e].count = dk[e].count - 1 /\ d[e].has = dk[e].has
      BY <1>1, <3>2 DEF SwapFree, DiskType
    <3> QED BY <3>2, <3>3
  <2> QED BY <2>1, <2>2
<1>9. PageTypes(q, fr, d, st, w2, ta, s2)
  BY <1>4, <1>6, <1>8 DEF PagesOk, PageTypes
<1>10. FrameForms(q, fr)
  <2>1. \A n \in Mms : q[n].k = "map" /\ q[n].w => q[n].d
    BY <1>1, <1>2, <1>4, PteKinds DEF FrameForms
  <2> QED BY <1>1, <1>7, <2>1 DEF FrameForms
<1>11. MapExact(q, fr, d)
  <2> SUFFICES ASSUME NEW e \in Disk
               PROVE  /\ d[e].count = NameCount(q, e)
                      /\ d[e].has <=> \E f \in Frames : fr[f].entry = e
    BY DEF MapExact, NameCount
  <2>1. dk[e].count = NameCount(pt, e) /\ (dk[e].has <=> \E f \in Frames : fr[f].entry = e)
    BY Counted DEF PagesOk
  <2>2. /\ pt[m] # SwapPte(e) => NameCount(q, e) = NameCount(pt, e)
        /\ pt[m] = SwapPte(e) => NameCount(q, e) = NameCount(pt, e) - 1
    <3>1. p # SwapPte(e)
      BY <1>2, PteKinds
    <3>2. OneEntry(pt, q, m, p)
      BY <1>4 DEF OneEntry
    <3>3. /\ NameCount(pt, e) \in Nat /\ NameCount(q, e) \in Nat
          /\ pt[m] # SwapPte(e) /\ p # SwapPte(e) => NameCount(q, e) = NameCount(pt, e)
          /\ pt[m] = SwapPte(e) /\ p # SwapPte(e) =>
               NameCount(q, e) = NameCount(pt, e) - 1 /\ NameCount(pt, e) >= 1
      BY <3>2, NameCounts
    <3> QED BY <3>1, <3>3
  <2> QED BY <1>8, <2>1, <2>2
<1>12. OneUser(q, fr, ta)
  BY <1>7 DEF PagesOk, OneUser, Uses
<1>13. Writers(q, fr, s2)
  <2> SUFFICES ASSUME NEW n \in Mms, NEW f \in Frames, Maps(q, n, f), q[n].w,
                      NEW k \in Mms, Shares(q, fr, k, f)
               PROVE  k = n \/ {n, k} \subseteq s2
    BY DEF Writers
  <2>1. n # m /\ k # m /\ Maps(pt, n, f) /\ pt[n].w /\ Shares(pt, fr, k, f)
    BY <1>4, <1>7 DEF Shares
  <2>2. k = n \/ {n, k} \subseteq sp
    BY <2>1 DEF PagesOk, Writers
  <2> QED BY <2>1, <2>2
<1>14. MappedRight(q, fr, st, w2, ta, s2)
  BY <1>4, <1>6, <1>7 DEF PagesOk, MappedRight
<1>15. NamedRight(q, fr, st, w2, ta, s2)
  BY <1>6, <1>7 DEF PagesOk, NamedRight
<1>16. ZeroRight(q, w2)
  BY <1>4, <1>6 DEF PagesOk, ZeroRight
<1> QED BY <1>7, <1>9, <1>10, <1>11, <1>12, <1>13, <1>14, <1>15, <1>16 DEF PagesOk

(* A page of its own is mapped.                                            *)
LEMMA MapOwn ==
  ASSUME NEW pt, NEW fr, NEW dk, NEW st, NEW wa, NEW ta, NEW sp, NEW m \in Mms, NEW f \in Frames,
         PagesOk(pt, fr, dk, st, wa, ta, sp), pt[m].k # "swap",
         fr[f].used, fr[f].entry = None, fr[f].lock \notin Tasks,
         \A n \in Mms : ~Maps(pt, n, f), fr[f].val = wa[m] \/ m \in sp,
         NEW q, q = [pt EXCEPT ![m] = MapPte(f, TRUE)]
  PROVE  PagesOk(q, fr, dk, st, wa, ta, sp)
<1>1. pt \in [Mms -> PteType] /\ FrameForms(pt, fr)
  BY DEF PagesOk, PageTypes
<1>2. PICK p \in PteType : p = MapPte(f, TRUE)
  BY PteKinds
<1>3. q = [pt EXCEPT ![m] = p] /\ p.k = "map" /\ p.f = f /\ p.w = TRUE /\ p.d = TRUE
  BY <1>2, PteKinds DEF MapPte
<1>4. /\ q \in [Mms -> PteType] /\ q[m] = p
      /\ \A n \in Mms : n # m => /\ q[n] = pt[n]
                                 /\ \A e : Names(q, n, e) <=> Names(pt, n, e)
                                 /\ \A h : Maps(q, n, h) <=> Maps(pt, n, h)
  <2>1. q \in [Mms -> PteType] /\ q[m] = p /\ \A n \in Mms : n # m => q[n] = pt[n]
    BY <1>1, <1>3
  <2> QED BY <2>1 DEF Names, Maps
<1>5. \A n \in Mms : \A e : Names(q, n, e) <=> Names(pt, n, e)
  <2>0. q[m].k = "map" /\ pt[m].k # "swap"
    BY <1>3, <1>4
  <2>1. \A e : SwapPte(e).k = "swap"
    BY PteKinds
  <2>2. \A e : ~Names(q, m, e) /\ ~Names(pt, m, e)
    BY <2>0, <2>1 DEF Names
  <2> QED BY <1>4, <2>2
<1>6. /\ \A n \in Mms : \A h : Maps(q, n, h) => (n = m /\ h = f) \/ (n # m /\ h # f /\ Maps(pt, n, h))
      /\ Maps(q, m, f)
  <2>0. q[m].k = "map" /\ q[m].f = f
    BY <1>3, <1>4
  <2>1. \A h : Maps(q, m, h) <=> h = f
    BY <2>0 DEF Maps
  <2> QED BY <1>4, <2>1
<1>7. PageTypes(q, fr, dk, st, wa, ta, sp)
  BY <1>4 DEF PagesOk, PageTypes
<1>8. FrameForms(q, fr)
  <2>1. \A n \in Mms, h \in Frames : Maps(q, n, h) => fr[h].used /\ fr[h].lock \notin Tasks
    BY <1>1, <1>6 DEF FrameForms
  <2>2. \A n \in Mms : q[n].k = "map" /\ q[n].w => q[n].d
    BY <1>1, <1>3, <1>4 DEF FrameForms
  <2> QED BY <1>1, <2>1, <2>2 DEF FrameForms
<1>9. MapExact(q, fr, dk)
  <2> SUFFICES ASSUME NEW e \in Disk
               PROVE  {n \in Mms : Names(q, n, e)} = {n \in Mms : Names(pt, n, e)}
    BY DEF MapExact, PagesOk
  <2> QED BY <1>5
<1>10. OneUser(q, fr, ta)
  <2>1. \A n \in Mms, e \in Comex : Uses(q, fr, n, e) => Uses(pt, fr, n, e)
    BY <1>5, <1>6, Kinds DEF Uses
  <2> QED BY <2>1 DEF PagesOk, OneUser
<1>11. Writers(q, fr, sp)
  <2> SUFFICES ASSUME NEW n \in Mms, NEW h \in Frames, Maps(q, n, h), q[n].w,
                      NEW k \in Mms, Shares(q, fr, k, h)
               PROVE  k = n \/ {n, k} \subseteq sp
    BY DEF Writers
  <2>1. CASE h = f
    <3>1. Maps(q, k, f)
      BY <2>1, Kinds DEF Shares
    <3> QED BY <1>6, <2>1, <3>1
  <2>2. CASE h # f
    <3>1. n # m /\ Maps(pt, n, h) /\ pt[n].w /\ Shares(pt, fr, k, h)
      BY <1>4, <1>5, <1>6, <2>2 DEF Shares
    <3> QED BY <3>1 DEF PagesOk, Writers
  <2> QED BY <2>1, <2>2
<1>12. MappedRight(q, fr, st, wa, ta, sp)
  <2> SUFFICES ASSUME NEW n \in Mms, NEW h \in Frames, Maps(q, n, h), n \notin sp
               PROVE  /\ fr[h].val = wa[n]
                      /\ fr[h].entry \in Disk /\ ~fr[h].dirty /\ ~q[n].d => st[fr[h].entry] = wa[n]
                      /\ fr[h].entry \in Comex \ ta => st[fr[h].entry] = wa[n]
    BY DEF MappedRight
  <2>1. CASE n = m
    BY <1>6, <2>1, Kinds
  <2>2. CASE n # m
    BY <1>4, <2>2 DEF PagesOk, MappedRight
  <2> QED BY <2>1, <2>2
<1>13. NamedRight(q, fr, st, wa, ta, sp)
  BY <1>5 DEF PagesOk, NamedRight
<1>14. ZeroRight(q, wa)
  <2>1. q[m] \notin {NoPte, ZeroPte}
    BY <1>3, <1>4, PteKinds
  <2> QED BY <1>4, <2>1 DEF PagesOk, ZeroRight
<1> QED BY <1>7, <1>8, <1>9, <1>10, <1>11, <1>12, <1>13, <1>14 DEF PagesOk

(* Nobody else has the page: it is made writable.                          *)
Alone(pt, fr, m, f) == \A n \in Mms : Shares(pt, fr, n, f) => n = m

LEMMA MakeOwn ==
  ASSUME NEW pt, NEW fr, NEW dk, NEW st, NEW wa, NEW ta, NEW sp, NEW m \in Mms, NEW f \in Frames,
         PagesOk(pt, fr, dk, st, wa, ta, sp), Maps(pt, m, f), Alone(pt, fr, m, f),
         NEW q, OneEntry(pt, q, m, MapPte(f, TRUE))
  PROVE  /\ PagesOk(q, fr, dk, st, wa, ta, sp)
         /\ \A n \in Mms, h \in Frames : Maps(q, n, h) <=> Maps(pt, n, h)
<1>1. pt \in [Mms -> PteType] /\ FrameForms(pt, fr)
  BY DEF PagesOk, PageTypes
<1>2. PICK p \in PteType : p = MapPte(f, TRUE)
  BY PteKinds
<1>3. p.k = "map" /\ p.f = f /\ p.w = TRUE /\ p.d = TRUE
  BY <1>2, PteKinds DEF MapPte
<1>4. /\ q \in [Mms -> PteType] /\ q[m] = p
      /\ \A n \in Mms : n # m => /\ q[n] = pt[n]
                                 /\ \A e : Names(q, n, e) <=> Names(pt, n, e)
                                 /\ \A h : Maps(q, n, h) <=> Maps(pt, n, h)
  <2>1. q \in [Mms -> PteType] /\ q[m] = p /\ \A n \in Mms : n # m => q[n] = pt[n]
    BY <1>2 DEF OneEntry
  <2> QED BY <2>1 DEF Names, Maps
<1>5. \A n \in Mms : \A e : Names(q, n, e) <=> Names(pt, n, e)
  <2>1. \A e : ~Names(q, m, e) /\ ~Names(pt, m, e)
    BY <1>3, <1>4, PteKinds DEF Names, Maps
  <2> QED BY <1>4, <2>1
<1>6. \A n \in Mms, h \in Frames : Maps(q, n, h) <=> Maps(pt, n, h)
  <2>0. q[m].k = "map" /\ q[m].f = f
    BY <1>3, <1>4
  <2>1. \A h : Maps(q, m, h) <=> h = f
    BY <2>0 DEF Maps
  <2>2. \A h : Maps(pt, m, h) <=> h = f
    BY DEF Maps
  <2> QED BY <1>4, <2>1, <2>2
<1>7. PageTypes(q, fr, dk, st, wa, ta, sp)
  BY <1>4 DEF PagesOk, PageTypes
<1>8. FrameForms(q, fr)
  <2>2. \A n \in Mms : q[n].k = "map" /\ q[n].w => q[n].d
    BY <1>1, <1>3, <1>4 DEF FrameForms
  <2> QED BY <1>1, <1>6, <2>2 DEF FrameForms
<1>9. MapExact(q, fr, dk)
  <2> SUFFICES ASSUME NEW e \in Disk
               PROVE  {n \in Mms : Names(q, n, e)} = {n \in Mms : Names(pt, n, e)}
    BY DEF MapExact, PagesOk
  <2> QED BY <1>5
<1>10. OneUser(q, fr, ta)
  BY <1>5, <1>6 DEF PagesOk, OneUser, Uses
<1>11. Writers(q, fr, sp)
  <2> SUFFICES ASSUME NEW n \in Mms, NEW h \in Frames, Maps(q, n, h), q[n].w,
                      NEW k \in Mms, Shares(q, fr, k, h)
               PROVE  k = n \/ {n, k} \subseteq sp
    BY DEF Writers
  <2>1. Shares(pt, fr, k, h)
    BY <1>5, <1>6 DEF Shares
  <2>2. CASE n = m
    <3>1. h = f
      BY <1>6, <2>2 DEF Maps
    <3> QED BY <2>1, <2>2, <3>1 DEF Alone
  <2>3. CASE n # m
    BY <1>4, <2>1, <2>3 DEF PagesOk, Writers
  <2> QED BY <2>2, <2>3
<1>12. MappedRight(q, fr, st, wa, ta, sp)
  BY <1>3, <1>4, <1>6 DEF PagesOk, MappedRight
<1>13. NamedRight(q, fr, st, wa, ta, sp)
  BY <1>5 DEF PagesOk, NamedRight
<1>14. ZeroRight(q, wa)
  <2>1. q[m] \notin {NoPte, ZeroPte}
    BY <1>3, <1>4, PteKinds
  <2> QED BY <1>4, <2>1 DEF PagesOk, ZeroRight
<1> QED BY <1>6, <1>7, <1>8, <1>9, <1>10, <1>11, <1>12, <1>13, <1>14 DEF PagesOk

(* Frames and tasks are as they were.                                      *)
LEMMA HandsStay ==
  ASSUME SwapInv, NEW q, \A t \in Tasks, m \in Mms :
                            task[t].at = "copied" => ~Maps(q, m, task[t].new)
  PROVE  HandsOk(q, frame, task, rec)
<1>1. HandTypes(task, rec) /\ Reclaimed(frame, rec)
  BY DEF SwapInv, HandsOk
<1> QED BY <1>1, HandsUntouched

LEMMA ReadZero ==
  ASSUME SwapInv, NEW m \in Mms, pte[m] = NoPte, NEW q, q = [pte EXCEPT ![m] = ZeroPte]
  PROVE  /\ PagesOk(q, frame, disk, store, want, tainted, spoilt)
         /\ HandsOk(q, frame, task, rec)
<1>1. pte \in [Mms -> PteType] /\ PagesOk(pte, frame, disk, store, want, tainted, spoilt)
  BY StateTypes DEF SwapInv
<1>2. PICK p \in PteType : p = ZeroPte
  BY PteKinds
<1>3. q \in [Mms -> PteType] /\ q[m] = ZeroPte /\ \A n \in Mms : n # m => q[n] = pte[n]
  BY <1>1, <1>2
<1>4. /\ \A n \in Mms : \A e : Names(q, n, e) <=> Names(pte, n, e)
      /\ \A n \in Mms : \A h : Maps(q, n, h) <=> Maps(pte, n, h)
  <2>1. /\ \A e : SwapPte(e) # NoPte /\ SwapPte(e) # ZeroPte
        /\ NoPte.k # "map" /\ ZeroPte.k # "map"
    BY PteKinds
  <2> QED BY <1>3, <2>1 DEF Names, Maps
<1>5. \A n \in Mms : q[n].k = "map" => q[n] = pte[n]
  <2>1. ZeroPte.k # "map"
    BY PteKinds
  <2> QED BY <1>3, <2>1
<1>6. PageTypes(q, frame, disk, store, want, tainted, spoilt)
  BY <1>1, <1>3 DEF PagesOk, PageTypes
<1>7. FrameForms(q, frame)
  BY <1>1, <1>4, <1>5 DEF PagesOk, FrameForms
<1>8. MapExact(q, frame, disk)
  <2> SUFFICES ASSUME NEW e \in Disk
               PROVE  {n \in Mms : Names(q, n, e)} = {n \in Mms : Names(pte, n, e)}
    BY <1>1 DEF MapExact, PagesOk
  <2> QED BY <1>4
<1>9. OneUser(q, frame, tainted)
  BY <1>1, <1>4 DEF PagesOk, OneUser, Uses
<1>10. Writers(q, frame, spoilt)
  <2>1. /\ \A n \in Mms, f \in Frames : Shares(q, frame, n, f) <=> Shares(pte, frame, n, f)
        /\ \A n \in Mms, f \in Frames : Maps(q, n, f) /\ q[n].w => Maps(pte, n, f) /\ pte[n].w
    BY <1>4, <1>5 DEF Shares, Maps
  <2> QED BY <1>1, <2>1 DEF PagesOk, Writers
<1>11. MappedRight(q, frame, store, want, tainted, spoilt)
  <2>1. \A n \in Mms, f \in Frames : Maps(q, n, f) => Maps(pte, n, f) /\ q[n] = pte[n]
    BY <1>4, <1>5 DEF Maps
  <2> QED BY <1>1, <2>1 DEF PagesOk, MappedRight
<1>12. NamedRight(q, frame, store, want, tainted, spoilt)
  BY <1>1, <1>4 DEF PagesOk, NamedRight
<1>13. ZeroRight(q, want)
  BY <1>1, <1>3 DEF PagesOk, ZeroRight
<1>14. HandsOk(q, frame, task, rec)
  BY <1>4, CopyIs, HandsStay
<1> QED BY <1>6, <1>7, <1>8, <1>9, <1>10, <1>11, <1>12, <1>13, <1>14 DEF PagesOk

LEMMA DoAnonymousPageKeeps ==
  ASSUME SwapInv, NEW m \in Mms, DoAnonymousPage(m)
  PROVE  SwapInv'
<1>1. /\ pte[m] = NoPte /\ UNCHANGED <<swap, task, rec, line, ghosts, ops>>
      /\ \/ pte' = [pte EXCEPT ![m] = ZeroPte] /\ UNCHANGED frame
         \/ \E f \in Frames :
               /\ FreshFrame(f)
               /\ pte' = [pte EXCEPT ![m] = MapPte(f, TRUE)]
               /\ frame' = [frame EXCEPT ![f] = [NewFrame(None, m, Zero) EXCEPT !.pins = {}]]
  BY DEF DoAnonymousPage
<1>2. PICK q : q = pte'
  OBVIOUS
<1>3. CASE q = [pte EXCEPT ![m] = ZeroPte] /\ UNCHANGED frame
  <2>1. /\ PagesOk(q, frame, disk, store, want, tainted, spoilt)
        /\ HandsOk(q, frame, task, rec)
    BY <1>1, <1>3, ReadZero
  <2> QED BY <1>1, <1>2, <1>3, <2>1 DEF SwapInv, swap, ghosts
<1>4. ASSUME NEW f \in Frames, FreshFrame(f), q = [pte EXCEPT ![m] = MapPte(f, TRUE)],
             frame' = [frame EXCEPT ![f] = [NewFrame(None, m, Zero) EXCEPT !.pins = {}]]
      PROVE  SwapInv'
  <2>1. /\ frame[f] = FreeFrame /\ \A n \in Mms : ~Maps(pte, n, f)
        /\ \A t \in Tasks : task[t].at = "copied" => task[t].new # f
        /\ rec = Idle \/ rec.f # f
    BY <1>4, Fresh
  <2>2. PICK y : y = [NewFrame(None, m, Zero) EXCEPT !.pins = {}]
    OBVIOUS
  <2>3. /\ y \in FrameType /\ y.used /\ y.val = Zero /\ ~y.dirty /\ ~y.wb /\ y.entry = None
        /\ y.lock = None /\ y.pins = {}
    BY <2>2 DEF NewFrame, FreeFrame, FrameType, Vals
  <2>4. PICK g : g = [frame EXCEPT ![f] = y]
    OBVIOUS
  <2>5. g \in [Frames -> FrameType] /\ g[f] = y /\ \A h \in Frames : h # f => g[h] = frame[h]
    BY <2>3, <2>4, StateTypes
  <2>6. PagesOk(pte, g, disk, store, want, tainted, spoilt)
    <3>1. frame[f].entry = None /\ y.lock \notin Tasks
      BY <2>1, <2>3, FreeFrames, Kinds
    <3>2. PagesOk(pte, frame, disk, store, want, tainted, spoilt)
      BY DEF SwapInv
    <3> QED BY <2>1, <2>3, <2>5, <3>1, <3>2, UnseenKeeps
  <2>7. PagesOk(q, g, disk, store, want, tainted, spoilt)
    <3>1. pte[m].k # "swap" /\ want[m] = Zero
      BY <1>1, PteKinds DEF SwapInv, PagesOk, ZeroRight
    <3>2. /\ g[f].used /\ g[f].entry = None /\ g[f].lock \notin Tasks
          /\ g[f].val = want[m] \/ m \in spoilt
      BY <2>3, <2>5, <3>1, Kinds
    <3> QED BY <1>4, <2>1, <2>6, <3>1, <3>2, MapOwn
  <2>8. HandsOk(q, g, task, rec)
    <3>1. HandTypes(task, rec)
      BY StateTypes DEF HandTypes
    <3>2. \A t \in Tasks : task[t].at = "copied" => g[task[t].new] = frame[task[t].new]
      BY <2>1, <2>5, CopyIs
    <3>3. \A n \in Mms, h \in Frames : Maps(q, n, h) => h = f \/ Maps(pte, n, h)
      <4>1. q[m] = MapPte(f, TRUE) /\ \A n \in Mms : n # m => q[n] = pte[n]
        BY <1>4, StateTypes
      <4>2. MapPte(f, TRUE).f = f
        BY PteKinds
      <4> QED BY <4>1, <4>2 DEF Maps
    <3>4. \A t \in Tasks, n \in Mms : task[t].at = "copied" => ~Maps(q, n, task[t].new)
      BY <2>1, <3>3, CopyIs
    <3>5. rec = Idle \/ rec.f \in Frames
      BY StateTypes, TaskKinds
    <3>6. Reclaimed(g, rec)
      BY <2>1, <2>5, <3>5, ReclaimedUntouched
    <3> QED BY <3>1, <3>2, <3>4, <3>6, HandsUntouched
  <2>9. frame' = g
    BY <1>4, <2>2, <2>4
  <2> QED BY <1>1, <1>2, <2>7, <2>8, <2>9 DEF SwapInv, swap, ghosts
<1> QED BY <1>1, <1>2, <1>3, <1>4

(* A page leaves the cache while it is not locked: nobody's copy and not     *)
(* the page that the reclaimer has locked.                                  *)
LEMMA HandsLeft ==
  ASSUME SwapInv, NEW q, NEW f \in Frames, NEW g, g \in [Frames -> FrameType],
         \A t \in Tasks, m \in Mms : task[t].at = "copied" => ~Maps(q, m, task[t].new),
         LeftCache(frame, g, f), g = frame \/ frame[f].lock = None
  PROVE  HandsOk(q, g, task, rec)
<1>1. CASE g = frame
  BY <1>1, HandsStay
<1>2. CASE g # frame
  <2>1. /\ frame[f].lock = None /\ frame[f].entry # None
        /\ g[f] = [frame[f] EXCEPT !.entry = None, !.dirty = TRUE]
        /\ \A h \in Frames : h # f => g[h] = frame[h]
    BY <1>2 DEF LeftCache
  <2>2. g[f].pins = frame[f].pins
    BY <2>1, StateTypes DEF FrameType
  <2>3. HandTypes(task, rec)
    BY StateTypes DEF HandTypes
  <2>4. \A t \in Tasks : task[t].at = "copied" => g[task[t].new] = frame[task[t].new]
    BY <2>1, CopyIs
  <2>5. Reclaimed(g, rec)
    <3>1. rec = Idle \/ rec.f \in Frames
      BY StateTypes, TaskKinds
    <3>2. Reclaimed(frame, rec)
      BY DEF SwapInv, HandsOk
    <3>3. CASE rec # Idle /\ rec.f = f
      <4>1. rec.at = "sent" /\ Kswapd \in frame[f].pins
        BY <2>1, <3>2, <3>3, Kinds, StateTypes, TaskKinds DEF Reclaimed
      <4> QED BY <2>2, <3>3, <4>1 DEF Reclaimed
    <3>4. CASE rec = Idle \/ rec.f # f
      BY <2>1, <3>1, <3>4, ReclaimedUntouched
    <3> QED BY <3>3, <3>4
  <2> QED BY <2>3, <2>4, <2>5, HandsUntouched
<1> QED BY <1>1, <1>2

(* Who may have the page to himself.                                       *)
LEMMA ReuseAlone ==
  ASSUME SwapInv, NEW f \in Frames, ReuseSwapPage(f)
  PROVE  /\ MapCount(f) <= 1
         /\ frame[f].entry \in Disk => MapCount(f) + disk[frame[f].entry].count <= 1
         /\ ReuseCount(f) = 1 /\ frame[f].entry \in Disk =>
              MapCount(f) + disk[frame[f].entry].count = 1
<1>1. MapCount(f) \in Nat
  BY MapCounts
<1>2. \A e \in Disk : disk[e].count \in Nat /\ disk[e].count = NameCount(pte, e)
  <2>1. \A e \in Disk : disk[e].count = NameCount(pte, e)
    BY Counted DEF SwapInv, PagesOk
  <2>2. \A e \in Disk : NameCount(pte, e) \in Nat
    BY MmsCount DEF NameCount
  <2> QED BY <2>1, <2>2
<1>3. CASE MapCount(f) <= 1 /\ frame[f].entry # None
  <2>1. ReuseCount(f) = MapCount(f) + SwapCount(frame[f].entry)
    BY <1>3 DEF ReuseCount
  <2>2. frame[f].entry \in Disk => SwapCount(frame[f].entry) = disk[frame[f].entry].count
    BY DEF SwapCount
  <2> QED BY <1>1, <1>2, <1>3, <2>1, <2>2 DEF ReuseSwapPage
<1>4. CASE ~(MapCount(f) <= 1 /\ frame[f].entry # None)
  <2>1. ReuseCount(f) = MapCount(f)
    BY <1>4 DEF ReuseCount
  <2> QED BY <1>1, <1>4, <2>1, Kinds DEF ReuseSwapPage
<1> QED BY <1>3, <1>4

LEMMA AfterReuseKeeps ==
  ASSUME SwapInv, NEW f \in Frames, ReuseSwapPage(f), frame[f].lock = None, NEW m \in Mms,
         Maps(pte, m, f), NEW r, r = AfterReuse(f)
  PROVE  /\ PagesOk(pte, r.fr, r.dk, store, want, tainted, spoilt)
         /\ LeftCache(frame, r.fr, f)
<1>1. PagesOk(pte, frame, disk, store, want, tainted, spoilt) /\ frame[f].lock \notin Tasks
  BY Kinds DEF SwapInv
<1>2. CASE r = [fr |-> frame, dk |-> disk]
  BY <1>1, <1>2 DEF LeftCache
<1>3. CASE /\ ReuseCount(f) = 1 /\ frame[f].entry # None /\ ~frame[f].wb
           /\ r = [fr |-> DeleteFromSwapCache(frame, f), dk |-> SwapcacheFree(disk, frame[f].entry)]
  <2>1. frame[f].entry \in Disk => disk[frame[f].entry].count = 0
    <3>1. frame[f].entry \in Disk => MapCount(f) + disk[frame[f].entry].count = 1
      BY <1>3, ReuseAlone
    <3>2. MapCount(f) \in Nat /\ MapCount(f) # 0
      BY MapCounts
    <3>3. \A e \in Disk : disk[e].count \in Nat
      <4>1. \A e \in Disk : disk[e].count = NameCount(pte, e)
        BY Counted DEF SwapInv, PagesOk
      <4> QED BY <4>1, MmsCount DEF NameCount
    <3>4. SUFFICES ASSUME frame[f].entry \in Disk PROVE disk[frame[f].entry].count = 0
      OBVIOUS
    <3>5. PICK k \in Nat : k = disk[frame[f].entry].count
      BY <3>3, <3>4
    <3>6. PICK n \in Nat : n = MapCount(f)
      BY <3>2
    <3> QED BY <3>1, <3>2, <3>4, <3>5, <3>6
  <2>2. PICK g, d : g = DeleteFromSwapCache(frame, f) /\ d = SwapcacheFree(disk, frame[f].entry)
    OBVIOUS
  <2>3. r.fr = g /\ r.dk = d
    BY <1>3, <2>2
  <2>4. PagesOk(pte, g, d, store, want, tainted, spoilt)
    BY <1>1, <1>3, <2>1, <2>2, DecacheKeeps
  <2>5. /\ \A h \in Frames : h # f => g[h] = frame[h]
        /\ g[f] = [frame[f] EXCEPT !.entry = None, !.dirty = TRUE]
    BY <2>2, StateTypes DEF DeleteFromSwapCache, FrameType
  <2> QED BY <1>3, <2>3, <2>4, <2>5 DEF LeftCache
<1> QED BY <1>2, <1>3 DEF AfterReuse

Rooted(fr, g, f, p, k) == g = [fr EXCEPT ![f].pins = p, ![f].root = k]

LEMMA RootSet ==
  ASSUME NEW pt, NEW fr, NEW dk, NEW st, NEW wa, NEW ta, NEW sp, NEW f \in Frames,
         NEW p \in SUBSET Actors, NEW k \in Mms \cup {None},
         PagesOk(pt, fr, dk, st, wa, ta, sp), fr[f].used,
         NEW g, Rooted(fr, g, f, p, k)
  PROVE  /\ PagesOk(pt, g, dk, st, wa, ta, sp)
         /\ g[f].pins = p /\ g[f].lock = fr[f].lock /\ g[f].entry = fr[f].entry
         /\ g[f].wb = fr[f].wb /\ g[f].used
         /\ \A h \in Frames : h # f => g[h] = fr[h]
<1>1. fr \in [Frames -> FrameType] /\ fr[f] \in FrameType
  BY DEF PagesOk, PageTypes
<1>2. PICK y : y = [fr[f] EXCEPT !.pins = p, !.root = k]
  OBVIOUS
<1>3. /\ y \in FrameType /\ y.used = fr[f].used /\ y.val = fr[f].val /\ y.dirty = fr[f].dirty
      /\ y.wb = fr[f].wb /\ y.entry = fr[f].entry /\ y.lock = fr[f].lock /\ y.pins = p
  BY <1>1, <1>2 DEF FrameType
<1>4. g \in [Frames -> FrameType] /\ g[f] = y /\ \A h \in Frames : h # f => g[h] = fr[h]
  BY <1>1, <1>2, <1>3 DEF Rooted
<1>5. \A h \in Frames : Quiet(fr[h], g[h])
  BY <1>3, <1>4 DEF Quiet, LockSame
<1> QED BY <1>3, <1>4, <1>5, QuietKeeps

LEMMA WpReuseKeeps ==
  ASSUME SwapInv, NEW m \in Mms, WpReuse(m)
  PROVE  SwapInv'
<1>1. PICK f \in Frames : f = pte[m].f /\ Maps(pte, m, f)
  BY StateTypes, PteKinds DEF WpReuse, MapPtes, Maps
<1>2. PICK r : r = AfterReuse(f)
  OBVIOUS
<1>3. /\ frame[f].lock = None /\ ReuseSwapPage(f)
      /\ pte' = [pte EXCEPT ![m] = MapPte(f, TRUE)]
      /\ frame' = [r.fr EXCEPT ![f].root = m]
      /\ disk' = r.dk
      /\ UNCHANGED <<store, free, task, rec, line, ghosts, ops>>
  BY <1>1, <1>2 DEF WpReuse
<1>4. PICK fr, dk : fr = r.fr /\ dk = r.dk
  OBVIOUS
<1>5. PagesOk(pte, fr, dk, store, want, tainted, spoilt) /\ LeftCache(frame, fr, f)
  BY <1>1, <1>2, <1>3, <1>4, AfterReuseKeeps
<1>6. fr \in [Frames -> FrameType] /\ fr[f] \in FrameType /\ fr[f].used
  BY <1>1, <1>5 DEF PagesOk, PageTypes, FrameForms
<1>7. PICK q : q = pte'
  OBVIOUS
<1>8. /\ PagesOk(q, fr, dk, store, want, tainted, spoilt)
      /\ \A n \in Mms, h \in Frames : Maps(q, n, h) <=> Maps(pte, n, h)
  <2>1. Alone(pte, fr, m, f)
    <3> SUFFICES ASSUME NEW n \in Mms, Shares(pte, fr, n, f) PROVE n = m
      BY DEF Alone
    <3>1. MapCount(f) <= 1
      BY <1>3, ReuseAlone
    <3>2. CASE Maps(pte, n, f)
      BY <1>1, <3>1, <3>2, MapCounts
    <3>3. CASE \E e \in Disk : fr[f].entry = e /\ Names(pte, n, e)
      <4>1. PICK e \in Disk : fr[f].entry = e /\ Names(pte, n, e)
        BY <3>3
      <4>2. frame[f].entry = e
        BY <1>5, <4>1, Kinds, StateTypes DEF LeftCache, FrameType
      <4>3. MapCount(f) + disk[e].count <= 1
        BY <1>3, <4>2, ReuseAlone
      <4>4. disk[e].count = NameCount(pte, e) /\ NameCount(pte, e) \in Nat /\ NameCount(pte, e) # 0
        <5>1. disk[e].count = NameCount(pte, e) /\ disk[e].count # 0
          BY <4>1, Counted DEF SwapInv, PagesOk
        <5> QED BY <5>1, MmsCount DEF NameCount
      <4>5. MapCount(f) \in Nat /\ MapCount(f) # 0
        BY <1>1, MapCounts
      <4>6. PICK a \in Nat, b \in Nat : a = MapCount(f) /\ b = NameCount(pte, e)
        BY <4>4, <4>5
      <4>7. FALSE
        BY <4>3, <4>4, <4>5, <4>6
      <4> QED BY <4>7
    <3> QED BY <3>2, <3>3 DEF Shares
  <2>2. OneEntry(pte, q, m, MapPte(f, TRUE))
    <3>1. MapPte(f, TRUE) \in PteType
      BY PteKinds
    <3> QED BY <1>3, <1>7, <3>1, StateTypes DEF OneEntry
  <2>3. Maps(pte, m, f) /\ PagesOk(pte, fr, dk, store, want, tainted, spoilt)
    BY <1>1, <1>5
  <2> QED BY <2>1, <2>2, <2>3, MakeOwn
<1>9. PICK p \in SUBSET Actors : p = fr[f].pins
  BY <1>6 DEF FrameType
<1>10. PICK g : g = [fr EXCEPT ![f].pins = p, ![f].root = m]
  OBVIOUS
<1>11. frame' = g
  <2>1. frame' = [fr EXCEPT ![f].root = m]
    BY <1>3, <1>4
  <2>2. [fr[f] EXCEPT !.root = m] = [fr[f] EXCEPT !.pins = p, !.root = m]
    BY <1>6, <1>9 DEF FrameType
  <2> QED BY <1>6, <1>10, <2>1, <2>2
<1>12. /\ PagesOk(q, g, dk, store, want, tainted, spoilt)
       /\ g[f].pins = p /\ g[f].lock = fr[f].lock /\ g[f].entry = fr[f].entry
       /\ g[f].wb = fr[f].wb /\ g[f].used
       /\ \A h \in Frames : h # f => g[h] = fr[h]
  <2>1. PICK k \in Mms \cup {None} : k = m
    OBVIOUS
  <2>2. fr[f].used /\ Rooted(fr, g, f, p, k)
    BY <1>6, <1>10, <2>1 DEF Rooted
  <2>3. PagesOk(q, fr, dk, store, want, tainted, spoilt)
    BY <1>8
  <2> QED BY <2>2, <2>3, RootSet
<1>13. HandsOk(q, g, task, rec)
  <2>1. \A t \in Tasks, n \in Mms : task[t].at = "copied" => ~Maps(q, n, task[t].new)
    BY <1>8, CopyIs
  <2>2. HandsOk(q, fr, task, rec)
    BY <1>3, <1>5, <1>6, <2>1, HandsLeft
  <2>3. CopiesKept(q, fr, g, task, task, rec)
    <3> SUFFICES ASSUME NEW u \in Tasks, NEW h \in Frames, task[u].at = "copied", h = task[u].new
                 PROVE  /\ g[h].used /\ g[h].val = fr[h].val /\ g[h].entry = None
                        /\ g[h].lock = None /\ u \in g[h].pins
                        /\ \A n \in Mms : ~Maps(q, n, h)
                        /\ rec = Idle \/ rec.f # h
      BY DEF CopiesKept
    <3>1. h # f
      BY <1>1, CopyIs
    <3>2. g[h] = fr[h]
      BY <1>12, <3>1
    <3> QED BY <2>2, <3>2 DEF HandsOk, Copies
  <2>4. Reclaimed(g, rec)
    <3>1. rec = Idle \/ rec.f \in Frames
      BY StateTypes, TaskKinds
    <3>2. Reclaimed(fr, rec)
      BY <2>2 DEF HandsOk
    <3>3. CASE rec # Idle /\ rec.f = f
      BY <1>9, <1>12, <3>2, <3>3 DEF Reclaimed
    <3>4. CASE rec # Idle /\ rec.f # f
      <4>1. g[rec.f] = fr[rec.f]
        BY <1>12, <3>1, <3>4
      <4> QED BY <3>2, <4>1 DEF Reclaimed
    <3>5. CASE rec = Idle
      BY <3>5, TaskKinds DEF Reclaimed
    <3> QED BY <3>3, <3>4, <3>5
  <2>5. HandTypes(task, rec)
    BY StateTypes DEF HandTypes
  <2> QED BY <2>2, <2>3, <2>4, <2>5, HandsKeep
<1> QED BY <1>3, <1>4, <1>7, <1>11, <1>12, <1>13 DEF SwapInv, ghosts

LEMMA WpCopiedKeeps ==
  ASSUME SwapInv, NEW t \in Tasks, WpCopied(t)
  PROVE  SwapInv'
<1>1. PICK m, new, a : m = task[t].m /\ new = task[t].new /\ a = task[t]
  OBVIOUS
<1>2. PICK u : u = [f \in Frames |-> [frame[f] EXCEPT !.pins = @ \ {t}]]
  OBVIOUS
<1>3. PICK q, sq : q = pte' /\ sq = spoilt'
  OBVIOUS
<1>4. /\ a.at = "copied"
      /\ q = IF pte[m] = a.orig THEN [pte EXCEPT ![m] = MapPte(new, TRUE)] ELSE pte
      /\ frame' = Released(u, q)
      /\ sq = IF pte[m] = a.orig /\ pte[m].k = "map" /\ frame[pte[m].f].val # frame[new].val
              THEN spoilt \cup {m} ELSE spoilt
      /\ task' = [task EXCEPT ![t] = Idle]
      /\ UNCHANGED <<swap, rec, line, want, tainted, ops>>
  BY <1>1, <1>2, <1>3 DEF WpCopied, PteSame
<1>5. m \in Mms /\ new \in Frames /\ a.orig \in {ZeroPte} \cup MapPtes
  BY <1>1, <1>4, TaskKinds, StateTypes
<1>6. /\ frame[new].used /\ t \in frame[new].pins
      /\ frame[new].entry = None /\ frame[new].lock = None
      /\ \A n \in Mms : ~Maps(pte, n, new)
      /\ rec = Idle \/ rec.f # new
      /\ a.orig = ZeroPte => frame[new].val = Zero
  BY <1>1, <1>4, CopyIs
<1>7. PagesOk(q, frame, disk, store, want, tainted, sq)
  <2>0. PagesOk(pte, frame, disk, store, want, tainted, spoilt) /\ pte[m] \in PteType
    BY <1>5, StateTypes DEF SwapInv
  <2>1. PagesOk(pte, frame, disk, store, want, tainted, sq)
    <3>1. tainted \subseteq tainted /\ tainted \subseteq Comex /\ spoilt \subseteq sq /\ sq \subseteq Mms
      BY <1>4, <1>5, StateTypes
    <3> QED BY <2>0, <3>1, GhostsGrow
  <2>2. CASE pte[m] # a.orig
    BY <1>4, <2>1, <2>2
  <2>3. CASE pte[m] = a.orig
    <3>1. pte[m].k # "swap" /\ (pte[m] = ZeroPte \/ pte[m].k = "map")
      BY <1>5, <2>3, PteKinds DEF MapPtes
    <3>2. frame[new].val = want[m] \/ m \in sq
      <4>1. CASE pte[m] = ZeroPte
        <5>1. want[m] = Zero
          BY <1>5, <2>0, <4>1 DEF PagesOk, ZeroRight
        <5> QED BY <1>6, <2>3, <4>1, <5>1
      <4>2. CASE pte[m].k = "map" /\ m \notin sq
        <5>1. PICK f \in Frames : f = pte[m].f /\ Maps(pte, m, f)
          BY <2>0, <4>2, PteKinds DEF MapPtes, Maps
        <5>2. frame[f].val = frame[new].val /\ m \notin spoilt
          BY <1>4, <2>3, <4>2, <5>1
        <5> QED BY <1>5, <2>0, <5>1, <5>2 DEF PagesOk, MappedRight
      <4> QED BY <3>1, <4>1, <4>2
    <3>3. frame[new].lock \notin Tasks
      BY <1>6, Kinds
    <3>4. q = [pte EXCEPT ![m] = MapPte(new, TRUE)]
      BY <1>4, <2>3
    <3> QED BY <1>5, <1>6, <2>1, <3>1, <3>2, <3>3, <3>4, MapOwn
  <2> QED BY <2>2, <2>3
<1>8. \A n \in Mms : \A h : Maps(q, n, h) => h = new \/ Maps(pte, n, h)
  <2>1. CASE q = pte
    BY <2>1
  <2>2. CASE q = [pte EXCEPT ![m] = MapPte(new, TRUE)]
    <3>1. q[m] = MapPte(new, TRUE) /\ \A n \in Mms : n # m => q[n] = pte[n]
      BY <1>5, <2>2, StateTypes
    <3>2. MapPte(new, TRUE).f = new
      BY PteKinds
    <3> QED BY <3>1, <3>2 DEF Maps
  <2> QED BY <1>4, <2>1, <2>2
<1>9. /\ u \in [Frames -> FrameType]
      /\ \A f \in Frames :
           /\ u[f].pins = frame[f].pins \ {t}
           /\ u[f].used = frame[f].used /\ u[f].val = frame[f].val /\ u[f].dirty = frame[f].dirty
           /\ u[f].wb = frame[f].wb /\ u[f].entry = frame[f].entry /\ u[f].lock = frame[f].lock
           /\ frame[f].pins = {} => u[f] = frame[f]
  <2>1. ASSUME NEW f \in Frames
        PROVE  /\ u[f] \in FrameType
               /\ u[f].pins = frame[f].pins \ {t}
               /\ u[f].used = frame[f].used /\ u[f].val = frame[f].val
               /\ u[f].dirty = frame[f].dirty /\ u[f].wb = frame[f].wb
               /\ u[f].entry = frame[f].entry /\ u[f].lock = frame[f].lock
               /\ frame[f].pins = {} => u[f] = frame[f]
    <3>1. PICK x \in FrameType : x = frame[f] /\ x.pins \subseteq Actors
      BY StateTypes
    <3>2. PICK p \in SUBSET Actors : p = x.pins \ {t}
      BY <3>1
    <3>3. PICK y : y = [x EXCEPT !.pins = p]
      OBVIOUS
    <3>4. /\ y \in FrameType /\ y.pins = p /\ y.used = x.used /\ y.val = x.val
          /\ y.dirty = x.dirty /\ y.wb = x.wb /\ y.entry = x.entry /\ y.lock = x.lock
          /\ (p = x.pins => y = x)
      BY <3>3 DEF FrameType
    <3>5. u[f] = y
      BY <1>2, <3>1, <3>2, <3>3
    <3> QED BY <3>1, <3>2, <3>4, <3>5
  <2>2. u \in [Frames -> FrameType]
    <3>1. u = [f \in Frames |-> u[f]]
      BY <1>2
    <3> QED BY <2>1, <3>1
  <2> QED BY <2>1, <2>2
<1>10. PagesOk(q, u, disk, store, want, tainted, sq)
  <2>1. \A f \in Frames : Quiet(frame[f], u[f])
    <3> SUFFICES ASSUME NEW f \in Frames PROVE Quiet(frame[f], u[f])
      OBVIOUS
    <3>1. CASE frame[f].used
      BY <1>9, <3>1 DEF Quiet, LockSame
    <3>2. CASE ~frame[f].used
      <4>1. frame[f].pins = {}
        BY <3>2, FreeFrames DEF SwapInv, PagesOk, FrameForms
      <4> QED BY <1>9, <4>1 DEF Quiet
    <3> QED BY <3>1, <3>2
  <2> QED BY <1>7, <1>9, <2>1, QuietKeeps
<1>11. PICK i \in TaskType : i = Idle
  BY DEF TaskType
<1>12. PICK tk : tk = task'
  OBVIOUS
<1>13. tk \in [Tasks -> TaskType] /\ tk[t] = Idle /\ \A w \in Tasks : w # t => tk[w] = task[w]
  BY <1>4, <1>11, <1>12, StateTypes
<1>14. HandsOk(q, u, tk, rec)
  <2>1. HandTypes(tk, rec)
    BY <1>13, StateTypes DEF HandTypes
  <2>2. CopiesKept(q, frame, u, task, tk, rec)
    <3> SUFFICES ASSUME NEW w \in Tasks, NEW h \in Frames, tk[w].at = "copied", h = tk[w].new
                 PROVE  /\ tk[w] = task[w]
                        /\ u[h].used /\ u[h].val = frame[h].val /\ u[h].entry = None
                        /\ u[h].lock = None /\ w \in u[h].pins
                        /\ \A n \in Mms : ~Maps(q, n, h)
                        /\ rec = Idle \/ rec.f # h
      BY <1>13, TaskKinds DEF CopiesKept
    <3>1. w # t /\ tk[w] = task[w]
      BY <1>13, TaskKinds
    <3>2. /\ frame[h].used /\ w \in frame[h].pins /\ frame[h].entry = None
          /\ frame[h].lock = None /\ \A n \in Mms : ~Maps(pte, n, h)
          /\ rec = Idle \/ rec.f # h
      BY <3>1, CopyIs
    <3>3. h # new
      BY <1>1, <1>4, <3>1 DEF SwapInv, HandsOk, Copies
    <3> QED BY <1>8, <1>9, <3>1, <3>2, <3>3
  <2>3. Reclaimed(u, rec)
    <3>1. rec = Idle \/ rec.f \in Frames
      BY StateTypes, TaskKinds
    <3>2. Reclaimed(frame, rec)
      BY DEF SwapInv, HandsOk
    <3>3. CASE rec = Idle
      BY <3>3, TaskKinds DEF Reclaimed
    <3>4. CASE rec # Idle
      <4>1. Kswapd \in u[rec.f].pins
        BY <1>9, <3>1, <3>2, <3>4, Kinds DEF Reclaimed
      <4> QED BY <1>9, <3>1, <3>2, <3>4, <4>1 DEF Reclaimed
    <3> QED BY <3>3, <3>4
  <2>4. HandsOk(pte, frame, task, rec)
    BY DEF SwapInv
  <2> QED BY <2>1, <2>2, <2>3, <2>4, HandsKeep
<1>15. /\ PagesOk(q, Released(u, q), disk, store, want, tainted, sq)
       /\ HandsOk(q, Released(u, q), tk, rec)
  BY <1>10, <1>14, ReleaseKeeps
<1>16. FaultsAlive(tk, line)
  BY <1>13 DEF SwapInv, FaultsAlive
<1> QED BY <1>3, <1>4, <1>12, <1>15, <1>16 DEF SwapInv, swap

(* What a process gives up.                                                *)

LEMMA DroppedHands ==
  ASSUME SwapInv, NEW q, \A n \in Mms, h \in Frames : Maps(q, n, h) => Maps(pte, n, h)
  PROVE  \A t \in Tasks, m \in Mms : task[t].at = "copied" => ~Maps(q, m, task[t].new)
BY CopyIs

Dropped(q, d, w2, s2, m) ==
  /\ PagesOk(q, frame, d, store, w2, tainted, s2)
  /\ \A n \in Mms, h \in Frames : Maps(q, n, h) => Maps(pte, n, h)

LEMMA ZapKeeps ==
  ASSUME SwapInv, NEW m \in Mms, Zap(m)
  PROVE  SwapInv'
<1>1. PICK q, w2, s2 : q = pte' /\ w2 = want' /\ s2 = spoilt'
  OBVIOUS
<1>2. /\ pte[m] # NoPte /\ q = [pte EXCEPT ![m] = NoPte]
      /\ w2 = [want EXCEPT ![m] = Zero] /\ s2 = spoilt \ {m}
      /\ UNCHANGED <<store, task, rec, line>>
  BY <1>1 DEF Zap, ZapPteRange
<1>3. pte[m] \in PteType /\ PagesOk(pte, frame, disk, store, want, tainted, spoilt)
  BY StateTypes DEF SwapInv
<1>4. ASSUME NEW d, SwapFreed(disk, d, pte[m])
      PROVE  Dropped(q, d, w2, s2, m)
  <2>1. OneEntry(pte, q, m, NoPte)
    BY <1>2, PteKinds, StateTypes DEF OneEntry
  <2>2. Forgets(want, w2, m) /\ s2 = spoilt \ {m}
    BY <1>2 DEF Forgets
  <2>3. /\ PagesOk(q, frame, d, store, w2, tainted, s2)
        /\ \A n \in Mms, h \in Frames : Maps(q, n, h) => Maps(pte, n, h)
    BY <1>3, <1>4, <2>1, <2>2, DropUser
  <2> QED BY <2>3 DEF Dropped
<1>5. /\ free \subseteq Comex /\ LinesOk(line) /\ FaultsAlive(task, line)
  BY DEF SwapInv
<1>6. CASE pte[m].k = "zero"
  <2>1. UNCHANGED <<frame, disk, free, tainted>>
    BY <1>6 DEF Zap, ZapPteRange
  <2>2. Dropped(q, disk, w2, s2, m)
    BY <1>4, <1>6 DEF SwapFreed
  <2>3. HandsOk(q, frame, task, rec)
    BY <2>2, DroppedHands, HandsStay DEF Dropped
  <2> QED BY <1>1, <1>2, <1>5, <2>1, <2>2, <2>3 DEF SwapInv, Dropped
<1>7. CASE pte[m].k = "map"
  <2>1. PICK f \in Frames : f = pte[m].f /\ Maps(pte, m, f)
    BY <1>3, <1>7, PteKinds DEF MapPtes, Maps
  <2>2. PICK r : r = FreeSwapCache(frame, disk, f, q)
    OBVIOUS
  <2>3. frame' = Released(r.fr, q) /\ disk' = r.dk /\ UNCHANGED <<free, tainted>>
    <3>1. pte[m].k # "zero" /\ UNCHANGED <<free, tainted>>
      BY <1>7 DEF Zap, ZapPteRange
    <3>2. LET freed == FreeSwapCache(frame, disk, pte[m].f, pte') IN
          frame' = Released(freed.fr, pte') /\ disk' = freed.dk
      BY <1>7 DEF Zap, ZapPteRange
    <3> QED BY <1>1, <2>1, <2>2, <3>1, <3>2
  <2>4. Dropped(q, disk, w2, s2, m)
    BY <1>4, <1>7 DEF SwapFreed
  <2>5. PICK g, d : g = r.fr /\ d = r.dk
    OBVIOUS
  <2>6. /\ PagesOk(q, g, d, store, w2, tainted, s2)
        /\ LeftCache(frame, g, f) /\ (g = frame \/ frame[f].lock = None)
    <3>1. CASE r = [fr |-> frame, dk |-> disk]
      BY <2>4, <2>5, <3>1 DEF Dropped, LeftCache
    <3>2. CASE frame[f].lock = None /\ r = TryToFreeSwap(frame, disk, f)
      <4>1. PagesOk(q, frame, disk, store, w2, tainted, s2) /\ frame[f].lock \notin Tasks
        BY <2>4, <3>2, Kinds DEF Dropped
      <4> QED BY <2>5, <3>2, <4>1, TryToFreeKeeps
    <3> QED BY <2>2, <3>1, <3>2 DEF FreeSwapCache
  <2>7. HandsOk(q, g, task, rec)
    <3>1. g \in [Frames -> FrameType]
      BY <2>6 DEF PagesOk, PageTypes
    <3>2. \A t \in Tasks, n \in Mms : task[t].at = "copied" => ~Maps(q, n, task[t].new)
      BY <2>4, DroppedHands DEF Dropped
    <3> QED BY <2>6, <3>1, <3>2, HandsLeft
  <2>8. /\ PagesOk(q, Released(g, q), d, store, w2, tainted, s2)
        /\ HandsOk(q, Released(g, q), task, rec)
    BY <2>6, <2>7, ReleaseKeeps
  <2> QED BY <1>1, <1>2, <1>5, <2>3, <2>5, <2>8 DEF SwapInv
<1>8. CASE pte[m].k = "swap" /\ pte[m].e \in Comex
  <2>1. GiveBack(pte[m].e) /\ UNCHANGED <<frame, disk>>
    BY <1>8 DEF Zap, ZapPteRange
  <2>2. PICK e \in Comex : e = pte[m].e
    BY <1>8
  <2>3. SwapFree(disk, e) = disk
    BY <2>2, Kinds DEF SwapFree
  <2>4. Dropped(q, disk, w2, s2, m)
    BY <1>4, <1>8, <2>2, <2>3 DEF SwapFreed
  <2>5. PICK tb : tb = tainted'
    OBVIOUS
  <2>6. PagesOk(q, frame, disk, store, w2, tb, s2) /\ free' \subseteq Comex
    <3>1. tainted \subseteq tb /\ tb \subseteq Comex /\ s2 \subseteq s2 /\ s2 \subseteq Mms
          /\ free' \subseteq Comex
      BY <1>2, <2>1, <2>2, <2>5, StateTypes DEF GiveBack
    <3>2. PagesOk(q, frame, disk, store, w2, tainted, s2)
      BY <2>4 DEF Dropped
    <3> QED BY <3>1, <3>2, GhostsGrow
  <2>7. HandsOk(q, frame, task, rec)
    BY <2>4, DroppedHands, HandsStay DEF Dropped
  <2> QED BY <1>1, <1>2, <1>5, <2>1, <2>5, <2>6, <2>7 DEF SwapInv
<1>9. CASE pte[m].k = "swap" /\ pte[m].e \notin Comex
  <2>1. PICK e \in Disk : e = pte[m].e
    BY <1>3, <1>9, PteKinds, Kinds
  <2>2. PICK r : r = FreeSwapAndCache(e)
    OBVIOUS
  <2>3. frame' = Released(r.fr, q) /\ disk' = r.dk /\ UNCHANGED <<free, tainted>>
    BY <1>1, <1>9, <2>1, <2>2 DEF Zap, ZapPteRange
  <2>4. PICK dk : dk = SwapFree(disk, e)
    OBVIOUS
  <2>5. Dropped(q, dk, w2, s2, m)
    BY <1>4, <1>9, <2>1, <2>4 DEF SwapFreed
  <2>6. PICK g, d : g = r.fr /\ d = r.dk
    OBVIOUS
  <2>7. \E f \in Frames \cup {None} :
          /\ PagesOk(q, g, d, store, w2, tainted, s2)
          /\ g = frame \/ (f \in Frames /\ LeftCache(frame, g, f) /\ frame[f].lock = None)
    <3> DEFINE gone == {f \in Cached(e) : frame[f].lock = None /\ ~frame[f].wb
                                          /\ dk[e].count = 0 /\ MapCount(f) = 0}
    <3>1. CASE gone = {}
      <4>1. g = frame /\ d = dk
        BY <2>2, <2>4, <2>6, <3>1 DEF FreeSwapAndCache
      <4> QED BY <2>5, <4>1 DEF Dropped
    <3>2. CASE gone # {}
      <4>1. PICK f : f = CHOOSE h \in gone : TRUE
        OBVIOUS
      <4>2. f \in gone
        BY <3>2, <4>1
      <4>3. /\ f \in Frames /\ frame[f].entry = e /\ frame[f].lock = None /\ ~frame[f].wb
            /\ dk[e].count = 0
        BY <4>2 DEF Cached
      <4>4. g = DeleteFromSwapCache(frame, f) /\ d = SwapcacheFree(dk, e)
        BY <2>2, <2>4, <2>6, <3>2, <4>1 DEF FreeSwapAndCache
      <4>5. PagesOk(q, g, d, store, w2, tainted, s2)
        <5>1. PagesOk(q, frame, dk, store, w2, tainted, s2)
          BY <2>5 DEF Dropped
        <5>2. /\ frame[f].lock \notin Tasks /\ frame[f].entry # None
              /\ frame[f].entry \in Disk => dk[frame[f].entry].count = 0
              /\ d = SwapcacheFree(dk, frame[f].entry)
          BY <4>3, <4>4, Kinds
        <5> QED BY <4>3, <4>4, <5>1, <5>2, DecacheKeeps
      <4>6. LeftCache(frame, g, f)
        <5>1. /\ \A h \in Frames : h # f => g[h] = frame[h]
              /\ g[f] = [frame[f] EXCEPT !.entry = None, !.dirty = TRUE]
          BY <4>3, <4>4, StateTypes DEF DeleteFromSwapCache, FrameType
        <5> QED BY <4>3, <5>1, Kinds DEF LeftCache
      <4> QED BY <4>3, <4>5, <4>6
    <3> QED BY <3>1, <3>2
  <2>8. HandsOk(q, g, task, rec) /\ PagesOk(q, g, d, store, w2, tainted, s2)
    <3>1. g \in [Frames -> FrameType]
      BY <2>7 DEF PagesOk, PageTypes
    <3>2. \A t \in Tasks, n \in Mms : task[t].at = "copied" => ~Maps(q, n, task[t].new)
      BY <2>5, DroppedHands DEF Dropped
    <3> QED BY <2>7, <3>1, <3>2, HandsLeft, HandsStay
  <2>9. /\ PagesOk(q, Released(g, q), d, store, w2, tainted, s2)
        /\ HandsOk(q, Released(g, q), task, rec)
    BY <2>8, ReleaseKeeps
  <2> QED BY <1>1, <1>2, <1>5, <2>3, <2>6, <2>9 DEF SwapInv
<1> QED BY <1>2, <1>3, <1>6, <1>7, <1>8, <1>9, PteKinds

-----------------------------------------------------------------------------
(* A swap entry becomes a mapping of the page that the cache has for it.    *)

(* Who maps the page already, if two owners had its number, is spoilt.      *)
MayMap(pt, fr, dk, ta, sq, m, e, f, w) ==
  /\ fr[f].entry = e /\ fr[f].lock \notin Tasks /\ fr[f].used /\ Names(pt, m, e)
  /\ e \in ta => m \in sq /\ \A n \in Mms : Maps(pt, n, f) => n \in sq
  /\ w => \A n \in Mms : Shares(pt, fr, n, f) => n = m \/ {m, n} \subseteq sq

LEMMA MapEntry ==
  ASSUME NEW pt, NEW fr, NEW dk, NEW st, NEW wa, NEW ta, NEW sp,
         NEW m \in Mms, NEW f \in Frames, NEW e \in Entries, NEW w \in BOOLEAN,
         PagesOk(pt, fr, dk, st, wa, ta, sp), MayMap(pt, fr, dk, ta, sp, m, e, f, w),
         NEW q, OneEntry(pt, q, m, MapPte(f, w)), NEW d, d = SwapFree(dk, e)
  PROVE  PagesOk(q, fr, d, st, wa, ta, sp)
<1>1. /\ pt \in [Mms -> PteType] /\ dk \in [Disk -> DiskType] /\ FrameForms(pt, fr)
      /\ fr[f].entry = e /\ fr[f].lock \notin Tasks /\ fr[f].used /\ Names(pt, m, e)
      /\ e # None
  BY Kinds DEF PagesOk, PageTypes, MayMap
<1>2. PICK p \in PteType : p = MapPte(f, w)
  BY PteKinds
<1>3. p.k = "map" /\ p.f = f /\ p.w = w /\ p.d = w
  BY <1>2, PteKinds DEF MapPte
<1>4. q \in [Mms -> PteType] /\ q[m] = p /\ \A n \in Mms : n # m => q[n] = pt[n]
  BY <1>2 DEF OneEntry
<1>5. \A n \in Mms : \A x : Names(q, n, x) <=> n # m /\ Names(pt, n, x)
  <2>1. q[m].k = "map" /\ \A x : SwapPte(x).k = "swap"
    BY <1>3, <1>4, PteKinds
  <2> QED BY <1>4, <2>1 DEF Names
<1>6. \A n \in Mms : \A h : Maps(q, n, h) <=> (n = m /\ h = f) \/ (n # m /\ Maps(pt, n, h))
  BY <1>3, <1>4 DEF Maps
<1>7. \A h : ~Maps(pt, m, h)
  BY <1>1, PteOnly
<1>8. \A x : Names(pt, m, x) => x = e
  BY <1>1, PteOnly
<1>9. \A h \in Frames : fr[h].entry = e => h = f
  BY <1>1 DEF FrameForms
<1>10. /\ d \in [Disk -> DiskType]
       /\ \A x \in Disk : /\ x # e => d[x] = dk[x]
                          /\ x = e => d[x].count = dk[x].count - 1 /\ d[x].has = dk[x].has
  BY <1>1 DEF SwapFree, DiskType
<1>11. PageTypes(q, fr, d, st, wa, ta, sp)
  BY <1>4, <1>10 DEF PagesOk, PageTypes
<1>12. FrameForms(q, fr)
  <2>1. \A n \in Mms, h \in Frames : Maps(q, n, h) => fr[h].used /\ fr[h].lock \notin Tasks
    BY <1>1, <1>6 DEF FrameForms
  <2>2. \A n \in Mms : q[n].k = "map" /\ q[n].w => q[n].d
    BY <1>1, <1>3, <1>4 DEF FrameForms
  <2> QED BY <1>1, <2>1, <2>2 DEF FrameForms
<1>13. MapExact(q, fr, d)
  <2> SUFFICES ASSUME NEW x \in Disk
               PROVE  /\ d[x].count = NameCount(q, x)
                      /\ d[x].has <=> \E h \in Frames : fr[h].entry = x
    BY DEF MapExact, NameCount
  <2>1. dk[x].count = NameCount(pt, x) /\ (dk[x].has <=> \E h \in Frames : fr[h].entry = x)
    BY Counted DEF PagesOk
  <2>2. /\ pt[m] # SwapPte(x) => NameCount(q, x) = NameCount(pt, x)
        /\ pt[m] = SwapPte(x) => NameCount(q, x) = NameCount(pt, x) - 1
    <3>1. p # SwapPte(x) /\ OneEntry(pt, q, m, p)
      BY <1>2, <1>3, PteKinds
    <3>2. /\ pt[m] # SwapPte(x) /\ p # SwapPte(x) => NameCount(q, x) = NameCount(pt, x)
          /\ pt[m] = SwapPte(x) /\ p # SwapPte(x) =>
               NameCount(q, x) = NameCount(pt, x) - 1 /\ NameCount(pt, x) >= 1
      BY <3>1, NameCounts
    <3> QED BY <3>1, <3>2
  <2>3. pt[m] = SwapPte(x) <=> x = e
    BY <1>1, <1>8 DEF Names
  <2> QED BY <1>10, <2>1, <2>2, <2>3
<1>14. \A n \in Mms, x \in Entries : Uses(q, fr, n, x) => Uses(pt, fr, n, x)
  BY <1>1, <1>5, <1>6 DEF Uses
<1>15. OneUser(q, fr, ta)
  BY <1>14, Kinds DEF PagesOk, OneUser
<1>16. Writers(q, fr, sp)
  <2> SUFFICES ASSUME NEW n \in Mms, NEW h \in Frames, Maps(q, n, h), q[n].w,
                      NEW k \in Mms, Shares(q, fr, k, h)
               PROVE  k = n \/ {n, k} \subseteq sp
    BY DEF Writers
  <2>1. CASE n = m
    <3>1. h = f /\ w
      BY <1>3, <1>4, <1>6, <2>1
    <3>2. k = m \/ Shares(pt, fr, k, f)
      BY <1>5, <1>6, <3>1 DEF Shares
    <3> QED BY <2>1, <3>1, <3>2 DEF MayMap
  <2>2. CASE n # m
    <3>1. Maps(pt, n, h) /\ pt[n].w
      BY <1>4, <1>6, <2>2
    <3>2. CASE Shares(pt, fr, k, h)
      BY <3>1, <3>2 DEF PagesOk, Writers
    <3>3. CASE ~Shares(pt, fr, k, h)
      <4>1. k = m /\ h = f
        BY <1>5, <1>6, <3>3 DEF Shares
      <4>2. e \notin Disk
        BY <1>1, <3>3, <4>1 DEF Shares
      <4>3. e \in Comex
        BY <4>2, Kinds
      <4>4. Uses(pt, fr, n, e) /\ Uses(pt, fr, m, e)
        BY <1>1, <3>1, <4>1 DEF Uses
      <4>5. e \in ta
        BY <2>2, <4>3, <4>4 DEF PagesOk, OneUser
      <4> QED BY <3>1, <4>1, <4>5 DEF MayMap
    <3> QED BY <3>2, <3>3
  <2> QED BY <2>1, <2>2
<1>17. MappedRight(q, fr, st, wa, ta, sp)
  <2> SUFFICES ASSUME NEW n \in Mms, NEW h \in Frames, Maps(q, n, h), n \notin sp
               PROVE  /\ fr[h].val = wa[n]
                      /\ fr[h].entry \in Disk /\ ~fr[h].dirty /\ ~q[n].d => st[fr[h].entry] = wa[n]
                      /\ fr[h].entry \in Comex \ ta => st[fr[h].entry] = wa[n]
    BY DEF MappedRight
  <2>1. CASE n = m
    <3>1. h = f /\ e \notin ta
      BY <1>6, <2>1 DEF MayMap
    <3>2. /\ \A g \in Frames : fr[g].entry = e /\ fr[g].lock \notin Tasks => fr[g].val = wa[m]
          /\ e \in Comex \/ (\A g \in Frames : fr[g].entry = e => ~fr[g].dirty) => st[e] = wa[m]
      BY <1>1, <2>1, <3>1 DEF PagesOk, NamedRight
    <3>3. ~fr[f].dirty => \A g \in Frames : fr[g].entry = e => ~fr[g].dirty
      BY <1>9
    <3> QED BY <1>1, <2>1, <3>1, <3>2, <3>3
  <2>2. CASE n # m
    BY <1>4, <1>6, <2>2 DEF PagesOk, MappedRight
  <2> QED BY <2>1, <2>2
<1>18. NamedRight(q, fr, st, wa, ta, sp)
  BY <1>5 DEF PagesOk, NamedRight
<1>19. ZeroRight(q, wa)
  <2>1. q[m] \notin {NoPte, ZeroPte}
    BY <1>3, <1>4, PteKinds
  <2> QED BY <1>4, <2>1 DEF PagesOk, ZeroRight
<1> QED BY <1>11, <1>12, <1>13, <1>15, <1>16, <1>17, <1>18, <1>19 DEF PagesOk

(* The swap cache gives the page up to the one who may write it.            *)
LEMMA ReuseOf ==
  ASSUME SwapInv, NEW f \in Frames, NEW m \in Mms, NEW e \in Entries, ReuseSwapPage(f),
         frame[f].entry = e, Names(pte, m, e)
  PROVE  /\ e \in Disk => /\ \A n \in Mms : Shares(pte, frame, n, f) => n = m
                          /\ disk[e].count = 1
         /\ e \in Comex \ tainted => \A n \in Mms : ~Maps(pte, n, f)
<1>1. CASE e \in Disk
  <2>1. MapCount(f) + disk[e].count <= 1
    BY <1>1, ReuseAlone
  <2>2. disk[e].count = NameCount(pte, e) /\ disk[e].count # 0
    BY <1>1, Counted DEF SwapInv, PagesOk
  <2>3. PICK k \in Nat : k = NameCount(pte, e)
    BY MmsCount DEF NameCount
  <2>4. PICK c \in Nat : c = MapCount(f)
    BY MapCounts
  <2>5. k = 1 /\ c = 0
    BY <2>1, <2>2, <2>3, <2>4
  <2>6. \A n \in Mms : ~Maps(pte, n, f)
    BY <2>4, <2>5, MapCounts
  <2>7. \A n \in Mms : Names(pte, n, e) => n = m
    <3>1. PICK S : S = {n \in Mms : Names(pte, n, e)}
      OBVIOUS
    <3>2. S \subseteq Mms /\ m \in S /\ Cardinality(S) = 1
      BY <2>3, <2>5, <3>1 DEF NameCount
    <3>3. PICK T : T = S \ {m}
      OBVIOUS
    <3>4. Cardinality(T) = Cardinality(S) - 1
      BY <3>2, <3>3, MmsCount
    <3>5. Cardinality(T) = 0 <=> T = {}
      BY <3>2, <3>3, MmsCount
    <3>6. T = {}
      BY <3>2, <3>4, <3>5
    <3> QED BY <3>1, <3>3, <3>6
  <2> QED BY <1>1, <2>2, <2>3, <2>5, <2>6, <2>7, Kinds DEF Shares
<1>2. CASE e \in Comex \ tainted
  <2> SUFFICES ASSUME NEW n \in Mms, Maps(pte, n, f) PROVE FALSE
    BY <1>2, Kinds
  <2>1. Uses(pte, frame, n, e) /\ Uses(pte, frame, m, e)
    BY DEF Uses
  <2>2. n = m
    BY <1>2, <2>1 DEF SwapInv, PagesOk, OneUser
  <2> QED BY <2>2, PteOnly
<1> QED BY <1>1, <1>2

LEMMA SameDisk ==
  ASSUME NEW a \in [Disk -> DiskType], NEW b \in [Disk -> DiskType], \A x \in Disk : a[x] = b[x]
  PROVE  a = b
OBVIOUS

(* reuse_swap_page() of the page of a fault that writes, with the swap map   *)
(* as it is after swap_free().                                              *)
LEMMA ReuseMapped ==
  ASSUME SwapInv, NEW f \in Frames, NEW m \in Mms, NEW e \in Entries,
         frame[f].entry = e, frame[f].lock = None, Names(pte, m, e), NEW wr \in BOOLEAN,
         NEW r, r = IF wr THEN AfterReuse(f) ELSE [fr |-> frame, dk |-> disk],
         NEW q, NEW sq, PagesOk(q, frame, SwapFree(disk, e), store, want, tainted, sq)
  PROVE  /\ PagesOk(q, r.fr, SwapFree(r.dk, e), store, want, tainted, sq)
         /\ LeftCache(frame, r.fr, f)
<1>1. CASE r = [fr |-> frame, dk |-> disk]
  BY <1>1 DEF LeftCache
<1>2. CASE /\ ReuseCount(f) = 1 /\ frame[f].entry # None /\ ~frame[f].wb
           /\ r = [fr |-> DeleteFromSwapCache(frame, f), dk |-> SwapcacheFree(disk, e)]
  <2>1. PICK d1, g, d2 : d1 = SwapFree(disk, e) /\ g = DeleteFromSwapCache(frame, f)
                         /\ d2 = SwapcacheFree(d1, e)
    OBVIOUS
  <2>2. ReuseSwapPage(f)
    BY <1>2 DEF ReuseSwapPage
  <2>3. e \in Disk => d1[e].count = 0
    <3>1. SUFFICES ASSUME e \in Disk PROVE d1[e].count = 0
      OBVIOUS
    <3>2. disk[e].count = 1
      BY <2>2, <3>1, ReuseOf
    <3>3. d1[e].count = disk[e].count - 1
      BY <2>1, <3>1, StateTypes DEF SwapFree, DiskType
    <3> QED BY <3>2, <3>3
  <2>4. SwapFree(r.dk, e) = d2
    <3>1. CASE e \notin Disk
      BY <1>2, <2>1, <3>1 DEF SwapFree, SwapcacheFree
    <3>2. CASE e \in Disk
      <4>1. PICK k, a, b : k = SwapcacheFree(disk, e) /\ a = SwapFree(k, e) /\ b = d2
        OBVIOUS
      <4>0. d1 = SwapFree(disk, e) /\ b = SwapcacheFree(d1, e)
        BY <2>1, <4>1
      <4>9. d1 = [disk EXCEPT ![e].count = @ - 1]
        BY <3>2, <4>0 DEF SwapFree
      <4>2. /\ k \in [Disk -> DiskType] /\ k[e].count = disk[e].count /\ k[e].has = FALSE
            /\ \A x \in Disk : x # e => k[x] = disk[x]
        BY <3>2, <4>1, StateTypes DEF SwapcacheFree, DiskType
      <4>3. /\ d1 \in [Disk -> DiskType] /\ d1[e].count = disk[e].count - 1
            /\ \A x \in Disk : x # e => d1[x] = disk[x]
        BY <3>2, <4>9, StateTypes DEF DiskType
      <4>10. b = [d1 EXCEPT ![e].has = FALSE]
        BY <3>2, <4>0 DEF SwapcacheFree
      <4>4. /\ a \in [Disk -> DiskType] /\ a[e].count = disk[e].count - 1 /\ a[e].has = FALSE
            /\ \A x \in Disk : x # e => a[x] = disk[x]
        BY <3>2, <4>1, <4>2 DEF SwapFree, DiskType
      <4>5. /\ b \in [Disk -> DiskType] /\ b[e].count = disk[e].count - 1 /\ b[e].has = FALSE
            /\ \A x \in Disk : x # e => b[x] = disk[x]
        BY <3>2, <4>3, <4>10 DEF DiskType
      <4>6. \A x, y \in DiskType : x.count = y.count /\ x.has = y.has => x = y
        BY DEF DiskType
      <4>7. \A x \in Disk : a[x] = b[x]
        <5>1. a[e] \in DiskType /\ b[e] \in DiskType
          BY <3>2, <4>4, <4>5
        <5>2. a[e] = b[e]
          BY <4>4, <4>5, <4>6, <5>1
        <5> QED BY <4>4, <4>5, <5>2
      <4>8. a = b
        <5>1. a \in [Disk -> DiskType] /\ b \in [Disk -> DiskType]
          BY <4>4, <4>5
        <5> QED BY <4>7, <5>1, SameDisk
      <4>11. r.dk = k
        BY <1>2, <4>1
      <4> QED BY <4>1, <4>8, <4>11
    <3> QED BY <3>1, <3>2
  <2>5. PagesOk(q, g, d2, store, want, tainted, sq)
    <3>1. frame[f].lock \notin Tasks /\ (frame[f].entry \in Disk => d1[frame[f].entry].count = 0)
          /\ d2 = SwapcacheFree(d1, frame[f].entry)
      BY <2>1, <2>3, Kinds
    <3>2. PagesOk(q, frame, d1, store, want, tainted, sq)
      BY <2>1
    <3> QED BY <1>2, <2>1, <3>1, <3>2, DecacheKeeps
  <2>6. LeftCache(frame, g, f)
    <3>1. /\ \A h \in Frames : h # f => g[h] = frame[h]
          /\ g[f] = [frame[f] EXCEPT !.entry = None, !.dirty = TRUE]
      BY <2>1, StateTypes DEF DeleteFromSwapCache, FrameType
    <3> QED BY <1>2, <3>1 DEF LeftCache
  <2> QED BY <1>2, <2>1, <2>4, <2>5, <2>6
<1> QED BY <1>1, <1>2 DEF AfterReuse

RootChoice(p, k) == p \in SUBSET Actors /\ k \in Mms \cup {None}
Repinned(fr, g, f, p) ==
  /\ g[f].pins = p /\ g[f].lock = fr[f].lock /\ g[f].entry = fr[f].entry
  /\ g[f].wb = fr[f].wb /\ g[f].used
  /\ \A h \in Frames : h # f => g[h] = fr[h]

LEMMA RootedSet ==
  ASSUME NEW pt, NEW fr, NEW dk, NEW st, NEW wa, NEW ta, NEW sp, NEW f \in Frames,
         NEW p, NEW k, RootChoice(p, k),
         PagesOk(pt, fr, dk, st, wa, ta, sp), fr[f].used,
         NEW g, Rooted(fr, g, f, p, k)
  PROVE  PagesOk(pt, g, dk, st, wa, ta, sp) /\ Repinned(fr, g, f, p)
BY RootSet DEF RootChoice, Repinned

LEMMA LockPageKeeps ==
  ASSUME SwapInv, NEW t \in Tasks, NEW wr \in BOOLEAN, LockPage(t, wr)
  PROVE  SwapInv'
<1>1. /\ task[t].at = "lock" /\ task[t].m \in Mms /\ task[t].e \in Entries
      /\ task[t].f \in Frames /\ line[task[t].m] # <<>>
  BY FaultKnows DEF LockPage
<1>2. PICK m \in Mms, e \in Entries, f \in Frames :
        m = task[t].m /\ e = task[t].e /\ f = task[t].f
  BY <1>1
<1>3. PICK r : r = IF wr THEN AfterReuse(f) ELSE [fr |-> frame, dk |-> disk]
  OBVIOUS
<1>4. PICK w \in BOOLEAN : w = (wr /\ ReuseSwapPage(f))
  <2>1. (wr /\ ReuseSwapPage(f)) \in BOOLEAN
    OBVIOUS
  <2> QED BY <2>1, Zenon
<1>5. PICK o : o = [r.fr EXCEPT ![f].pins = @ \ {t},
                               ![f].root = IF w THEN m
                                           ELSE IF @ = None THEN Head(line[m]) ELSE @]
  OBVIOUS
<1>6. PICK v : v = TryToFreeSwap(o, SwapFree(r.dk, e), f)
  OBVIOUS
<1>7. /\ frame[f].lock = None
      /\ task' = [task EXCEPT ![t] = Idle]
      /\ UNCHANGED <<store, free, rec, line, want, tainted, ops>>
      /\ IF frame[f].entry # e \/ pte[m] # SwapPte(e)
         THEN /\ frame' = Released(Unpin(frame, f, t), pte)
              /\ UNCHANGED <<pte, disk, spoilt>>
         ELSE /\ pte' = [pte EXCEPT ![m] = MapPte(f, w)]
              /\ frame' = v.fr /\ disk' = v.dk
              /\ spoilt' = IF e \in tainted
                          THEN spoilt \cup {m} \cup MappedBy(f) ELSE spoilt
  BY <1>2, <1>3, <1>4, <1>5, <1>6 DEF LockPage
<1>8. CASE frame[f].entry # e \/ pte[m] # SwapPte(e)
  <2>1. /\ frame' = Released(Unpin(frame, f, t), pte) /\ task' = [task EXCEPT ![t] = Idle]
        /\ UNCHANGED <<pte, swap, rec, line, ghosts>>
    BY <1>7, <1>8 DEF swap, ghosts
  <2>2. CASE frame[f].used
    BY <2>1, <2>2, LetGo
  <2>3. CASE ~frame[f].used
    <3>1. Unpin(frame, f, t) = frame
      <4>1. frame[f] = FreeFrame /\ frame[f] \in FrameType
        BY <2>3, StateTypes DEF SwapInv, PagesOk, FrameForms
      <4>2. frame[f].pins \ {t} = frame[f].pins
        BY <4>1, FreeFrames
      <4>3. [frame[f] EXCEPT !.pins = frame[f].pins] = frame[f]
        BY <4>1 DEF FrameType
      <4>4. Unpin(frame, f, t) = [frame EXCEPT ![f] = frame[f]]
        BY <4>2, <4>3, StateTypes DEF Unpin
      <4> QED BY <4>4, StateTypes
    <3>2. PICK i \in TaskType : i = Idle
      BY DEF TaskType
    <3>3. PICK tk : tk = [task EXCEPT ![t] = i]
      OBVIOUS
    <3>4. HandsOk(pte, frame, tk, rec) /\ FaultsAlive(tk, line)
      <4>1. i.at # "copied" /\ (i # Idle => line[i.m] # <<>>)
        BY <3>2, TaskKinds
      <4> QED BY <3>3, <4>1, TaskKeeps
    <3>5. /\ PagesOk(pte, Released(frame, pte), disk, store, want, tainted, spoilt)
          /\ HandsOk(pte, Released(frame, pte), tk, rec)
      <4>1. PagesOk(pte, frame, disk, store, want, tainted, spoilt)
        BY DEF SwapInv
      <4> QED BY <3>4, <4>1, ReleaseKeeps
    <3>6. frame' = Released(frame, pte) /\ task' = tk
      BY <2>1, <3>1, <3>2, <3>3
    <3> QED BY <2>1, <3>4, <3>5, <3>6 DEF SwapInv, swap, ghosts
  <2> QED BY <2>2, <2>3
<1>9. CASE frame[f].entry = e /\ pte[m] = SwapPte(e)
  <2>1. PICK q, sq : q = pte' /\ sq = spoilt'
    OBVIOUS
  <2>2. /\ q = [pte EXCEPT ![m] = MapPte(f, w)] /\ frame' = v.fr /\ disk' = v.dk
        /\ sq = IF e \in tainted THEN spoilt \cup {m} \cup MappedBy(f) ELSE spoilt
    BY <1>7, <1>9, <2>1
  <2>3. Names(pte, m, e) /\ frame[f].used /\ e # None /\ frame[f].lock \notin Tasks
    BY <1>7, <1>9, CachedUsed, Kinds DEF Names
  <2>4. OneEntry(pte, q, m, MapPte(f, w))
    BY <2>2, PteKinds, StateTypes DEF OneEntry
  <2>5. PagesOk(q, frame, SwapFree(disk, e), store, want, tainted, sq)
    <3>1. PagesOk(pte, frame, disk, store, want, tainted, sq)
      <4>1. tainted \subseteq tainted /\ tainted \subseteq Comex /\ spoilt \subseteq sq /\ sq \subseteq Mms
        BY <2>2, StateTypes DEF MappedBy
      <4>2. PagesOk(pte, frame, disk, store, want, tainted, spoilt)
        BY DEF SwapInv
      <4> QED BY <4>1, <4>2, GhostsGrow
    <3>2. MayMap(pte, frame, disk, tainted, sq, m, e, f, w)
      <4>1. e \in tainted => m \in sq /\ \A n \in Mms : Maps(pte, n, f) => n \in sq
        BY <2>2 DEF MappedBy, Maps
      <4>2. w => \A n \in Mms : Shares(pte, frame, n, f) => n = m \/ {m, n} \subseteq sq
        <5> SUFFICES ASSUME w, NEW n \in Mms, Shares(pte, frame, n, f)
                     PROVE  n = m \/ {m, n} \subseteq sq
          OBVIOUS
        <5>1. ReuseSwapPage(f)
          BY <1>4
        <5>2. CASE e \in Disk
          BY <1>9, <2>3, <5>1, <5>2, ReuseOf
        <5>3. CASE e \in Comex \ tainted
          <6>1. ~Maps(pte, n, f)
            BY <1>9, <2>3, <5>1, <5>3, ReuseOf
          <6> QED BY <1>9, <5>3, <6>1, Kinds DEF Shares
        <5>4. CASE e \in Comex /\ e \in tainted
          <6>1. Maps(pte, n, f)
            BY <1>9, <5>4, Kinds DEF Shares
          <6> QED BY <4>1, <5>4, <6>1
        <5> QED BY <5>2, <5>3, <5>4, Kinds
      <4> QED BY <1>9, <2>3, <4>1, <4>2 DEF MayMap
    <3>3. PICK d : d = SwapFree(disk, e)
      OBVIOUS
    <3>4. PagesOk(q, frame, d, store, want, tainted, sq)
      BY <2>4, <3>1, <3>2, <3>3, MapEntry
    <3> QED BY <3>3, <3>4
  <2>6. PICK fr, dk : fr = r.fr /\ dk = SwapFree(r.dk, e)
    OBVIOUS
  <2>7. PagesOk(q, fr, dk, store, want, tainted, sq) /\ LeftCache(frame, fr, f)
    <3>1. /\ PagesOk(q, r.fr, SwapFree(r.dk, e), store, want, tainted, sq)
          /\ LeftCache(frame, r.fr, f)
      BY <1>3, <1>7, <1>9, <2>3, <2>5, ReuseMapped
    <3> QED BY <2>6, <3>1
  <2>8. fr \in [Frames -> FrameType] /\ fr[f] \in FrameType /\ fr[f].used
        /\ fr[f].lock = None /\ fr[f].pins = frame[f].pins /\ fr[f].pins \subseteq Actors
    <3>1. fr \in [Frames -> FrameType] /\ fr[f] \in FrameType
      BY <2>7 DEF PagesOk, PageTypes
    <3>2. CASE fr = frame
      BY <1>7, <2>3, <3>1, <3>2, StateTypes
    <3>3. CASE fr[f] = [frame[f] EXCEPT !.entry = None, !.dirty = TRUE]
      BY <1>7, <2>3, <3>1, <3>3, StateTypes DEF FrameType
    <3> QED BY <2>7, <3>1, <3>2, <3>3 DEF LeftCache
  <2>9. PICK p \in SUBSET Actors : p = fr[f].pins \ {t}
    BY <2>8
  <2>10. PICK k \in Mms \cup {None} :
           k = IF w THEN m ELSE IF fr[f].root = None THEN Head(line[m]) ELSE fr[f].root
    <3>1. Head(line[m]) \in Mms
      BY <1>1, <1>2 DEF SwapInv, LinesOk
    <3> QED BY <2>8, <3>1 DEF FrameType
  <2>11. Rooted(fr, o, f, p, k)
    <3>1. o = [fr EXCEPT ![f].pins = @ \ {t},
                         ![f].root = IF w THEN m
                                     ELSE IF @ = None THEN Head(line[m]) ELSE @]
      BY <1>5, <2>6
    <3>2. PICK x \in FrameType : x = fr[f]
      BY <2>8
    <3>3. PICK y : y = [x EXCEPT !.pins = p]
      OBVIOUS
    <3>4. y.root = x.root /\ y \in FrameType
      BY <3>3 DEF FrameType
    <3>5. PICK z : z = [y EXCEPT !.root = k]
      OBVIOUS
    <3>6. o = [fr EXCEPT ![f] = z]
      BY <2>8, <2>9, <2>10, <3>1, <3>2, <3>3, <3>4, <3>5
    <3>7. [fr EXCEPT ![f].pins = p, ![f].root = k] = [fr EXCEPT ![f] = z]
      BY <2>8, <3>2, <3>3, <3>4, <3>5
    <3> QED BY <3>6, <3>7 DEF Rooted
  <2>12. /\ PagesOk(q, o, dk, store, want, tainted, sq)
         /\ o[f].pins = p /\ o[f].lock = fr[f].lock /\ o[f].entry = fr[f].entry
         /\ o[f].wb = fr[f].wb /\ o[f].used
         /\ \A h \in Frames : h # f => o[h] = fr[h]
    <3>1. fr[f].used
      BY <2>8
    <3>2. PagesOk(q, fr, dk, store, want, tainted, sq)
      BY <2>7

    <3>3. Repinned(fr, o, f, p) /\ PagesOk(q, o, dk, store, want, tainted, sq)
      <4>1. RootChoice(p, k)
        BY DEF RootChoice
      <4> QED BY <2>11, <3>1, <3>2, <4>1, RootedSet
    <3> QED BY <3>3 DEF Repinned
  <2>13. PICK g, d : g = v.fr /\ d = v.dk
    OBVIOUS
  <2>14. PagesOk(q, g, d, store, want, tainted, sq) /\ LeftCache(o, g, f)
    <3>1. PagesOk(q, v.fr, v.dk, store, want, tainted, sq) /\ LeftCache(o, v.fr, f)
      <4>1. v = TryToFreeSwap(o, dk, f)
        BY <1>6, <2>6
      <4>2. o[f].lock \notin Tasks
        BY <2>8, <2>12, Kinds
      <4> QED BY <2>12, <4>1, <4>2, TryToFreeKeeps
    <3> QED BY <2>13, <3>1
  <2>15. /\ \A h \in Frames : h # f => g[h] = frame[h]
         /\ g[f].pins = frame[f].pins \ {t}
    <3>1. \A h \in Frames : h # f => g[h] = frame[h]
      BY <2>7, <2>12, <2>14 DEF LeftCache
    <3>2. o[f] \in FrameType
      BY <2>12 DEF PagesOk, PageTypes
    <3>3. g[f].pins = o[f].pins
      BY <2>14, <3>2 DEF LeftCache, FrameType
    <3> QED BY <2>8, <2>9, <2>12, <3>1, <3>3
  <2>16. PICK i \in TaskType : i = Idle
    BY DEF TaskType
  <2>17. PICK tk : tk = task'
    OBVIOUS
  <2>18. tk \in [Tasks -> TaskType] /\ tk[t] = Idle /\ \A u \in Tasks : u # t => tk[u] = task[u]
    BY <1>7, <2>16, <2>17, StateTypes
  <2>19. HandsOk(q, g, tk, rec)
    <3>1. HandTypes(tk, rec)
      BY <2>18, StateTypes DEF HandTypes
    <3>2. \A u \in Tasks : tk[u].at = "copied" => tk[u] = task[u]
      BY <2>18, TaskKinds
    <3>3. \A u \in Tasks : task[u].at = "copied" => task[u].new # f
      BY <1>9, <2>3, CopyIs
    <3>4. \A u \in Tasks : task[u].at = "copied" => g[task[u].new] = frame[task[u].new]
      BY <2>15, <3>3, CopyIs
    <3>5. \A u \in Tasks, n \in Mms : task[u].at = "copied" => ~Maps(q, n, task[u].new)
      <4>1. \A n \in Mms : \A h : Maps(q, n, h) => h = f \/ Maps(pte, n, h)
        <5>1. MapPte(f, w).f = f
          BY PteKinds
        <5> QED BY <2>4, <5>1 DEF OneEntry, Maps
      <4> QED BY <3>3, <4>1, CopyIs
    <3>6. Reclaimed(g, rec)
      <4>1. rec = Idle \/ rec.f \in Frames
        BY StateTypes, TaskKinds
      <4>2. Reclaimed(frame, rec)
        BY DEF SwapInv, HandsOk
      <4>3. CASE rec # Idle /\ rec.f = f
        <5>1. rec.at = "sent" /\ Kswapd \in frame[f].pins
          BY <1>7, <4>2, <4>3, Kinds, StateTypes, TaskKinds DEF Reclaimed
        <5>2. Kswapd \in g[f].pins
          BY <2>15, <5>1, Kinds
        <5> QED BY <4>3, <5>1, <5>2 DEF Reclaimed
      <4>4. CASE rec = Idle \/ rec.f # f
        BY <2>15, <4>1, <4>4, ReclaimedUntouched
      <4> QED BY <4>3, <4>4
    <3> QED BY <3>1, <3>2, <3>4, <3>5, <3>6, HandsUntouched
  <2>20. FaultsAlive(tk, line)
    BY <2>18 DEF SwapInv, FaultsAlive
  <2> QED BY <1>7, <2>1, <2>2, <2>13, <2>14, <2>17, <2>19, <2>20 DEF SwapInv
<1> QED BY <1>8, <1>9

-----------------------------------------------------------------------------
(* A process writes.                                                       *)

LEMMA WriteKeeps ==
  ASSUME SwapInv, NEW m \in Mms, Write(m)
  PROVE  SwapInv'
<1>1. PICK f \in Frames : f = pte[m].f /\ Maps(pte, m, f)
  BY StateTypes, PteKinds DEF Write, MapPtes, Maps
<1>2. PICK g, w2, sq : g = frame' /\ w2 = want' /\ sq = spoilt'
  OBVIOUS
<1>3. /\ pte[m].w
      /\ g = [frame EXCEPT ![f].val = m] /\ w2 = [want EXCEPT ![m] = m]
      /\ \/ frame[f].entry \in Comex /\ sq = spoilt \cup {m}
         \/ /\ frame[f].entry \notin Comex /\ MappedBy(f) = {m} /\ frame[f].entry = None
            /\ sq = spoilt \ {m}
         \/ frame[f].entry \notin Comex /\ sq = spoilt
      /\ UNCHANGED <<pte, swap, task, rec, line, tainted, ops>>
  <2>1. /\ pte[m].w /\ frame' = [frame EXCEPT ![pte[m].f].val = m]
        /\ want' = [want EXCEPT ![m] = m]
        /\ UNCHANGED <<pte, swap, task, rec, line, tainted, ops>>
    BY DEF Write
  <2>2. spoilt' = CASE frame[pte[m].f].entry \in Comex -> spoilt \cup {m}
                   [] MappedBy(pte[m].f) = {m} /\ frame[pte[m].f].entry = None -> spoilt \ {m}
                   [] OTHER -> spoilt
    BY DEF Write
  <2>3. sq = CASE frame[f].entry \in Comex -> spoilt \cup {m}
               [] MappedBy(f) = {m} /\ frame[f].entry = None -> spoilt \ {m}
               [] OTHER -> spoilt
    BY <1>1, <1>2, <2>2
  <2>4. CASE frame[f].entry \in Comex
    <3>1. frame[f].entry # None
      BY <2>4, Kinds
    <3>2. sq = spoilt \cup {m}
      BY <2>3, <2>4, <3>1
    <3> QED BY <1>1, <1>2, <2>1, <2>4, <3>2
  <2>5. CASE frame[f].entry \notin Comex /\ MappedBy(f) = {m} /\ frame[f].entry = None
    <3>2. sq = spoilt \ {m}
      BY <2>3, <2>5
    <3> QED BY <1>1, <1>2, <2>1, <2>5, <3>2
  <2>6. CASE frame[f].entry \notin Comex /\ ~(MappedBy(f) = {m} /\ frame[f].entry = None)
    <3>2. sq = spoilt
      BY <2>3, <2>6
    <3> QED BY <1>1, <1>2, <2>1, <2>6, <3>2
  <2> QED BY <2>4, <2>5, <2>6
<1>4. /\ PagesOk(pte, frame, disk, store, want, tainted, spoilt)
      /\ FrameForms(pte, frame) /\ frame[f] \in FrameType /\ frame[f].used
      /\ frame[f].lock \notin Tasks
  BY <1>1, StateTypes DEF SwapInv, PagesOk, FrameForms
<1>5. PICK y : y = [frame[f] EXCEPT !.val = m]
  OBVIOUS
<1>6. /\ y \in FrameType /\ y.used /\ y.val = m /\ y.dirty = frame[f].dirty
      /\ y.wb = frame[f].wb /\ y.entry = frame[f].entry /\ y.lock = frame[f].lock
      /\ y.pins = frame[f].pins
  <2>1. m \in Vals
    BY DEF Vals
  <2> QED BY <1>4, <1>5, <2>1 DEF FrameType
<1>7. g \in [Frames -> FrameType] /\ g[f] = y /\ \A h \in Frames : h # f => g[h] = frame[h]
  BY <1>3, <1>5, <1>6, StateTypes
<1>8. /\ w2 \in [Mms -> Vals] /\ w2[m] = m /\ \A n \in Mms : n # m => w2[n] = want[n]
  BY <1>3, StateTypes DEF Vals
<1>9. /\ \A h \in Frames : Maps(pte, m, h) => h = f
      /\ \A e : ~Names(pte, m, e)
  BY <1>1, PteOnly
<1>10. \A n \in Mms : Shares(pte, frame, n, f) => n = m \/ {m, n} \subseteq spoilt
  BY <1>1, <1>3, <1>4 DEF PagesOk, Writers
<1>11. /\ sq \subseteq Mms
       /\ \A n \in Mms : n # m => (n \in sq <=> n \in spoilt)
       /\ frame[f].entry \in Comex => m \in sq
  BY <1>3, StateTypes
<1>12. \A h \in Frames : g[h].entry = frame[h].entry /\ g[h].dirty = frame[h].dirty
                         /\ (g[h].lock \in Tasks <=> frame[h].lock \in Tasks)
  BY <1>6, <1>7
<1>13. PageTypes(pte, g, disk, store, w2, tainted, sq)
  BY <1>4, <1>7, <1>8, <1>11 DEF PagesOk, PageTypes
<1>14. FrameForms(pte, g)
  <2>1. \A h \in Frames : ~g[h].used => g[h] = FreeFrame
    BY <1>4, <1>6, <1>7 DEF FrameForms
  <2>2. \A h, k \in Frames : g[h].entry # None /\ g[h].entry = g[k].entry => h = k
    BY <1>4, <1>12 DEF FrameForms
  <2>3. \A h \in Frames : g[h].wb => g[h].entry \in Disk
    BY <1>4, <1>6, <1>7 DEF FrameForms
  <2>4. \A h \in Frames : g[h].lock \in Tasks => g[h].entry # None /\ ~g[h].dirty /\ ~g[h].wb
    BY <1>4, <1>6, <1>7 DEF FrameForms
  <2>5. /\ \A n \in Mms, h \in Frames : Maps(pte, n, h) => g[h].used /\ g[h].lock \notin Tasks
        /\ \A n \in Mms : pte[n].k = "map" /\ pte[n].w => pte[n].d
    BY <1>4, <1>6, <1>7 DEF FrameForms
  <2> QED BY <2>1, <2>2, <2>3, <2>4, <2>5 DEF FrameForms
<1>15. MapExact(pte, g, disk)
  BY <1>4, <1>12 DEF PagesOk, MapExact
<1>16. OneUser(pte, g, tainted)
  BY <1>4, <1>12 DEF PagesOk, OneUser, Uses
<1>17. Writers(pte, g, sq)
  <2> SUFFICES ASSUME NEW n \in Mms, NEW h \in Frames, Maps(pte, n, h), pte[n].w,
                      NEW k \in Mms, Shares(pte, g, k, h)
               PROVE  k = n \/ {n, k} \subseteq sq
    BY DEF Writers
  <2>1. Shares(pte, frame, k, h)
    BY <1>12 DEF Shares
  <2>2. k = n \/ {n, k} \subseteq spoilt
    BY <1>4, <2>1 DEF PagesOk, Writers
  <2>3. CASE spoilt \subseteq sq
    BY <2>2, <2>3
  <2>4. CASE MappedBy(f) = {m} /\ frame[f].entry = None
    <3>1. \A x \in Mms : Maps(pte, x, f) => x = m
      BY <2>4 DEF MappedBy, Maps
    <3>2. \A x \in Mms : Shares(pte, frame, x, f) => x = m
      BY <2>4, <3>1, Kinds DEF Shares
    <3>3. CASE n = m
      BY <1>9, <2>1, <3>2, <3>3
    <3>4. CASE k = m
      <4>1. h = f
        BY <1>9, <2>1, <3>4 DEF Shares
      <4> QED BY <3>1, <3>4, <4>1
    <3> QED BY <1>11, <2>2, <3>3, <3>4
  <2> QED BY <1>3, <2>3, <2>4
<1>18. MappedRight(pte, g, store, w2, tainted, sq)
  <2> SUFFICES ASSUME NEW n \in Mms, NEW h \in Frames, Maps(pte, n, h), n \notin sq
               PROVE  /\ g[h].val = w2[n]
                      /\ g[h].entry \in Disk /\ ~g[h].dirty /\ ~pte[n].d => store[g[h].entry] = w2[n]
                      /\ g[h].entry \in Comex \ tainted => store[g[h].entry] = w2[n]
    BY DEF MappedRight
  <2>1. CASE n = m
    <3>1. h = f /\ pte[m].d
      BY <1>1, <1>3, <1>4, <1>9, <2>1 DEF FrameForms, Maps
    <3> QED BY <1>6, <1>7, <1>8, <1>11, <2>1, <3>1
  <2>2. CASE n # m
    <3>1. n \notin spoilt
      BY <1>11, <2>2
    <3>2. h # f
      BY <1>10, <2>2, <3>1 DEF Shares
    <3> QED BY <1>4, <1>7, <1>8, <2>2, <3>1, <3>2 DEF PagesOk, MappedRight
  <2> QED BY <2>1, <2>2
<1>19. NamedRight(pte, g, store, w2, tainted, sq)
  <2> SUFFICES ASSUME NEW n \in Mms, NEW x \in Entries \ tainted, Names(pte, n, x), n \notin sq
               PROVE  /\ \A h \in Frames : g[h].entry = x /\ g[h].lock \notin Tasks => g[h].val = w2[n]
                      /\ x \in Comex \/ (\A h \in Frames : g[h].entry = x => ~g[h].dirty)
                            => store[x] = w2[n]
    BY DEF NamedRight
  <2>1. n # m /\ n \notin spoilt
    BY <1>9, <1>11
  <2>2. frame[f].entry # x
    <3>1. CASE x \in Disk
      BY <1>10, <2>1, <3>1 DEF Shares
    <3>2. CASE x \in Comex
      BY <1>1, <1>4, <2>1, <3>2 DEF PagesOk, OneUser, Uses
    <3> QED BY <3>1, <3>2, Kinds
  <2>3. /\ \A h \in Frames : frame[h].entry = x /\ frame[h].lock \notin Tasks => frame[h].val = want[n]
        /\ x \in Comex \/ (\A h \in Frames : frame[h].entry = x => ~frame[h].dirty)
              => store[x] = want[n]
    BY <1>4, <2>1 DEF PagesOk, NamedRight
  <2>4. \A h \in Frames : g[h].entry = x => h # f /\ g[h] = frame[h]
    BY <1>6, <1>7, <2>2
  <2>5. (\A h \in Frames : g[h].entry = x => ~g[h].dirty)
          => \A h \in Frames : frame[h].entry = x => ~frame[h].dirty
    BY <1>12
  <2> QED BY <1>8, <2>1, <2>3, <2>4, <2>5
<1>20. ZeroRight(pte, w2)
  <2>1. pte[m] \notin {NoPte, ZeroPte}
    BY <1>1, PteOnly
  <2> QED BY <1>4, <1>8, <2>1 DEF PagesOk, ZeroRight
<1>21. HandsOk(pte, g, task, rec)
  <2>1. HandTypes(task, rec)
    BY StateTypes DEF HandTypes
  <2>2. \A u \in Tasks : task[u].at = "copied" => g[task[u].new] = frame[task[u].new]
    BY <1>1, <1>7, CopyIs
  <2>3. \A u \in Tasks, n \in Mms : task[u].at = "copied" => ~Maps(pte, n, task[u].new)
    BY CopyIs
  <2>4. Reclaimed(g, rec)
    <3>1. rec = Idle \/ rec.f \in Frames
      BY StateTypes, TaskKinds
    <3>2. Reclaimed(frame, rec)
      BY DEF SwapInv, HandsOk
    <3>3. CASE rec # Idle /\ rec.f = f
      BY <1>6, <1>7, <3>2, <3>3 DEF Reclaimed
    <3>4. CASE rec = Idle \/ rec.f # f
      BY <1>7, <3>1, <3>4, ReclaimedUntouched
    <3> QED BY <3>3, <3>4
  <2> QED BY <2>1, <2>2, <2>3, <2>4, HandsUntouched
<1>22. PagesOk(pte, g, disk, store, w2, tainted, sq)
  BY <1>13, <1>14, <1>15, <1>16, <1>17, <1>18, <1>19, <1>20 DEF PagesOk
<1> QED BY <1>2, <1>3, <1>21, <1>22 DEF SwapInv, swap

-----------------------------------------------------------------------------
(* try_to_unmap(): a mapping becomes the entry of the page.                 *)

(* The frame gets the dirty bit of the page table, and nothing else.        *)
DirtyFrom(x, y, b) ==
  /\ y.used = x.used /\ y.val = x.val /\ y.wb = x.wb /\ y.entry = x.entry /\ y.lock = x.lock
  /\ y.dirty <=> x.dirty \/ b

LEMMA EntryNamed ==
  ASSUME NEW pt, NEW fr, NEW dk, NEW st, NEW wa, NEW ta, NEW sp,
         NEW m \in Mms, NEW f \in Frames, NEW e \in Entries,
         PagesOk(pt, fr, dk, st, wa, ta, sp),
         fr[f].entry = e, fr[f].lock \notin Tasks, Maps(pt, m, f),
         NEW q, OneEntry(pt, q, m, SwapPte(e)), NEW d, d = SwapDuplicate(dk, e),
         NEW y \in FrameType, DirtyFrom(fr[f], y, pt[m].d), NEW g, g = [fr EXCEPT ![f] = y]
  PROVE  PagesOk(q, g, d, st, wa, ta, sp)
<1>1. /\ pt \in [Mms -> PteType] /\ dk \in [Disk -> DiskType] /\ FrameForms(pt, fr)
      /\ fr \in [Frames -> FrameType] /\ fr[f].used /\ e # None
  BY Kinds DEF PagesOk, PageTypes, FrameForms
<1>2. PICK p \in PteType : p = SwapPte(e)
  BY PteKinds
<1>3. p.k = "swap" /\ p # NoPte /\ p # ZeroPte
  BY <1>2, PteKinds
<1>4. q \in [Mms -> PteType] /\ q[m] = p /\ \A n \in Mms : n # m => q[n] = pt[n]
  BY <1>2 DEF OneEntry
<1>5. \A n \in Mms : \A x : Names(q, n, x) <=> (n = m /\ x = e) \/ (n # m /\ Names(pt, n, x))
  <2>1. \A x : SwapPte(e) = SwapPte(x) <=> x = e
    BY PteKinds
  <2> QED BY <1>2, <1>4, <2>1 DEF Names
<1>6. \A n \in Mms : \A h : Maps(q, n, h) <=> n # m /\ Maps(pt, n, h)
  BY <1>3, <1>4 DEF Maps
<1>7. \A h : Maps(pt, m, h) => h = f
  BY PteOnly
<1>8. \A x : ~Names(pt, m, x)
  BY PteOnly
<1>9. \A h \in Frames : fr[h].entry = e => h = f
  BY <1>1 DEF FrameForms
<1>10. /\ d \in [Disk -> DiskType]
       /\ \A x \in Disk : /\ x # e => d[x] = dk[x]
                          /\ x = e => d[x].count = dk[x].count + 1 /\ d[x].has = dk[x].has
  BY <1>1 DEF SwapDuplicate, DiskType
<1>11. /\ g[f] = y /\ \A h \in Frames : h # f => g[h] = fr[h]
       /\ FrameForms(pt, g) /\ g \in [Frames -> FrameType]
  <2>1. \A h \in Frames : fr[h].entry = y.entry => h = f
    BY <1>9 DEF DirtyFrom
  <2>2. (y.wb => y.entry \in Disk) /\ y.lock \notin Tasks /\ y.used
    BY <1>1 DEF DirtyFrom, FrameForms
  <2> QED BY <1>1, <2>1, <2>2, FormsSet
<1>12. \A h \in Frames : /\ g[h].entry = fr[h].entry /\ g[h].val = fr[h].val
                         /\ g[h].lock = fr[h].lock /\ (~g[h].dirty => ~fr[h].dirty)
  BY <1>11 DEF DirtyFrom
<1>13. PageTypes(q, g, d, st, wa, ta, sp)
  BY <1>4, <1>10, <1>11 DEF PagesOk, PageTypes
<1>14. FrameForms(q, g)
  <2>1. \A n \in Mms, h \in Frames : Maps(q, n, h) => g[h].used /\ g[h].lock \notin Tasks
    BY <1>6, <1>11 DEF FrameForms
  <2>2. \A n \in Mms : q[n].k = "map" /\ q[n].w => q[n].d
    BY <1>1, <1>3, <1>4 DEF FrameForms
  <2> QED BY <1>11, <2>1, <2>2 DEF FrameForms
<1>15. MapExact(q, g, d)
  <2> SUFFICES ASSUME NEW x \in Disk
               PROVE  /\ d[x].count = NameCount(q, x)
                      /\ d[x].has <=> \E h \in Frames : g[h].entry = x
    BY DEF MapExact, NameCount
  <2>1. dk[x].count = NameCount(pt, x) /\ (dk[x].has <=> \E h \in Frames : fr[h].entry = x)
    BY Counted DEF PagesOk
  <2>2. pt[m] # SwapPte(x) /\ OneEntry(pt, q, m, p)
    BY <1>2, <1>8 DEF Names
  <2>3. /\ p # SwapPte(x) => NameCount(q, x) = NameCount(pt, x)
        /\ p = SwapPte(x) => NameCount(q, x) = NameCount(pt, x) + 1
    BY <2>2, NameCounts
  <2>4. p = SwapPte(x) <=> x = e
    BY <1>2, PteKinds
  <2>5. (\E h \in Frames : g[h].entry = x) <=> (\E h \in Frames : fr[h].entry = x)
    BY <1>12
  <2> QED BY <1>10, <2>1, <2>3, <2>4, <2>5
<1>16. \A n \in Mms, x \in Entries : Uses(q, g, n, x) => Uses(pt, fr, n, x)
  BY <1>5, <1>6, <1>12 DEF Uses
<1>17. OneUser(q, g, ta)
  BY <1>16, Kinds DEF PagesOk, OneUser
<1>18. Writers(q, g, sp)
  <2> SUFFICES ASSUME NEW n \in Mms, NEW h \in Frames, Maps(q, n, h), q[n].w,
                      NEW k \in Mms, Shares(q, g, k, h)
               PROVE  k = n \/ {n, k} \subseteq sp
    BY DEF Writers
  <2>1. Maps(pt, n, h) /\ pt[n].w
    BY <1>4, <1>6
  <2>2. Shares(pt, fr, k, h)
    <3>1. CASE Maps(q, k, h)
      BY <1>6, <3>1 DEF Shares
    <3>2. ASSUME NEW x \in Disk, g[h].entry = x, Names(q, k, x)
          PROVE  Shares(pt, fr, k, h)
      <4>1. CASE k = m
        BY <1>5, <1>9, <1>12, <3>2, <4>1 DEF Shares
      <4>2. CASE k # m
        BY <1>5, <1>12, <3>2, <4>2 DEF Shares
      <4> QED BY <4>1, <4>2
    <3> QED BY <3>1, <3>2 DEF Shares
  <2> QED BY <2>1, <2>2 DEF PagesOk, Writers
<1>19. MappedRight(q, g, st, wa, ta, sp)
  <2> SUFFICES ASSUME NEW n \in Mms, NEW h \in Frames, Maps(q, n, h), n \notin sp
               PROVE  /\ g[h].val = wa[n]
                      /\ g[h].entry \in Disk /\ ~g[h].dirty /\ ~q[n].d => st[g[h].entry] = wa[n]
                      /\ g[h].entry \in Comex \ ta => st[g[h].entry] = wa[n]
    BY DEF MappedRight
  <2>1. Maps(pt, n, h) /\ q[n] = pt[n]
    BY <1>4, <1>6
  <2>2. /\ fr[h].val = wa[n]
        /\ fr[h].entry \in Disk /\ ~fr[h].dirty /\ ~pt[n].d => st[fr[h].entry] = wa[n]
        /\ fr[h].entry \in Comex \ ta => st[fr[h].entry] = wa[n]
    BY <2>1 DEF PagesOk, MappedRight
  <2> QED BY <1>12, <2>1, <2>2
<1>20. NamedRight(q, g, st, wa, ta, sp)
  <2> SUFFICES ASSUME NEW n \in Mms, NEW x \in Entries \ ta, Names(q, n, x), n \notin sp
               PROVE  /\ \A h \in Frames : g[h].entry = x /\ g[h].lock \notin Tasks => g[h].val = wa[n]
                      /\ x \in Comex \/ (\A h \in Frames : g[h].entry = x => ~g[h].dirty)
                            => st[x] = wa[n]
    BY DEF NamedRight
  <2>1. CASE n = m
    <3>1. x = e
      BY <1>5, <2>1
    <3>2. /\ fr[f].val = wa[m]
          /\ e \in Disk /\ ~fr[f].dirty /\ ~pt[m].d => st[e] = wa[m]
          /\ e \in Comex \ ta => st[e] = wa[m]
      BY <2>1 DEF PagesOk, MappedRight
    <3>3. \A h \in Frames : g[h].entry = x => g[h].val = wa[n]
      BY <1>9, <1>12, <2>1, <3>1, <3>2
    <3>4. ~g[f].dirty => ~fr[f].dirty /\ ~pt[m].d
      BY <1>11 DEF DirtyFrom
    <3>5. g[f].entry = e
      BY <1>12
    <3>6. e \in Disk \/ e \in Comex
      BY Kinds
    <3> QED BY <2>1, <3>1, <3>2, <3>3, <3>4, <3>5, <3>6
  <2>2. CASE n # m
    <3>1. Names(pt, n, x)
      BY <1>5, <2>2
    <3>2. /\ \A h \in Frames : fr[h].entry = x /\ fr[h].lock \notin Tasks => fr[h].val = wa[n]
          /\ x \in Comex \/ (\A h \in Frames : fr[h].entry = x => ~fr[h].dirty)
                => st[x] = wa[n]
      BY <3>1 DEF PagesOk, NamedRight
    <3>3. (\A h \in Frames : g[h].entry = x => ~g[h].dirty)
             => \A h \in Frames : fr[h].entry = x => ~fr[h].dirty
      BY <1>12
    <3> QED BY <1>12, <3>2, <3>3
  <2> QED BY <2>1, <2>2
<1>21. ZeroRight(q, wa)
  BY <1>3, <1>4 DEF PagesOk, ZeroRight
<1> QED BY <1>13, <1>14, <1>15, <1>17, <1>18, <1>19, <1>20, <1>21 DEF PagesOk

LEMMA TryToUnmapKeeps ==
  ASSUME SwapInv, NEW m \in Mms, TryToUnmap(m)
  PROVE  SwapInv'
<1>1. PICK f : f = rec.f
  OBVIOUS
<1>2. PICK e : e = frame[f].entry
  OBVIOUS
<1>3. /\ rec.at = "unmap" /\ rec # Idle /\ Maps(pte, m, f)
      /\ pte' = [pte EXCEPT ![m] = SwapPte(e)]
      /\ frame' = [frame EXCEPT ![f].dirty = @ \/ pte[m].d]
      /\ disk' = SwapDuplicate(disk, e)
      /\ UNCHANGED <<store, free, task, rec, line, ghosts, ops>>
  BY <1>1, <1>2, TaskKinds DEF TryToUnmap, MappedBy, Maps
<1>4. /\ f \in Frames /\ e \in Entries /\ frame[f].lock \notin Tasks
      /\ frame[f].used /\ frame[f] \in FrameType
      /\ \A t \in Tasks : task[t].at = "copied" => task[t].new # f
  BY <1>1, <1>2, <1>3, RecIs, Kinds, StateTypes
<1>5. PICK b \in BOOLEAN : b = (frame[f].dirty \/ pte[m].d)
  <2>1. (frame[f].dirty \/ pte[m].d) \in BOOLEAN
    OBVIOUS
  <2> QED BY <2>1, Zenon
<1>6. PICK y : y = [frame[f] EXCEPT !.dirty = b]
  OBVIOUS
<1>7. /\ y \in FrameType /\ y.used = frame[f].used /\ y.val = frame[f].val /\ y.wb = frame[f].wb
      /\ y.entry = frame[f].entry /\ y.lock = frame[f].lock /\ y.pins = frame[f].pins
      /\ y.dirty = b
  BY <1>4, <1>6 DEF FrameType
<1>8. PICK q, g, d : q = pte' /\ g = frame' /\ d = disk'
  OBVIOUS
<1>9. g = [frame EXCEPT ![f] = y]
  <2>1. g = [frame EXCEPT ![f].dirty = b]
    BY <1>3, <1>5, <1>8, Zenon
  <2> QED BY <1>6, <2>1
<1>10. g[f] = y /\ \A h \in Frames : h # f => g[h] = frame[h]
  BY <1>4, <1>7, <1>9, StateTypes
<1>11. OneEntry(pte, q, m, SwapPte(e))
  <2>1. SwapPte(e) \in PteType
    BY <1>4, PteKinds
  <2> QED BY <1>3, <1>8, <2>1, StateTypes DEF OneEntry
<1>12. PagesOk(q, g, d, store, want, tainted, spoilt)
  <2>1. PagesOk(pte, frame, disk, store, want, tainted, spoilt) /\ frame[f].entry = e
    BY <1>2 DEF SwapInv
  <2>2. DirtyFrom(frame[f], y, pte[m].d)
    <3>1. y.dirty <=> frame[f].dirty \/ pte[m].d
      BY <1>5, <1>7, Zenon
    <3> QED BY <1>7, <3>1 DEF DirtyFrom
  <2>3. d = SwapDuplicate(disk, e) /\ Maps(pte, m, f)
    BY <1>3, <1>8
  <2> QED BY <1>4, <1>7, <1>9, <1>11, <2>1, <2>2, <2>3, EntryNamed
<1>13. HandsOk(q, g, task, rec)
  <2>1. HandTypes(task, rec)
    BY StateTypes DEF HandTypes
  <2>2. \A u \in Tasks : task[u].at = "copied" => g[task[u].new] = frame[task[u].new]
    BY <1>4, <1>10, CopyIs
  <2>3. \A u \in Tasks, n \in Mms : task[u].at = "copied" => ~Maps(q, n, task[u].new)
    <3>1. \A n \in Mms : \A h : Maps(q, n, h) => Maps(pte, n, h)
      <4>1. SwapPte(e).k # "map"
        BY PteKinds
      <4> QED BY <1>11, <4>1 DEF OneEntry, Maps
    <3> QED BY <3>1, CopyIs
  <2>4. Reclaimed(g, rec)
    <3>1. Reclaimed(frame, rec)
      BY DEF SwapInv, HandsOk
    <3> QED BY <1>1, <1>3, <1>7, <1>10, <3>1 DEF Reclaimed
  <2> QED BY <2>1, <2>2, <2>3, <2>4, HandsUntouched
<1> QED BY <1>3, <1>8, <1>12, <1>13 DEF SwapInv, ghosts

-----------------------------------------------------------------------------
(* fork(): the child has the entry of its parent.                           *)

(* The entry of both: a mapping is not writable any more.                   *)
ForkedPte(x, p) ==
  /\ x.k = "map" => p.k = "map" /\ p.f = x.f /\ p.d = x.d /\ ~p.w
  /\ x.k # "map" => p = x
BothHave(pt, q, m, c, p) ==
  q \in [Mms -> PteType] /\ q[m] = p /\ q[c] = p /\ \A n \in Mms \ {m, c} : q[n] = pt[n]
Inherits(wa, w2, m, c) ==
  w2 \in [Mms -> Vals] /\ w2[c] = wa[m] /\ \A n \in Mms \ {c} : w2[n] = wa[n]
SpoiltToo(sp, s2, m, c) ==
  s2 \subseteq Mms /\ sp \subseteq s2 /\ (m \in sp => c \in s2)
UsedTainted(pt, fr, ta, tb, m) ==
  ta \subseteq tb /\ tb \subseteq Comex /\ \A e \in Comex : Uses(pt, fr, m, e) => e \in tb
ParentOf(m, c, n) == IF n = c THEN m ELSE n

LEMMA ForkPages ==
  ASSUME NEW pt, NEW fr, NEW dk, NEW st, NEW wa, NEW ta, NEW sp,
         NEW m \in Mms, NEW c \in Mms, c # m, PagesOk(pt, fr, dk, st, wa, ta, sp),
         pt[c] = NoPte, NEW p \in PteType, ForkedPte(pt[m], p),
         NEW q, BothHave(pt, q, m, c, p),
         NEW d, d = IF p.k = "swap" THEN SwapDuplicate(dk, p.e) ELSE dk,
         NEW w2, Inherits(wa, w2, m, c), NEW s2, SpoiltToo(sp, s2, m, c),
         NEW tb, UsedTainted(pt, fr, ta, tb, m)
  PROVE  /\ PagesOk(q, fr, d, st, w2, tb, s2)
         /\ \A n \in Mms : \A h : Maps(q, n, h) => \E o \in Mms : Maps(pt, o, h)
<1>1. /\ pt \in [Mms -> PteType] /\ dk \in [Disk -> DiskType] /\ FrameForms(pt, fr)
      /\ q \in [Mms -> PteType]
  BY DEF PagesOk, PageTypes, BothHave
<1>2. \A n \in Mms : ParentOf(m, c, n) \in Mms
  BY DEF ParentOf
<1>3. /\ p.k = pt[m].k /\ (p.k # "map" => p = pt[m])
      /\ p.k = "map" => p.f = pt[m].f /\ p.d = pt[m].d /\ ~p.w
  BY DEF ForkedPte
<1>4. \A e : p = SwapPte(e) <=> pt[m] = SwapPte(e)
  <2>1. \A e : SwapPte(e).k # "map"
    BY PteKinds
  <2> QED BY <1>3, <2>1
<1>5. \A n \in Mms : \A e : Names(q, n, e) <=> Names(pt, ParentOf(m, c, n), e)
  BY <1>4 DEF Names, ParentOf, BothHave
<1>6. \A n \in Mms : \A h : Maps(q, n, h) <=> Maps(pt, ParentOf(m, c, n), h)
  BY <1>3 DEF Maps, ParentOf, BothHave
<1>7. \A n \in Mms : \A h : Maps(q, n, h) => q[n].d = pt[ParentOf(m, c, n)].d
  BY <1>3 DEF Maps, ParentOf, BothHave
<1>8. \A n \in Mms : q[n].k = "map" /\ q[n].w =>
                        n # m /\ n # c /\ q[n] = pt[n] /\ ParentOf(m, c, n) = n
  BY <1>3 DEF ParentOf, BothHave
<1>9. \A n \in Mms : w2[n] = wa[ParentOf(m, c, n)]
  BY DEF Inherits, ParentOf
<1>10. \A n \in Mms : /\ n \notin s2 => ParentOf(m, c, n) \notin sp
                      /\ ParentOf(m, c, n) \in sp => n \in s2
  BY DEF SpoiltToo, ParentOf
<1>11. \A n \in Mms, x \in Entries : Uses(q, fr, n, x) => Uses(pt, fr, ParentOf(m, c, n), x)
  BY <1>5, <1>6 DEF Uses
<1>12. \A n \in Mms, h \in Frames : Shares(q, fr, n, h) => Shares(pt, fr, ParentOf(m, c, n), h)
  BY <1>5, <1>6 DEF Shares
<1>13. d \in [Disk -> DiskType] /\ \A x \in Disk :
         /\ d[x].has = dk[x].has
         /\ p = SwapPte(x) => d[x].count = dk[x].count + 1
         /\ p # SwapPte(x) => d[x].count = dk[x].count
  <2>1. CASE p.k = "swap"
    <3>1. PICK e \in Entries : p.e = e /\ p = SwapPte(e)
      BY <2>1, PteKinds
    <3>2. \A x : p = SwapPte(x) <=> x = e
      BY <3>1, PteKinds
    <3>3. d = SwapDuplicate(dk, e)
      BY <2>1, <3>1
    <3> QED BY <1>1, <3>2, <3>3 DEF SwapDuplicate, DiskType
  <2>2. CASE p.k # "swap"
    <3>1. \A x : p # SwapPte(x)
      BY <2>2, PteKinds
    <3> QED BY <1>1, <2>2, <3>1
  <2> QED BY <2>1, <2>2
<1>14. PageTypes(q, fr, d, st, w2, tb, s2)
  BY <1>1, <1>13 DEF PagesOk, PageTypes, Inherits, SpoiltToo, UsedTainted
<1>15. FrameForms(q, fr)
  <2>1. \A n \in Mms, h \in Frames : Maps(q, n, h) => fr[h].used /\ fr[h].lock \notin Tasks
    BY <1>1, <1>2, <1>6 DEF FrameForms
  <2>2. \A n \in Mms : q[n].k = "map" /\ q[n].w => q[n].d
    BY <1>1, <1>8 DEF FrameForms
  <2> QED BY <1>1, <2>1, <2>2 DEF FrameForms
<1>16. MapExact(q, fr, d)
  <2> SUFFICES ASSUME NEW x \in Disk
               PROVE  /\ d[x].count = NameCount(q, x)
                      /\ d[x].has <=> \E h \in Frames : fr[h].entry = x
    BY DEF MapExact, NameCount
  <2>1. dk[x].count = NameCount(pt, x) /\ (dk[x].has <=> \E h \in Frames : fr[h].entry = x)
    BY Counted DEF PagesOk
  <2>2. PICK r : r = [pt EXCEPT ![m] = p]
    OBVIOUS
  <2>3. r \in [Mms -> PteType] /\ r[m] = p /\ \A n \in Mms : n # m => r[n] = pt[n]
    BY <1>1, <2>2
  <2>4. NameCount(r, x) = NameCount(pt, x)
    <3>1. \A n \in Mms : Names(r, n, x) <=> Names(pt, n, x)
      BY <1>4, <2>3 DEF Names
    <3>2. {n \in Mms : Names(r, n, x)} = {n \in Mms : Names(pt, n, x)}
      BY <3>1
    <3> QED BY <3>2 DEF NameCount
  <2>5. OneEntry(r, q, c, p)
    BY <1>1, <2>3 DEF OneEntry, BothHave
  <2>6. r[c] # SwapPte(x)
    BY <2>3, PteKinds
  <2>7. /\ p # SwapPte(x) => NameCount(q, x) = NameCount(r, x)
        /\ p = SwapPte(x) => NameCount(q, x) = NameCount(r, x) + 1
    BY <2>5, <2>6, NameCounts
  <2> QED BY <1>13, <2>1, <2>4, <2>7
<1>17. OneUser(q, fr, tb)
  <2> SUFFICES ASSUME NEW e \in Comex \ tb, NEW n \in Mms, NEW k \in Mms,
                      Uses(q, fr, n, e), Uses(q, fr, k, e)
               PROVE  n = k
    BY DEF OneUser
  <2>1. e \in Entries /\ e \in Comex \ ta /\ ~Uses(pt, fr, m, e)
    BY Kinds DEF UsedTainted
  <2>2. Uses(pt, fr, ParentOf(m, c, n), e) /\ Uses(pt, fr, ParentOf(m, c, k), e)
    BY <1>11, <2>1
  <2>3. ParentOf(m, c, n) = ParentOf(m, c, k)
    BY <1>2, <2>1, <2>2 DEF PagesOk, OneUser
  <2> QED BY <2>1, <2>2, <2>3 DEF ParentOf
<1>18. Writers(q, fr, s2)
  <2> SUFFICES ASSUME NEW n \in Mms, NEW h \in Frames, Maps(q, n, h), q[n].w,
                      NEW k \in Mms, Shares(q, fr, k, h)
               PROVE  k = n \/ {n, k} \subseteq s2
    BY DEF Writers
  <2>1. n # m /\ n # c /\ pt[n].w /\ Maps(pt, n, h)
    BY <1>6, <1>8 DEF Maps
  <2>2. Shares(pt, fr, ParentOf(m, c, k), h)
    BY <1>12
  <2>3. ParentOf(m, c, k) = n \/ {n, ParentOf(m, c, k)} \subseteq sp
    BY <1>2, <2>1, <2>2 DEF PagesOk, Writers
  <2>4. ParentOf(m, c, k) = n => k = n
    BY <2>1 DEF ParentOf
  <2>5. sp \subseteq s2
    BY DEF SpoiltToo
  <2> QED BY <1>10, <2>3, <2>4, <2>5
<1>19. MappedRight(q, fr, st, w2, tb, s2)
  <2> SUFFICES ASSUME NEW n \in Mms, NEW h \in Frames, Maps(q, n, h), n \notin s2
               PROVE  /\ fr[h].val = w2[n]
                      /\ fr[h].entry \in Disk /\ ~fr[h].dirty /\ ~q[n].d => st[fr[h].entry] = w2[n]
                      /\ fr[h].entry \in Comex \ tb => st[fr[h].entry] = w2[n]
    BY DEF MappedRight
  <2>1. PICK o \in Mms : o = ParentOf(m, c, n)
    BY <1>2
  <2>2. Maps(pt, o, h) /\ o \notin sp /\ q[n].d = pt[o].d /\ w2[n] = wa[o]
    BY <1>6, <1>7, <1>9, <1>10, <2>1
  <2>3. /\ fr[h].val = wa[o]
        /\ fr[h].entry \in Disk /\ ~fr[h].dirty /\ ~pt[o].d => st[fr[h].entry] = wa[o]
        /\ fr[h].entry \in Comex \ ta => st[fr[h].entry] = wa[o]
    BY <2>2 DEF PagesOk, MappedRight
  <2>4. fr[h].entry \in Comex \ tb => fr[h].entry \in Comex \ ta
    BY DEF UsedTainted
  <2> QED BY <2>2, <2>3, <2>4
<1>20. NamedRight(q, fr, st, w2, tb, s2)
  <2> SUFFICES ASSUME NEW n \in Mms, NEW x \in Entries \ tb, Names(q, n, x), n \notin s2
               PROVE  /\ \A h \in Frames : fr[h].entry = x /\ fr[h].lock \notin Tasks => fr[h].val = w2[n]
                      /\ x \in Comex \/ (\A h \in Frames : fr[h].entry = x => ~fr[h].dirty)
                            => st[x] = w2[n]
    BY DEF NamedRight
  <2>1. PICK o \in Mms : o = ParentOf(m, c, n)
    BY <1>2
  <2>2. Names(pt, o, x) /\ o \notin sp /\ w2[n] = wa[o] /\ x \in Entries \ ta
    BY <1>5, <1>9, <1>10, <2>1 DEF UsedTainted
  <2>3. /\ \A h \in Frames : fr[h].entry = x /\ fr[h].lock \notin Tasks => fr[h].val = wa[o]
        /\ x \in Comex \/ (\A h \in Frames : fr[h].entry = x => ~fr[h].dirty)
              => st[x] = wa[o]
    BY <2>2 DEF PagesOk, NamedRight
  <2> QED BY <2>2, <2>3
<1>21. ZeroRight(q, w2)
  <2> SUFFICES ASSUME NEW n \in Mms, q[n] \in {NoPte, ZeroPte}
               PROVE  w2[n] = Zero
    BY DEF ZeroRight
  <2>1. pt[ParentOf(m, c, n)] = q[n]
    BY <1>3, PteKinds DEF ParentOf, BothHave
  <2> QED BY <1>2, <1>9, <2>1 DEF PagesOk, ZeroRight
<1> QED BY <1>2, <1>6, <1>14, <1>15, <1>16, <1>17, <1>18, <1>19, <1>20, <1>21 DEF PagesOk

LEMMA ForkKeeps ==
  ASSUME SwapInv, NEW m \in Mms, NEW c \in Mms, Fork(m, c)
  PROVE  SwapInv'
<1>1. PICK p : p = IF pte[m].k = "map" THEN [pte[m] EXCEPT !.w = FALSE] ELSE pte[m]
  OBVIOUS
<1>2. PICK q, d, w2, s2, tb, ln :
        q = pte' /\ d = disk' /\ w2 = want' /\ s2 = spoilt' /\ tb = tainted' /\ ln = line'
  OBVIOUS
<1>3. /\ line[m] # <<>> /\ line[c] = <<>> /\ pte[c] = NoPte
      /\ ln = [line EXCEPT ![c] = Append(line[m], c)]
      /\ w2 = [want EXCEPT ![c] = want[m]]
      /\ s2 = IF m \in spoilt THEN spoilt \cup {c} ELSE spoilt
      /\ q = [pte EXCEPT ![m] = p, ![c] = p]
      /\ d = IF p.k = "swap" THEN SwapDuplicate(disk, p.e) ELSE disk
      /\ tb = tainted \cup
            (Comex \cap CASE p.k = "swap" -> {p.e}
                          [] p.k = "map" -> {frame[p.f].entry}
                          [] OTHER -> {})
      /\ UNCHANGED <<frame, store, free, task, rec, ops>>
  BY <1>1, <1>2, StateTypes DEF Fork
<1>4. p \in PteType /\ ForkedPte(pte[m], p)
  <2>1. CASE pte[m].k = "map"
    <3>1. pte[m] \in MapPtes
      BY <2>1, PteKinds, StateTypes
    <3>2. p = [pte[m] EXCEPT !.w = FALSE]
      BY <1>1, <2>1
    <3>3. /\ p \in MapPtes /\ p.k = "map" /\ p.f = pte[m].f /\ p.d = pte[m].d /\ p.w = FALSE
      BY <3>1, <3>2 DEF MapPtes
    <3> QED BY <2>1, <3>3 DEF PteType, ForkedPte
  <2>2. CASE pte[m].k # "map"
    BY <1>1, <2>2, StateTypes DEF ForkedPte
  <2> QED BY <2>1, <2>2
<1>5. BothHave(pte, q, m, c, p)
  BY <1>3, <1>4, StateTypes DEF BothHave
<1>6. Inherits(want, w2, m, c)
  BY <1>3, StateTypes DEF Inherits
<1>7. SpoiltToo(spoilt, s2, m, c)
  BY <1>3, StateTypes DEF SpoiltToo
<1>8. UsedTainted(pte, frame, tainted, tb, m)
  <2>1. tainted \subseteq tb /\ tb \subseteq Comex
    BY <1>3, StateTypes
  <2>2. ASSUME NEW e \in Comex, Names(pte, m, e)
        PROVE  e \in tb
    <3>1. p.k = "swap" /\ p.e = e
      BY <1>4, <2>2, PteKinds DEF Names, ForkedPte
    <3>2. tb = tainted \cup (Comex \cap {p.e})
      BY <1>3, <3>1
    <3> QED BY <3>1, <3>2
  <2>3. ASSUME NEW e \in Comex, NEW f \in Frames, Maps(pte, m, f), frame[f].entry = e
        PROVE  e \in tb
    <3>1. p.k = "map" /\ p.f = f
      BY <1>4, <2>3 DEF Maps, ForkedPte
    <3>2. tb = tainted \cup (Comex \cap {frame[p.f].entry})
      BY <1>3, <3>1
    <3> QED BY <2>3, <3>1, <3>2
  <2> QED BY <2>1, <2>2, <2>3 DEF UsedTainted, Uses
<1>9. c # m /\ PagesOk(pte, frame, disk, store, want, tainted, spoilt)
  BY <1>3 DEF SwapInv
<1>10. /\ PagesOk(q, frame, d, store, w2, tb, s2)
       /\ \A n \in Mms : \A h : Maps(q, n, h) => \E o \in Mms : Maps(pte, o, h)
  <2>1. pte[c] = NoPte /\ d = IF p.k = "swap" THEN SwapDuplicate(disk, p.e) ELSE disk
    BY <1>3
  <2> QED BY <1>4, <1>5, <1>6, <1>7, <1>8, <1>9, <2>1, ForkPages
<1>11. HandsOk(q, frame, task, rec)
  BY <1>10, CopyIs, HandsStay
<1>12. LinesOk(ln)
  <2>1. LinesOk(line)
    BY DEF SwapInv
  <2>2. Append(line[m], c) \in Seq(Mms)
    BY <2>1 DEF LinesOk
  <2> QED BY <1>3, <2>1, <2>2 DEF LinesOk
<1>13. FaultsAlive(task, ln)
  <2>1. \A n \in Mms : line[n] # <<>> => ln[n] = line[n]
    BY <1>3 DEF SwapInv, LinesOk
  <2>2. \A t \in Tasks : task[t] # Idle => task[t].m \in Mms /\ line[task[t].m] # <<>>
    BY FaultKnows, TaskKinds, StateTypes DEF SwapInv, FaultsAlive
  <2> QED BY <2>1, <2>2 DEF FaultsAlive
<1> QED BY <1>2, <1>3, <1>10, <1>11, <1>12, <1>13 DEF SwapInv

-----------------------------------------------------------------------------
LEMMA InitHolds ==
  ASSUME Init
  PROVE  SwapInv
<1>1. /\ pte = [m \in Mms |-> NoPte] /\ frame = [f \in Frames |-> FreeFrame]
      /\ disk = [e \in Disk |-> [count |-> 0, has |-> FALSE]]
      /\ store = [e \in Entries |-> Zero] /\ free = Comex
      /\ task = [t \in Tasks |-> Idle] /\ rec = Idle
      /\ line = [m \in Mms |-> IF m = First THEN <<m>> ELSE <<>>]
      /\ want = [m \in Mms |-> Zero] /\ tainted = {} /\ spoilt = {}
  BY DEF Init
<1>2. /\ \A m \in Mms : \A e : ~Names(pte, m, e)
      /\ \A m \in Mms : \A f : ~Maps(pte, m, f)
      /\ \A f \in Frames : frame[f] = FreeFrame
      /\ \A m \in Mms : pte[m].k # "map"
  BY <1>1, PteKinds DEF Names, Maps
<1>3. PageTypes(pte, frame, disk, store, want, tainted, spoilt)
  BY <1>1, PteKinds, FreeFrames DEF PageTypes, DiskType, Vals
<1>4. FrameForms(pte, frame)
  BY <1>2, FreeFrames, Kinds DEF FrameForms
<1>5. MapExact(pte, frame, disk)
  <2> SUFFICES ASSUME NEW e \in Disk
               PROVE  /\ disk[e].count = Cardinality({m \in Mms : Names(pte, m, e)})
                      /\ disk[e].has <=> \E f \in Frames : frame[f].entry = e
    BY DEF MapExact
  <2>1. {m \in Mms : Names(pte, m, e)} = {}
    BY <1>2
  <2>2. disk[e].count = 0 /\ disk[e].has = FALSE
    BY <1>1
  <2>3. ~\E f \in Frames : frame[f].entry = e
    BY <1>2, FreeFrames, Kinds
  <2> QED BY <2>1, <2>2, <2>3, MmsCount
<1>6. OneUser(pte, frame, tainted) /\ Writers(pte, frame, spoilt)
  BY <1>2 DEF OneUser, Uses, Writers
<1>7. /\ MappedRight(pte, frame, store, want, tainted, spoilt)
      /\ NamedRight(pte, frame, store, want, tainted, spoilt) /\ ZeroRight(pte, want)
  BY <1>1, <1>2 DEF MappedRight, NamedRight, ZeroRight
<1>8. HandsOk(pte, frame, task, rec)
  <2>1. task \in [Tasks -> TaskType] /\ rec \in RecType
    BY <1>1 DEF TaskType, RecType
  <2>2. \A t \in Tasks : task[t].at = "idle"
    BY <1>1, TaskKinds
  <2> QED BY <1>1, <2>1, <2>2, TaskKinds DEF HandsOk, HandTypes, Copies, Reclaimed
<1>9. free \subseteq Comex /\ LinesOk(line) /\ FaultsAlive(task, line)
  <2>1. \A m \in Mms : <<m>> \in Seq(Mms) /\ <<>> \in Seq(Mms)
    OBVIOUS
  <2> QED BY <1>1, <2>1 DEF LinesOk, FaultsAlive
<1> QED BY <1>3, <1>4, <1>5, <1>6, <1>7, <1>8, <1>9 DEF SwapInv, PagesOk

LEMMA FaultKeeps ==
  ASSUME SwapInv, NEW t \in Tasks, Fault(t)
  PROVE  SwapInv'
<1>1. ASSUME NEW m \in Mms, NEW f \in Frames, WpCopy(t, m, f)
      PROVE  SwapInv'
  BY <1>1, WpCopyKeeps
<1>2. CASE WpCopied(t)
  BY <1>2, WpCopiedKeeps
<1>3. ASSUME NEW m \in Mms, DoSwapPage(t, m)
      PROVE  SwapInv'
  BY <1>3, DoSwapPageKeeps
<1>4. CASE FindInCache(t)
  BY <1>4, FindInCacheKeeps
<1>5. CASE ReadFails(t) \/ ReadAgain(t)
  BY <1>5, ReadFailsKeeps
<1>6. ASSUME NEW f \in Frames, AddForRead(t, f)
      PROVE  SwapInv'
  BY <1>6, AddForReadKeeps
<1>7. CASE Fill(t)
  BY <1>7, FillKeeps
<1>8. ASSUME NEW wr \in BOOLEAN, LockPage(t, wr)
      PROVE  SwapInv'
  BY <1>8, LockPageKeeps
<1>9. CASE LockRetry(t)
  BY <1>9, LockRetryKeeps
<1> QED BY <1>1, <1>2, <1>3, <1>4, <1>5, <1>6, <1>7, <1>8, <1>9 DEF Fault

LEMMA ProcessKeeps ==
  ASSUME SwapInv, NEW m \in Mms, Process(m)
  PROVE  SwapInv'
<1>1. CASE DoAnonymousPage(m)
  BY <1>1, DoAnonymousPageKeeps
<1>2. CASE WpReuse(m)
  BY <1>2, WpReuseKeeps
<1>3. CASE Write(m)
  BY <1>3, WriteKeeps
<1>4. CASE Zap(m)
  BY <1>4, ZapKeeps
<1>5. ASSUME NEW c \in Mms, Fork(m, c)
      PROVE  SwapInv'
  BY <1>5, ForkKeeps
<1> QED BY <1>1, <1>2, <1>3, <1>4, <1>5 DEF Process

LEMMA ReclaimKeeps ==
  ASSUME SwapInv, Reclaim
  PROVE  SwapInv'
<1>1. ASSUME NEW f \in Frames, Isolate(f)
      PROVE  SwapInv'
  BY <1>1, IsolateKeeps
<1>2. CASE Activate
  BY <1>2, ActivateKeeps
<1>3. ASSUME NEW e \in Entries, AddToSwap(e)
      PROVE  SwapInv'
  BY <1>3, AddToSwapKeeps
<1>4. CASE AddToSwapFails
  BY <1>4, AddToSwapFailsKeeps
<1>5. ASSUME NEW m \in Mms, TryToUnmap(m)
      PROVE  SwapInv'
  BY <1>5, TryToUnmapKeeps
<1>6. CASE UnmapFails
  BY <1>6, UnmapFailsKeeps
<1>7. CASE PageoutComex
  BY <1>7, PageoutComexKeeps
<1>8. CASE PageoutDisk
  BY <1>8, PageoutDiskKeeps
<1>9. CASE RemoveMapping
  BY <1>9, RemoveMappingKeeps
<1> QED BY <1>1, <1>2, <1>3, <1>4, <1>5, <1>6, <1>7, <1>8, <1>9 DEF Reclaim

LEMMA NextKeeps ==
  ASSUME SwapInv, [Next]_vars
  PROVE  SwapInv'
<1>1. ASSUME NEW t \in Tasks, Fault(t)
      PROVE  SwapInv'
  BY <1>1, FaultKeeps
<1>2. ASSUME NEW m \in Mms, Process(m)
      PROVE  SwapInv'
  BY <1>2, ProcessKeeps
<1>3. CASE Reclaim
  BY <1>3, ReclaimKeeps
<1>4. ASSUME NEW f \in Frames, EndWriteback(f)
      PROVE  SwapInv'
  BY <1>4, EndWritebackKeeps
<1>5. CASE UNCHANGED vars
  BY <1>5 DEF vars, mem, swap, ghosts, SwapInv
<1> QED BY <1>1, <1>2, <1>3, <1>4, <1>5 DEF Next

THEOREM SwapInvariant == Spec => []SwapInv
<1>1. Init => SwapInv
  BY InitHolds
<1>2. SwapInv /\ [Next]_vars => SwapInv'
  BY NextKeeps
<1> QED BY <1>1, <1>2, PTL DEF Spec

-----------------------------------------------------------------------------
(* What an address space reads is what it last wrote there, through copy on  *)
(* write, fork, reclaim, swap-out and swap-in in any order; but for a page   *)
(* whose COMEX page number two owners had, or that was written between       *)
(* add_to_swap() and try_to_unmap().                                         *)
THEOREM ContentsIntact == Spec => []PageIntact
<1>1. SwapInv => PageIntact
  <2> SUFFICES ASSUME SwapInv, NEW m \in Mms
               PROVE  /\ pte[m].k = "zero" => want[m] = Zero
                      /\ pte[m].k = "map" => (frame[pte[m].f].val = want[m] \/ m \in spoilt)
    BY DEF PageIntact
  <2>1. pte[m] \in PteType
    BY StateTypes
  <2>2. pte[m].k = "zero" => want[m] = Zero
    BY <2>1, PteKinds DEF SwapInv, PagesOk, ZeroRight
  <2>3. ASSUME pte[m].k = "map", m \notin spoilt
        PROVE  frame[pte[m].f].val = want[m]
    <3>1. PICK f \in Frames : f = pte[m].f /\ Maps(pte, m, f)
      BY <2>1, <2>3, PteKinds DEF MapPtes, Maps
    <3> QED BY <2>3, <3>1 DEF SwapInv, PagesOk, MappedRight
  <2> QED BY <2>2, <2>3
<1> QED BY <1>1, SwapInvariant, PTL

(* Copy on write: do_wp_page() and do_swap_page() make a page writable for   *)
(* one address space only while no page table maps it and, by its swap map,  *)
(* none names the entry of the disk that it still backs.                     *)
THEOREM WritersAlone == Spec => []WriterAlone
<1>1. SwapInv => WriterAlone
  <2> SUFFICES ASSUME SwapInv, NEW m \in Mms, pte[m].k = "map", pte[m].w, m \notin spoilt
               PROVE  /\ MappedBy(pte[m].f) = {m}
                      /\ frame[pte[m].f].entry \in Disk =>
                           disk[frame[pte[m].f].entry].count = 0
    BY DEF WriterAlone
  <2>1. PICK f \in Frames : f = pte[m].f /\ Maps(pte, m, f)
    BY StateTypes, PteKinds DEF MapPtes, Maps
  <2>2. \A n \in Mms : Shares(pte, frame, n, f) => n = m
    BY <2>1 DEF SwapInv, PagesOk, Writers
  <2>3. MappedBy(f) = {m}
    BY <2>1, <2>2 DEF MappedBy, Maps, Shares
  <2>4. ASSUME NEW e \in Disk, frame[f].entry = e
        PROVE  disk[e].count = 0
    <3>1. \A n \in Mms : ~Names(pte, n, e)
      BY <2>1, <2>2, <2>4, PteOnly DEF Shares
    <3> QED BY <3>1, Counted DEF SwapInv, PagesOk
  <2> QED BY <2>1, <2>3, <2>4
<1> QED BY <1>1, SwapInvariant, PTL

(* swap_duplicate(), swap_free(), swapcache_prepare() and swapcache_free()   *)
(* are called so that the map of the area counts the page tables that name   *)
(* an entry, and SWAP_HAS_CACHE is set while a page of the cache has it.      *)
THEOREM MapExactHeld == Spec => []SwapMapExact
<1>1. SwapInv => SwapMapExact
  <2> SUFFICES ASSUME SwapInv, NEW e \in Disk
               PROVE  /\ disk[e].count = Cardinality({m \in Mms : pte[m] = SwapPte(e)})
                      /\ disk[e].has = (Cached(e) # {})
    BY DEF SwapMapExact
  <2>1. /\ disk[e].count = Cardinality({m \in Mms : Names(pte, m, e)})
        /\ disk[e].has <=> \E f \in Frames : frame[f].entry = e
    BY DEF SwapInv, PagesOk, MapExact
  <2>2. disk[e].has \in BOOLEAN
    BY StateTypes DEF DiskType
  <2>3. (Cached(e) # {}) <=> \E f \in Frames : frame[f].entry = e
    BY DEF Cached
  <2>4. (disk[e].has <=> Cached(e) # {})
    BY <2>1, <2>3
  <2>5. disk[e].has = (Cached(e) # {})
    BY <2>2, <2>4, Zenon
  <2> QED BY <2>1, <2>5 DEF Names
<1> QED BY <1>1, SwapInvariant, PTL
==============================================================================
