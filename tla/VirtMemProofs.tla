--------------------------- MODULE VirtMemProofs ----------------------------
(***************************************************************************)
(* Theorems about module VirtMem, for any threads, address spaces, pages,  *)
(* frames, sectors, files and values, as long as no process ends: page     *)
(* faults and evictions, then what happens to the sectors of the swap area *)
(* and to the contents of pages.                                           *)
(***************************************************************************)
EXTENDS VirtMem, FiniteSetTheorems, WellFoundedInduction, TLAPS

-----------------------------------------------------------------------------
(* Helpers *)

\* A set without two different members has at most one.
LEMMA AtMostOne ==
  ASSUME NEW S, \A x, y \in S : x = y
  PROVE  Cardinality(S) <= 1
<1>1. CASE S = {}
  <2>1. Cardinality(S) = 0
    BY <1>1, FS_EmptySet
  <2> QED BY <2>1
<1>2. CASE S # {}
  <2>1. PICK x \in S : TRUE
    BY <1>2
  <2>2. S = {x}
    BY <2>1
  <2>3. Cardinality({x}) = 1
    BY FS_Singleton
  <2> QED BY <2>2, <2>3
<1> QED BY <1>1, <1>2

\* The hand of the clock always points to a frame.
LEMMA NextFrameIsFrame ==
  ASSUME NEW k \in Int
  PROVE  NextFrame(k) \in Frame
BY VirtMemAssumption DEF NextFrame, Frame

\* NULL is not a page, not a thread; pages have two parts.
LEMMA NullIsNothing ==
  /\ NULL \notin PageId /\ NULL \notin Thread
  /\ \A p \in PageId : p[1] \in Space
BY VirtMemAssumption DEF PageId

\* The states of the handler.
LEMMA Labels ==
  /\ Evicting \subseteq Holding /\ Holding \subseteq Faulting /\ Faulting \subseteq PC
  /\ Faulting \cap {"user", "done", "waitIo"} = {}
  /\ PC = Faulting \cup {"user", "done", "waitIo"}
BY DEF Evicting, Holding, Faulting, PC

\* The head of the free list is a free frame, and leaves it.
LEMMA TakeFree ==
  ASSUME NEW list \in Seq(Frame), list # <<>>,
         \A i, j \in 1..Len(list) : list[i] = list[j] => i = j
  PROVE  /\ Head(list) \in {list[i] : i \in 1..Len(list)}
         /\ {Tail(list)[i] : i \in 1..Len(Tail(list))} = {list[i] : i \in 1..Len(list)} \ {Head(list)}
         /\ \A i, j \in 1..Len(Tail(list)) : Tail(list)[i] = Tail(list)[j] => i = j
         /\ Head(list) \in Frame /\ Tail(list) \in Seq(Frame)
<1>1. /\ Len(list) \in Nat /\ Len(list) > 0 /\ Len(Tail(list)) = Len(list) - 1
      /\ \A i \in 1..Len(Tail(list)) : Tail(list)[i] = list[i + 1] /\ i + 1 \in 1..Len(list)
      /\ Head(list) = list[1] /\ 1 \in 1..Len(list)
      /\ Head(list) \in Frame /\ Tail(list) \in Seq(Frame)
  OBVIOUS
<1>2. ASSUME NEW i \in 1..Len(Tail(list))
      PROVE  Tail(list)[i] \in {list[j] : j \in 1..Len(list)} \ {Head(list)}
  BY <1>1
<1>3. ASSUME NEW i \in 1..Len(list), list[i] # Head(list)
      PROVE  list[i] \in {Tail(list)[j] : j \in 1..Len(Tail(list))}
  <2>1. i # 1
    BY <1>1, <1>3
  <2>2. i - 1 \in 1..Len(Tail(list)) /\ (i - 1) + 1 = i
    BY <1>1, <2>1
  <2> QED BY <1>1, <2>2
<1>4. \A i, j \in 1..Len(Tail(list)) : Tail(list)[i] = Tail(list)[j] => i = j
  BY <1>1
<1> QED BY <1>1, <1>2, <1>3, <1>4

-----------------------------------------------------------------------------
(* What the invariant says *)

\* The properties that the runs check follow from the invariant.
LEMMA InvariantImplies ==
  ASSUME VMInv
  PROVE  IoIsALock /\ (machine = "on" => FramesAgree)
<1> USE DEF VMInv, VMTypeOK
<1>1. ASSUME NEW p \in PageId
      PROVE  /\ p \in io => p \notin valid
             /\ p \in io <=> {t \in Thread : Moves(t, p)} # {}
             /\ Cardinality({t \in Thread : Moves(t, p)}) <= 1
  <2>1. p \in io => p \notin valid /\ \E t \in Thread : Moves(t, p)
    BY DEF PagesOK
  <2>2. ASSUME NEW t \in Thread, Moves(t, p) PROVE p \in io
    <3>1. CASE page[t] = p /\ pc[t] \notin {"user", "done", "waitIo"}
      BY <3>1, Labels DEF HandlerOK
    <3>2. CASE victim[t] = p /\ pc[t] # "victim"
      BY <3>2, NullIsNothing DEF HandlerOK, Evicting
    <3> QED BY <2>2, <3>1, <3>2 DEF Moves
  <2>3. Cardinality({t \in Thread : Moves(t, p)}) <= 1
    <3>1. \A t, u \in {x \in Thread : Moves(x, p)} : t = u
      BY DEF HandlersApart
    <3> QED BY <3>1, AtMostOne
  <2> QED BY <2>1, <2>2, <2>3
<1>2. IoIsALock
  BY <1>1 DEF IoIsALock
<1>3. ASSUME NEW f \in Frame
      PROVE  /\ f \in free <=> \E i \in 1..Len(free_page_list) : free_page_list[i] = f
             /\ f \in locked <=> Holders(f) # {}
             /\ Cardinality(Holders(f)) <= 1
             /\ ~(f \in free /\ f \in locked)
             /\ f \notin free \cup locked => tpr[f] \in valid /\ physicalPage[tpr[f]] = f
  <2>1. Holders(f) = {t \in Thread : frame[t] = f /\ pc[t] \in Holding}
    BY DEF Holders, Holding, Evicting
  <2>2. f \in locked <=> Holders(f) # {}
    BY <2>1 DEF FramesOK, HandlerOK
  <2>3. Cardinality(Holders(f)) <= 1
    <3>1. \A t, u \in Holders(f) : t = u
      BY <2>1 DEF HandlersApart
    <3> QED BY <3>1, AtMostOne
  <2> QED BY <2>2, <2>3 DEF FramesOK
<1>4. ASSUME NEW p \in valid
      PROVE  physicalPage[p] \in Frame /\ tpr[physicalPage[p]] = p
             /\ physicalPage[p] \notin free \cup locked
  BY DEF PagesOK
<1>5. ASSUME machine = "on" PROVE FramesAgree
  BY <1>3, <1>4, <1>5 DEF FramesAgree, FramesOK
<1> QED BY <1>2, <1>5

-----------------------------------------------------------------------------
(* Steps of the handler *)

\* The invariant without types and without what is about the machine.
Core == (\A t \in Thread : HandlerOK(t)) /\ HandlersApart /\ FramesOK /\ PagesOK

\* Who moves a page, in terms of the positions in the handler.
LEMMA MovesAs ==
  ASSUME VMInv, NEW t \in Thread, NEW p \in PageId
  PROVE  /\ Moves(t, p) <=> \/ page[t] = p /\ pc[t] \in Faulting
                            \/ victim[t] = p /\ pc[t] \in {"writing", "written"}
         /\ Moves(t, p) => p \in io
<1> USE DEF VMInv, VMTypeOK
<1>1. pc[t] \in Faulting <=> pc[t] \notin {"user", "done", "waitIo"}
  BY Labels
<1>2. victim[t] = p /\ pc[t] # "victim" => pc[t] \in {"writing", "written"}
  BY NullIsNothing DEF HandlerOK, Evicting
<1> QED BY <1>1, <1>2 DEF Moves, HandlerOK

\* While t has its turn, no other thread is between the choice of a victim
\* and the test of its io bit.
LEMMA TurnAlone ==
  ASSUME VMInv, NEW t \in Thread, Turn(t)
  PROVE  machine = "on" /\ \A u \in Thread : u # t => pc[u] # "victim"
BY NullIsNothing DEF Turn, VMInv, HandlerOK

\* As long as no process ends, no table is deleted.
LEMMA NoneDangling ==
  ASSUME VMInv, NEW p \in PageId
  PROVE  ~Dangling(p)
BY NullIsNothing DEF VMInv, NobodyLeaves, Dangling

\* A step of t in the program, or between the disk and the frame, that leaves
\* the tables alone.
LEMMA OutsideKeeps ==
  ASSUME VMInv, VMTypeOK', NEW t \in Thread,
         \A u \in Thread : u # t => pc'[u] = pc[u] /\ page'[u] = page[u],
         UNCHANGED <<valid, io, physicalPage, free, locked, tpr, free_page_list, frame, victim>>,
         \/ pc[t] \notin Faulting /\ pc'[t] \notin Faulting
         \/ /\ pc[t] \in {"loading", "alloc"} /\ pc'[t] \in {"loading", "alloc"}
            /\ page'[t] = page[t]
         \/ pc'[t] = pc[t] /\ page'[t] = page[t],
         \A u \in Thread : pc[u] = "victim" => g_current_thread' = u
  PROVE  Core'
<1> USE DEF VMInv
<1>1. \A u \in Thread :
        /\ \A l \in Holding : pc'[u] = l <=> pc[u] = l
        /\ pc'[u] = "clock" <=> pc[u] = "clock"
        /\ pc'[u] \in Holding <=> pc[u] \in Holding
        /\ pc'[u] \in Evicting <=> pc[u] \in Evicting
        /\ pc'[u] \in Faulting <=> pc[u] \in Faulting
        /\ pc[u] \in Faulting => page'[u] = page[u]
  BY DEF Holding, Evicting, Faulting
<1>2. \A u \in Thread : HandlerOK(u)'
  <2>1. ASSUME NEW u \in Thread PROVE HandlerOK(u)'
    <3>1. HandlerOK(u)
      OBVIOUS
    <3>2. pc'[u] = "victim" <=> pc[u] = "victim"
      BY <1>1 DEF Holding, Evicting
    <3>3. pc'[u] = "install" <=> pc[u] = "install"
      BY <1>1 DEF Holding
    <3>4. pc'[u] \in {"writing", "written"} <=> pc[u] \in {"writing", "written"}
      BY <1>1 DEF Holding, Evicting
    <3>5. pc[u] \in Evicting \/ pc[u] = "install" => page'[u] = page[u]
      BY <1>1 DEF Faulting, Holding, Evicting
    <3>6. {"writing", "written"} \subseteq Evicting
      BY DEF Evicting
    <3> QED BY <1>1, <3>1, <3>2, <3>3, <3>4, <3>5, <3>6 DEF HandlerOK
  <2> QED BY <2>1
<1>3. ASSUME NEW u \in Thread, NEW p \in PageId PROVE Moves(u, p)' <=> Moves(u, p)
  <2>1. pc'[u] \in Faulting <=> pc'[u] \notin {"user", "done", "waitIo"}
    BY Labels DEF VMTypeOK
  <2>2. pc[u] \in Faulting <=> pc[u] \notin {"user", "done", "waitIo"}
    BY Labels DEF VMTypeOK
  <2>3. pc'[u] = "victim" <=> pc[u] = "victim"
    BY <1>1 DEF Holding, Evicting
  <2> QED BY <1>1, <2>1, <2>2, <2>3 DEF Moves
<1>4. HandlersApart'
  BY <1>1, <1>3 DEF HandlersApart
<1>5. FramesOK'
  BY <1>1 DEF FramesOK
<1>6. PagesOK'
  BY <1>3 DEF PagesOK, VMTypeOK
<1> QED BY <1>2, <1>4, <1>5, <1>6 DEF Core

\* The locals of the threads that do not take the step.
Others(t) ==
  \A u \in Thread : u # t =>
    pc'[u] = pc[u] /\ page'[u] = page[u] /\ frame'[u] = frame[u] /\ victim'[u] = victim[u]

\* What t, beginning a fault, needs: it is the only one to move p.
LEMMA BeginFaultKeeps ==
  ASSUME VMInv, VMTypeOK', NEW t \in Thread, NEW p \in PageId, BeginFault(t, p)
  PROVE  Core'
<1> USE DEF VMInv
<1>1. /\ Turn(t) /\ p \notin valid /\ p \notin io /\ io' = io \cup {p}
      /\ page' = [page EXCEPT ![t] = p]
      /\ pc' = [pc EXCEPT ![t] = "alloc"] \/ pc' = [pc EXCEPT ![t] = "loading"]
      /\ pc[t] \in {"user", "waitIo"}
      /\ UNCHANGED <<valid, physicalPage, free, locked, tpr, free_page_list, frame, victim>>
  BY DEF BeginFault, MayLoad, At, Goto, frameVars
<1>2. /\ pc'[t] \in {"alloc", "loading"} /\ page'[t] = p /\ Others(t)
  BY <1>1 DEF VMTypeOK, Others
<1>3. victim[t] = NULL /\ pc[t] \notin Faulting /\ pc'[t] \in Faulting \ Holding
  BY <1>1, <1>2 DEF HandlerOK, Evicting, Faulting, Holding
<1>4. \A u \in Thread : u # t => pc[u] # "victim"
  BY <1>1, TurnAlone
<1>5. ASSUME NEW u \in Thread PROVE HandlerOK(u)'
  <2>1. CASE u = t
    BY <1>1, <1>2, <1>3, <2>1 DEF HandlerOK, Evicting, Holding
  <2>2. CASE u # t
    <3>1. HandlerOK(u) /\ pc'[u] = pc[u] /\ page'[u] = page[u] /\ frame'[u] = frame[u]
          /\ victim'[u] = victim[u] /\ pc[u] # "victim"
      BY <1>2, <1>4, <2>2 DEF Others
    <3> QED BY <1>1, <3>1 DEF HandlerOK
  <2> QED BY <2>1, <2>2
<1>6. ASSUME NEW u \in Thread, NEW q \in PageId
      PROVE  Moves(u, q)' <=> Moves(u, q) \/ (u = t /\ q = p)
  <2>1. CASE u = t
    <3>1. ~Moves(t, q)
      BY <1>1, <1>3, NullIsNothing DEF Moves
    <3>2. Moves(t, q)' <=> q = p
      BY <1>1, <1>2, <1>3, NullIsNothing DEF Moves
    <3> QED BY <2>1, <3>1, <3>2
  <2>2. CASE u # t
    BY <1>2, <2>2 DEF Others, Moves
  <2> QED BY <2>1, <2>2
<1>7. \A u \in Thread : ~Moves(u, p)
  BY <1>1, MovesAs
<1>8. HandlersApart'
  <2>1. \A u \in Thread : pc'[u] \in Holding => pc[u] \in Holding /\ u # t
    BY <1>2, <1>3 DEF Others
  <2>2. \A u, w \in Thread : \A q \in PageId : Moves(u, q)' /\ Moves(w, q)' => u = w
    BY <1>6, <1>7 DEF HandlersApart
  <2> QED BY <1>1, <2>1, <2>2 DEF HandlersApart
<1>9. FramesOK'
  <2>1. \A u \in Thread : pc[u] \in Holding => pc'[u] \in Holding
    BY <1>2, <1>3, Labels DEF Others
  <2> QED BY <1>1, <2>1 DEF FramesOK
<1>10. PagesOK'
  BY <1>1, <1>6 DEF PagesOK, VMTypeOK
<1> QED BY <1>5, <1>8, <1>9, <1>10 DEF Core

\* A new page gets a free frame, or the clock is started.
LEMMA AllocKeeps ==
  ASSUME VMInv, VMTypeOK', NEW t \in Thread, Alloc(t)
  PROVE  Core'
<1> USE DEF VMInv
<1>1. Turn(t) /\ pc[t] = "alloc" /\ UNCHANGED <<valid, io, physicalPage, page, victim>>
  BY DEF Alloc, tableVars, bitVars
<1>2. \A u \in Thread : u # t => pc[u] # "victim"
  BY <1>1, TurnAlone
<1>3. victim[t] = NULL /\ page[t] \in io /\ page[t] \in PageId /\ t \in Thread
  BY <1>1 DEF HandlerOK, Evicting, Faulting, VMTypeOK
<1>4. ASSUME NEW u \in Thread, NEW q \in PageId, pc'[t] \in Faulting \ Evicting, Others(t)
      PROVE  Moves(u, q)' <=> Moves(u, q)
  <2>1. CASE u = t
    <3>1. Moves(t, q) <=> q = page[t]
      BY <1>1, <1>3, NullIsNothing DEF Moves
    <3>2. Moves(t, q)' <=> q = page[t]
      BY <1>1, <1>3, <1>4, NullIsNothing, Labels DEF Moves
    <3> QED BY <2>1, <3>1, <3>2
  <2>2. CASE u # t
    BY <1>1, <1>4, <2>2 DEF Others, Moves
  <2> QED BY <2>1, <2>2
<1>5. CASE free_page_list # <<>>
  <2> DEFINE f == Head(free_page_list)
  <2>1. /\ free_page_list' = Tail(free_page_list) /\ free' = free \ {f}
        /\ tpr' = [tpr EXCEPT ![f] = page[t]] /\ locked' = locked \cup {f}
        /\ frame' = [frame EXCEPT ![t] = f] /\ pc' = [pc EXCEPT ![t] = "install"]
    BY <1>5 DEF Alloc, Goto, Link
  <2>2. /\ free_page_list \in Seq(Frame)
        /\ \A i, j \in 1..Len(free_page_list) : free_page_list[i] = free_page_list[j] => i = j
        /\ free = {free_page_list[i] : i \in 1..Len(free_page_list)}
    BY DEF VMTypeOK, FramesOK
  <2>3. /\ f \in free /\ f \in Frame
        /\ free' = {free_page_list'[i] : i \in 1..Len(free_page_list')}
        /\ \A i, j \in 1..Len(free_page_list') : free_page_list'[i] = free_page_list'[j] => i = j
    <3> DEFINE rest == Tail(free_page_list)
    <3>1. /\ f \in free /\ f \in Frame
          /\ {rest[i] : i \in 1..Len(rest)} = free \ {f}
          /\ \A i, j \in 1..Len(rest) : rest[i] = rest[j] => i = j
      BY <1>5, <2>2, TakeFree
    <3>2. free_page_list' = rest /\ free' = free \ {f}
      BY <2>1
    <3> HIDE DEF rest, f
    <3> QED BY <3>1, <3>2
  <2> HIDE DEF f
  <2>4. f \notin locked /\ \A u \in Thread : pc[u] \in Holding => frame[u] # f
    BY <2>3 DEF FramesOK, HandlerOK
  <2>5. \A u \in Thread : pc[u] \notin Evicting \cup {"clock"}
    BY <2>3 DEF HandlerOK
  <2>6. /\ pc'[t] = "install" /\ frame'[t] = f /\ Others(t)
        /\ tpr'[f] = page[t] /\ \A g \in Frame : g # f => tpr'[g] = tpr[g]
    BY <1>1, <2>1, <2>3 DEF VMTypeOK, Others
  <2>7. "install" \in Holding /\ "install" \in Faulting /\ "install" \notin Evicting
    BY DEF Holding, Faulting, Evicting
  <2>8. ASSUME NEW u \in Thread PROVE HandlerOK(u)'
    <3>1. CASE u = t
      BY <1>1, <1>3, <2>1, <2>3, <2>6, <2>7, <3>1 DEF HandlerOK, Evicting
    <3>2. CASE u # t
      <4>1. HandlerOK(u) /\ pc'[u] = pc[u] /\ page'[u] = page[u] /\ frame'[u] = frame[u]
            /\ victim'[u] = victim[u] /\ pc[u] \notin Evicting /\ pc[u] # "clock"
        BY <2>5, <2>6, <3>2 DEF Others
      <4>2. pc[u] = "install" => frame[u] \in Frame /\ frame[u] # f
        BY <2>4, <2>7, <4>1 DEF HandlerOK
      <4>3. "victim" \in Evicting /\ "writing" \in Evicting /\ "written" \in Evicting
        BY DEF Evicting
      <4> QED BY <1>1, <2>1, <2>6, <4>1, <4>2, <4>3 DEF HandlerOK
    <3> QED BY <3>1, <3>2
  <2>9. \A u \in Thread, q \in PageId : Moves(u, q)' <=> Moves(u, q)
    BY <1>4, <2>6, <2>7
  <2>10. HandlersApart'
    <3>1. ASSUME NEW u \in Thread, NEW w \in Thread,
                 pc'[u] \in Holding, pc'[w] \in Holding, frame'[u] = frame'[w]
          PROVE  u = w
      BY <2>4, <2>6, <3>1 DEF HandlersApart, Others
    <3> QED BY <2>9, <3>1 DEF HandlersApart
  <2>11. FramesOK'
    <3>1. ASSUME NEW g \in locked'
          PROVE  g \notin free' /\ \E u \in Thread : pc'[u] \in Holding /\ frame'[u] = g
      <4>1. CASE g = f
        BY <2>1, <2>6, <2>7, <4>1
      <4>2. CASE g # f
        <5>1. PICK u \in Thread : pc[u] \in Holding /\ frame[u] = g
          BY <2>1, <4>2 DEF FramesOK
        <5>2. u # t
          BY <1>1, <5>1 DEF Holding, Evicting
        <5> QED BY <2>1, <2>6, <4>2, <5>1, <5>2 DEF FramesOK, Others
      <4> QED BY <4>1, <4>2
    <3>2. ASSUME NEW g \in Frame \ (free' \cup locked')
          PROVE  tpr'[g] \in valid' /\ physicalPage'[tpr'[g]] = g
      BY <1>1, <2>1, <2>6, <3>2 DEF FramesOK
    <3> QED BY <2>3, <3>1, <3>2 DEF FramesOK
  <2>12. PagesOK'
    <3>1. ASSUME NEW p \in valid
          PROVE  /\ physicalPage[p] \in Frame \ (free' \cup locked')
                 /\ tpr'[physicalPage[p]] = p /\ p \notin io
      BY <2>1, <2>3, <2>6, <3>1 DEF PagesOK
    <3> QED BY <1>1, <2>9, <3>1 DEF PagesOK, VMTypeOK
  <2> QED BY <2>8, <2>10, <2>11, <2>12 DEF Core
<1>6. CASE free_page_list = <<>>
  <2>1. /\ frame' = [frame EXCEPT ![t] = NextFrame(i_clock)] /\ pc' = [pc EXCEPT ![t] = "clock"]
        /\ UNCHANGED <<free_page_list, free, tpr, locked>>
    BY <1>6 DEF Alloc, Goto
  <2>2. free = {}
    BY <1>6 DEF FramesOK
  <2>3. pc'[t] = "clock" /\ frame'[t] \in Frame /\ Others(t)
    BY <1>1, <2>1, NextFrameIsFrame DEF VMTypeOK, Others
  <2>4. "clock" \in Faulting /\ "clock" \notin Holding /\ "clock" \notin Evicting
    BY DEF Faulting, Holding, Evicting
  <2>5. ASSUME NEW u \in Thread PROVE HandlerOK(u)'
    <3>1. CASE u = t
      BY <1>1, <1>3, <2>1, <2>2, <2>3, <2>4, <3>1 DEF HandlerOK, Evicting
    <3>2. CASE u # t
      <4>1. HandlerOK(u) /\ pc'[u] = pc[u] /\ page'[u] = page[u] /\ frame'[u] = frame[u]
            /\ victim'[u] = victim[u] /\ pc[u] # "victim"
        BY <1>2, <2>3, <3>2 DEF Others
      <4> QED BY <1>1, <2>1, <4>1 DEF HandlerOK
    <3> QED BY <3>1, <3>2
  <2>6. \A u \in Thread, q \in PageId : Moves(u, q)' <=> Moves(u, q)
    BY <1>4, <2>3, <2>4
  <2>7. \A u \in Thread : (pc'[u] \in Holding <=> pc[u] \in Holding)
                          /\ (pc[u] \in Holding => frame'[u] = frame[u])
    BY <1>1, <2>3, <2>4 DEF Others, Holding, Evicting
  <2>8. HandlersApart'
    BY <2>6, <2>7 DEF HandlersApart
  <2>9. FramesOK'
    BY <1>1, <2>1, <2>7 DEF FramesOK
  <2>10. PagesOK'
    BY <1>1, <2>1, <2>6 DEF PagesOK, VMTypeOK
  <2> QED BY <2>5, <2>8, <2>9, <2>10 DEF Core
<1> QED BY <1>5, <1>6

\* A thread that has a frame and no victim has loaded its page, and nobody
\* else has the frame or moves the page.
LEMMA InstallKeeps ==
  ASSUME VMInv, VMTypeOK', NEW t \in Thread, Install(t)
  PROVE  Core' /\ machine' = machine
<1> USE DEF VMInv
<1> DEFINE p == page[t]
           f == frame[t]
<1>1. /\ Turn(t) /\ pc[t] = "install"
      /\ physicalPage' = [physicalPage EXCEPT ![p] = f]
      /\ io' = io \ {p} /\ valid' = valid \cup {p} /\ locked' = locked \ {f}
      /\ machine' = IF f \in locked /\ f \notin free THEN machine ELSE "aborted"
      /\ page' = [page EXCEPT ![t] = NULL] /\ frame' = [frame EXCEPT ![t] = NULL]
      /\ pc' = [pc EXCEPT ![t] = "user"]
      /\ UNCHANGED <<free, tpr, free_page_list, victim>>
  BY DEF Install, ClearIo, Goto
<1>2. /\ "install" \in Holding /\ "install" \in Faulting /\ "install" \notin Evicting
      /\ {"victim", "writing", "written"} = Evicting /\ Evicting \subseteq Holding
      /\ Holding \subseteq Faulting /\ "user" \notin Faulting
  BY DEF Holding, Faulting, Evicting
<1>3. /\ p \in io /\ p \in PageId /\ p \notin valid
      /\ f \in Frame /\ f \in locked /\ f \notin free /\ tpr[f] = p /\ victim[t] = NULL
  BY <1>1, <1>2 DEF HandlerOK, VMTypeOK, FramesOK, PagesOK
<1>4. Moves(t, p)
  BY <1>1 DEF Moves
<1>5. \A u \in Thread : u # t => pc[u] # "victim"
  BY <1>1, TurnAlone
<1>6. /\ Others(t) /\ pc'[t] = "user" /\ physicalPage'[p] = f
      /\ \A q \in PageId : q # p => physicalPage'[q] = physicalPage[q]
  BY <1>1, <1>3 DEF Others, VMTypeOK
<1> HIDE DEF p, f
<1>7. ASSUME NEW u \in Thread, u # t
      PROVE  /\ ~Moves(u, p)
             /\ pc[u] \in Faulting => page[u] # p
             /\ pc[u] \in Holding => frame[u] # f
             /\ pc[u] \in Evicting => victim[u] # p
  <2>1. ~Moves(u, p)
    BY <1>3, <1>4, <1>7 DEF HandlersApart
  <2>2. Moves(u, p) <=> \/ page[u] = p /\ pc[u] \in Faulting
                        \/ victim[u] = p /\ pc[u] \in {"writing", "written"}
    BY <1>3, MovesAs
  <2>3. pc[u] \in Holding => frame[u] # f
    BY <1>1, <1>2, <1>7 DEF HandlersApart, f
  <2> QED BY <1>2, <1>5, <1>7, <2>1, <2>2, <2>3
<1>8. ASSUME NEW u \in Thread PROVE HandlerOK(u)'
  <2>1. CASE u = t
    BY <1>1, <1>2, <1>3, <1>6, <2>1 DEF HandlerOK
  <2>2. CASE u # t
    <3>1. HandlerOK(u) /\ pc'[u] = pc[u] /\ page'[u] = page[u] /\ frame'[u] = frame[u]
          /\ victim'[u] = victim[u] /\ pc[u] # "victim"
      BY <1>5, <1>6, <2>2 DEF Others
    <3>2. /\ pc[u] \in Faulting => page[u] # p
          /\ pc[u] \in Holding => frame[u] # f
          /\ pc[u] \in Evicting => victim[u] # p
      BY <1>7, <2>2
    <3> QED BY <1>1, <1>2, <3>1, <3>2 DEF HandlerOK
  <2> QED BY <2>1, <2>2
<1>9. ASSUME NEW u \in Thread, NEW q \in PageId
      PROVE  Moves(u, q)' <=> Moves(u, q) /\ q # p
  <2>1. CASE u = t
    <3>1. ~Moves(t, q)'
      BY <1>1, <1>3, <1>6, NullIsNothing DEF Moves
    <3>2. Moves(t, q) => q = p
      BY <1>3, NullIsNothing DEF Moves, p
    <3> QED BY <2>1, <3>1, <3>2
  <2>2. CASE u # t
    <3>1. Moves(u, q)' <=> Moves(u, q)
      BY <1>6, <2>2 DEF Others, Moves
    <3> QED BY <1>7, <2>2, <3>1
  <2> QED BY <2>1, <2>2
<1>10. HandlersApart'
  <2>1. \A u \in Thread : pc'[u] \in Holding => u # t /\ pc[u] \in Holding /\ frame'[u] = frame[u]
    BY <1>2, <1>6 DEF Others
  <2> QED BY <1>9, <2>1 DEF HandlersApart
<1>11. FramesOK'
  <2>1. ASSUME NEW g \in locked'
        PROVE  g \notin free' /\ \E u \in Thread : pc'[u] \in Holding /\ frame'[u] = g
    <3>1. g \in locked /\ g # f
      BY <1>1, <2>1
    <3>2. PICK u \in Thread : pc[u] \in Holding /\ frame[u] = g
      BY <3>1 DEF FramesOK
    <3>3. u # t
      BY <3>1, <3>2 DEF f
    <3> QED BY <1>1, <1>6, <3>1, <3>2, <3>3 DEF FramesOK, Others
  <2>2. ASSUME NEW g \in Frame \ (free' \cup locked')
        PROVE  tpr'[g] \in valid' /\ physicalPage'[tpr'[g]] = g
    <3>1. CASE g = f
      BY <1>1, <1>3, <1>6, <3>1
    <3>2. CASE g # f
      <4>1. tpr[g] \in valid /\ physicalPage[tpr[g]] = g
        BY <1>1, <2>2, <3>2 DEF FramesOK
      <4> QED BY <1>1, <1>3, <1>6, <4>1 DEF VMTypeOK
    <3> QED BY <3>1, <3>2
  <2> QED BY <1>1, <2>1, <2>2 DEF FramesOK
<1>12. PagesOK'
  <2>1. ASSUME NEW q \in valid'
        PROVE  /\ physicalPage'[q] \in Frame \ (free' \cup locked')
               /\ tpr'[physicalPage'[q]] = q /\ q \notin io'
    <3>1. CASE q = p
      BY <1>1, <1>3, <1>6, <3>1
    <3>2. CASE q # p
      BY <1>1, <1>6, <2>1, <3>2 DEF PagesOK, VMTypeOK
    <3> QED BY <3>1, <3>2
  <2>2. ASSUME NEW q \in io' PROVE \E u \in Thread : Moves(u, q)'
    BY <1>1, <1>9, <2>2 DEF PagesOK, VMTypeOK
  <2> QED BY <2>1, <2>2 DEF PagesOK
<1> QED BY <1>1, <1>3, <1>8, <1>10, <1>11, <1>12 DEF Core

\* The frame under the hand of the clock has a page: there is no free one.
LEMMA ClockSeesPage ==
  ASSUME VMInv, NEW t \in Thread, pc[t] = "clock"
  PROVE  /\ free = {} /\ frame[t] \in Frame /\ tpr[frame[t]] \in PageId
         /\ frame[t] \notin locked =>
              tpr[frame[t]] \in valid /\ physicalPage[tpr[frame[t]]] = frame[t]
<1> USE DEF VMInv
<1>1. free = {} /\ frame[t] \in Frame
  BY DEF HandlerOK
<1>2. frame[t] \notin locked => tpr[frame[t]] \in valid /\ physicalPage[tpr[frame[t]]] = frame[t]
  BY <1>1 DEF FramesOK
<1>3. CASE frame[t] \in locked
  <2>1. PICK u \in Thread : pc[u] \in Holding /\ frame[u] = frame[t]
    BY <1>3 DEF FramesOK
  <2>2. CASE pc[u] \in Evicting
    BY <2>1, <2>2, <1>1, <1>2 DEF HandlerOK
  <2>3. CASE pc[u] = "install"
    <3>1. page[u] \in io /\ tpr[frame[u]] = page[u]
      BY <2>1, <2>3, Labels DEF HandlerOK
    <3> QED BY <1>1, <1>2, <2>1, <3>1 DEF VMTypeOK
  <2> QED BY <2>1, <2>2, <2>3 DEF Holding
<1> QED BY <1>1, <1>2, <1>3 DEF VMTypeOK

\* The clock loop goes on, or takes a frame that is not locked and makes its
\* page invalid.
LEMMA ClockKeeps ==
  ASSUME VMInv, VMTypeOK', NEW t \in Thread, Clock(t)
  PROVE  Core' /\ machine' = machine
<1> USE DEF VMInv
<1> DEFINE k == frame[t]
           q == tpr[k]
<1>1. /\ Turn(t) /\ pc[t] = "clock"
      /\ UNCHANGED <<io, physicalPage, free, tpr, free_page_list, page>>
  BY DEF Clock
<1>2. /\ free = {} /\ k \in Frame /\ q \in PageId
      /\ k \notin locked => q \in valid /\ physicalPage[q] = k
  BY <1>1, ClockSeesPage
<1>3. ~Dangling(q)
  BY <1>2, NoneDangling
<1>4. \A u \in Thread : u # t => pc[u] # "victim"
  BY <1>1, TurnAlone
<1>5. /\ "clock" \in Faulting /\ "clock" \notin Holding /\ "victim" \in Holding
      /\ "victim" \in Faulting /\ "install" \notin Evicting
      /\ {"victim", "writing", "written"} = Evicting /\ Evicting \subseteq Holding
  BY DEF Faulting, Holding, Evicting
<1>6. victim[t] = NULL /\ page[t] \in io /\ page[t] \in PageId
  BY <1>1, <1>5 DEF HandlerOK, VMTypeOK
<1>7. CASE Busy(k)
  <2>1. /\ frame' = [frame EXCEPT ![t] = NextFrame(k)]
        /\ UNCHANGED <<valid, locked, victim, pc, machine>>
    BY <1>3, <1>7 DEF Clock
  <2>2. frame'[t] \in Frame /\ Others(t)
    BY <1>1, <1>2, <2>1, NextFrameIsFrame DEF VMTypeOK, Others, Frame
  <2>3. ASSUME NEW u \in Thread PROVE HandlerOK(u)'
    <3>1. CASE u = t
      BY <1>1, <1>2, <1>5, <1>6, <2>1, <2>2, <3>1 DEF HandlerOK
    <3>2. CASE u # t
      <4>1. HandlerOK(u) /\ frame'[u] = frame[u] /\ pc[u] # "victim"
        BY <1>4, <2>2, <3>2 DEF Others
      <4> QED BY <1>1, <2>1, <4>1 DEF HandlerOK
    <3> QED BY <3>1, <3>2
  <2>4. \A u \in Thread : pc[u] \in Holding => frame'[u] = frame[u]
    BY <1>1, <1>5, <2>2 DEF Others
  <2>5. HandlersApart'
    BY <1>1, <2>1, <2>4 DEF HandlersApart, Moves
  <2>6. FramesOK' /\ PagesOK'
    BY <1>1, <2>1, <2>4 DEF FramesOK, PagesOK, Moves
  <2> QED BY <2>1, <2>3, <2>5, <2>6 DEF Core
<1>8. CASE ~Busy(k)
  <2>1. /\ valid' = valid \ {q} /\ locked' = locked \cup {k}
        /\ victim' = [victim EXCEPT ![t] = q] /\ pc' = [pc EXCEPT ![t] = "victim"]
        /\ g_current_thread' = t
        /\ UNCHANGED <<frame, machine>>
    BY <1>3, <1>8 DEF Clock, Goto, GoOn
  <2>2. k \notin locked /\ q \in valid /\ physicalPage[q] = k
    BY <1>2, <1>8 DEF Busy
  <2>3. q \notin io
    BY <2>2 DEF PagesOK
  <2>4. victim'[t] = q /\ pc'[t] = "victim" /\ Others(t)
    BY <1>1, <1>2, <2>1 DEF VMTypeOK, Others
  <2>5. tpr'[k] = q /\ frame'[t] = k
    BY <1>1, <2>1
  <2> HIDE DEF k, q
  <2>6. ASSUME NEW u \in Thread PROVE HandlerOK(u)'
    <3>1. CASE u = t
      BY <1>1, <1>2, <1>5, <1>6, <2>1, <2>3, <2>4, <2>5, <3>1 DEF HandlerOK
    <3>2. CASE u # t
      <4>1. HandlerOK(u) /\ pc'[u] = pc[u] /\ page'[u] = page[u] /\ frame'[u] = frame[u]
            /\ victim'[u] = victim[u] /\ pc[u] # "victim"
        BY <1>4, <2>4, <3>2 DEF Others
      <4> QED BY <1>1, <2>1, <4>1 DEF HandlerOK
    <3> QED BY <3>1, <3>2
  <2>7. \A u \in Thread : \A r \in PageId : Moves(u, r)' <=> Moves(u, r)
    <3>1. \A r \in PageId : Moves(t, r)' <=> Moves(t, r)
      BY <1>1, <1>6, <2>4, NullIsNothing DEF Moves
    <3>2. \A u \in Thread : u # t => \A r \in PageId : Moves(u, r)' <=> Moves(u, r)
      BY <2>4 DEF Moves, Others
    <3> QED BY <3>1, <3>2
  <2>8. \A u \in Thread : pc[u] \in Holding => u # t /\ frame[u] # k
    BY <1>1, <1>5, <2>2 DEF HandlerOK
  <2>9. HandlersApart'
    <3>1. ASSUME NEW u \in Thread, NEW w \in Thread,
                 pc'[u] \in Holding, pc'[w] \in Holding, frame'[u] = frame'[w]
          PROVE  u = w
      BY <2>4, <2>5, <2>8, <3>1 DEF HandlersApart, Others
    <3> QED BY <2>7, <3>1 DEF HandlersApart
  <2>10. FramesOK'
    <3>1. ASSUME NEW g \in locked'
          PROVE  g \notin free' /\ \E u \in Thread : pc'[u] \in Holding /\ frame'[u] = g
      <4>1. CASE g = k
        BY <1>1, <1>2, <1>5, <2>4, <2>5, <4>1
      <4>2. CASE g # k
        <5>1. PICK u \in Thread : pc[u] \in Holding /\ frame[u] = g
          BY <2>1, <4>2 DEF FramesOK
        <5> QED BY <1>1, <1>2, <2>4, <2>8, <5>1 DEF Others
      <4> QED BY <4>1, <4>2
    <3>2. ASSUME NEW g \in Frame \ (free' \cup locked')
          PROVE  tpr'[g] \in valid' /\ physicalPage'[tpr'[g]] = g
      <4>1. g # k /\ tpr[g] \in valid /\ physicalPage[tpr[g]] = g
        BY <1>1, <2>1, <3>2 DEF FramesOK
      <4> QED BY <1>1, <2>1, <2>2, <4>1
    <3> QED BY <1>1, <3>1, <3>2 DEF FramesOK
  <2>11. PagesOK'
    <3>1. ASSUME NEW r \in valid'
          PROVE  /\ physicalPage'[r] \in Frame \ (free' \cup locked')
                 /\ tpr'[physicalPage'[r]] = r /\ r \notin io'
      <4>1. /\ r # q /\ physicalPage[r] \in Frame \ (free \cup locked)
            /\ tpr[physicalPage[r]] = r /\ r \notin io
        BY <2>1, <3>1 DEF PagesOK
      <4>2. physicalPage[r] # k
        BY <1>1, <2>5, <4>1
      <4> QED BY <1>1, <2>1, <4>1, <4>2
    <3> QED BY <1>1, <2>7, <3>1 DEF PagesOK, VMTypeOK
  <2> QED BY <2>1, <2>6, <2>9, <2>10, <2>11 DEF Core
<1> QED BY <1>7, <1>8

\* EvictPage sets the io bit of its victim, which nobody moves.
LEMMA EvictStartKeeps ==
  ASSUME VMInv, VMTypeOK', NEW t \in Thread, EvictStart(t)
  PROVE  Core' /\ machine' = machine
<1> USE DEF VMInv
<1> DEFINE q == victim[t]
<1>1. Turn(t) /\ pc[t] = "victim"
  BY DEF EvictStart
<1>2. /\ {"victim", "writing", "written"} = Evicting /\ Evicting \subseteq Holding
      /\ Holding \subseteq Faulting /\ Faulting \cap {"user", "done", "waitIo"} = {}
      /\ "install" \notin Evicting
  BY Labels DEF Evicting, Holding
<1>3. /\ q \in PageId /\ q \notin valid /\ q \notin io
      /\ page[t] \in io /\ page[t] \in PageId /\ page[t] # q
  BY <1>1, <1>2 DEF HandlerOK, VMTypeOK
<1>4. ~Dangling(q)
  BY <1>3, NoneDangling
<1>5. /\ io' = io \cup {q} /\ machine' = machine
      /\ pc' = [pc EXCEPT ![t] = "writing"] \/ pc' = [pc EXCEPT ![t] = "written"]
      /\ UNCHANGED <<valid, physicalPage, free, locked, tpr, free_page_list, page, frame, victim>>
  BY <1>3, <1>4 DEF EvictStart, WriteTo, NoWrite, Goto, frameVars
<1>6. \A u \in Thread : u # t => pc[u] # "victim"
  BY <1>1, TurnAlone
<1>7. pc'[t] \in {"writing", "written"} /\ Others(t)
  BY <1>1, <1>5 DEF VMTypeOK, Others
<1>8. ASSUME NEW u \in Thread PROVE HandlerOK(u)'
  <2>1. HandlerOK(u)
    OBVIOUS
  <2>2. CASE u = t
    BY <1>1, <1>2, <1>3, <1>5, <1>7, <2>1, <2>2 DEF HandlerOK
  <2>3. CASE u # t
    <3>1. pc'[u] = pc[u] /\ pc[u] # "victim"
      BY <1>6, <1>7, <2>3 DEF Others
    <3> QED BY <1>5, <2>1, <3>1 DEF HandlerOK
  <2> QED BY <2>2, <2>3
<1>9. ASSUME NEW u \in Thread, NEW r \in PageId
      PROVE  Moves(u, r)' <=> Moves(u, r) \/ (u = t /\ r = q)
  <2>1. CASE u = t
    <3>1. Moves(t, r) <=> page[t] = r
      BY <1>1 DEF Moves
    <3>2. Moves(t, r)' <=> page[t] = r \/ r = q
      BY <1>5, <1>7 DEF Moves
    <3> QED BY <2>1, <3>1, <3>2
  <2>2. CASE u # t
    BY <1>5, <1>7, <2>2 DEF Others, Moves
  <2> QED BY <2>1, <2>2
<1>10. \A u \in Thread : ~Moves(u, q)
  BY <1>3, MovesAs
<1>11. \A u \in Thread : pc'[u] \in Holding <=> pc[u] \in Holding
  BY <1>1, <1>2, <1>7 DEF Others
<1>12. HandlersApart'
  BY <1>5, <1>9, <1>10, <1>11 DEF HandlersApart
<1>13. FramesOK'
  BY <1>5, <1>11 DEF FramesOK
<1>14. PagesOK'
  BY <1>3, <1>5, <1>9 DEF PagesOK, VMTypeOK
<1> QED BY <1>5, <1>8, <1>12, <1>13, <1>14 DEF Core

\* The disk has written the victim: nothing else happens.
LEMMA WrittenKeeps ==
  ASSUME VMInv, VMTypeOK', NEW t \in Thread, Written(t)
  PROVE  Core' /\ machine' = machine
<1> USE DEF VMInv
<1>1. /\ Turn(t) /\ pc[t] = "writing" /\ pc' = [pc EXCEPT ![t] = "written"]
      /\ UNCHANGED <<valid, io, physicalPage, free, locked, tpr, free_page_list, page, frame,
                     victim, machine>>
  BY DEF Written, Goto, tableVars, bitVars, frameVars, localVars
<1>2. /\ {"victim", "writing", "written"} = Evicting /\ Evicting \subseteq Holding
      /\ Holding \subseteq Faulting /\ Faulting \cap {"user", "done", "waitIo"} = {}
      /\ "clock" \notin Evicting /\ "install" \notin Evicting
  BY Labels DEF Evicting, Holding
<1>3. \A u \in Thread : u # t => pc'[u] = pc[u] /\ pc[u] # "victim"
  BY <1>1, TurnAlone DEF VMTypeOK
<1>4. pc'[t] = "written"
  BY <1>1 DEF VMTypeOK
<1>5. ASSUME NEW u \in Thread PROVE HandlerOK(u)'
  <2>1. HandlerOK(u)
    OBVIOUS
  <2>2. CASE u = t
    BY <1>1, <1>2, <1>4, <2>1, <2>2 DEF HandlerOK
  <2>3. CASE u # t
    BY <1>1, <1>3, <2>1, <2>3 DEF HandlerOK
  <2> QED BY <2>2, <2>3
<1>6. \A u \in Thread : pc'[u] \in Holding <=> pc[u] \in Holding
  BY <1>1, <1>2, <1>3, <1>4
<1>7. \A u \in Thread : \A p \in PageId : Moves(u, p)' <=> Moves(u, p)
  BY <1>1, <1>3, <1>4 DEF Moves
<1>8. HandlersApart' /\ FramesOK' /\ PagesOK'
  BY <1>1, <1>6, <1>7 DEF HandlersApart, FramesOK, PagesOK, VMTypeOK
<1> QED BY <1>1, <1>5, <1>8 DEF Core

\* The frame of the victim becomes the frame of the page that is loaded.
LEMMA EvictEndKeeps ==
  ASSUME VMInv, VMTypeOK', NEW t \in Thread, EvictEnd(t)
  PROVE  Core' /\ machine' = machine
<1> USE DEF VMInv
<1> DEFINE q == victim[t]
           f == frame[t]
<1>1. Turn(t) /\ pc[t] = "written"
  BY DEF EvictEnd
<1>2. /\ {"victim", "writing", "written"} = Evicting /\ Evicting \subseteq Holding
      /\ Holding \subseteq Faulting /\ Faulting \cap {"user", "done", "waitIo"} = {}
      /\ "clock" \notin Evicting /\ "install" \notin Evicting /\ "install" \in Holding
  BY Labels DEF Evicting, Holding
<1>3. /\ q \in PageId /\ q \notin valid /\ q \in io /\ f \in Frame /\ f \in locked
      /\ page[t] \in io /\ page[t] \in PageId /\ page[t] # q
  BY <1>1, <1>2 DEF HandlerOK, VMTypeOK
<1>4. ~Dangling(q)
  BY <1>3, NoneDangling
<1>5. /\ io' = io \ {q} /\ machine' = machine
      /\ tpr' = [tpr EXCEPT ![f] = page[t]] /\ locked' = locked \cup {f}
      /\ victim' = [victim EXCEPT ![t] = NULL] /\ pc' = [pc EXCEPT ![t] = "install"]
      /\ UNCHANGED <<valid, physicalPage, free, free_page_list, page, frame>>
  BY <1>4 DEF EvictEnd, ClearIo, Link, Goto
<1>6. locked' = locked
  BY <1>3, <1>5
<1>7. /\ pc'[t] = "install" /\ victim'[t] = NULL /\ Others(t) /\ tpr'[f] = page[t]
      /\ \A g \in Frame : g # f => tpr'[g] = tpr[g]
  BY <1>1, <1>3, <1>5 DEF VMTypeOK, Others
<1>8. Moves(t, q)
  BY <1>1 DEF Moves
<1>9. \A u \in Thread : u # t => pc[u] # "victim"
  BY <1>1, TurnAlone
<1>10. frame'[t] = f /\ page'[t] = page[t]
  BY <1>5
<1>11. ASSUME NEW u \in Thread, u # t
       PROVE  /\ ~Moves(u, q)
              /\ pc[u] \in Faulting => page[u] # q
              /\ pc[u] \in Holding => frame[u] # f
              /\ pc[u] \in Evicting => victim[u] # q
  <2>1. ~Moves(u, q)
    BY <1>3, <1>8, <1>11 DEF HandlersApart
  <2>2. Moves(u, q) <=> \/ page[u] = q /\ pc[u] \in Faulting
                        \/ victim[u] = q /\ pc[u] \in {"writing", "written"}
    BY <1>3, MovesAs
  <2>3. pc[u] \in Holding => frame[u] # f
    BY <1>1, <1>2, <1>11 DEF HandlersApart
  <2> QED BY <1>2, <1>9, <1>11, <2>1, <2>2, <2>3
<1> HIDE DEF q, f
<1>12. ASSUME NEW u \in Thread PROVE HandlerOK(u)'
  <2>1. CASE u = t
    BY <1>2, <1>3, <1>5, <1>6, <1>7, <1>10, <2>1 DEF HandlerOK
  <2>2. CASE u # t
    <3>1. HandlerOK(u) /\ pc'[u] = pc[u] /\ page'[u] = page[u] /\ frame'[u] = frame[u]
          /\ victim'[u] = victim[u] /\ pc[u] # "victim"
      BY <1>7, <1>9, <2>2 DEF Others
    <3>2. pc[u] \in Holding => tpr'[frame[u]] = tpr[frame[u]]
      BY <1>7, <1>11, <2>2, <3>1 DEF HandlerOK
    <3> QED BY <1>2, <1>5, <1>6, <1>11, <2>2, <3>1, <3>2 DEF HandlerOK
  <2> QED BY <2>1, <2>2
<1>13. ASSUME NEW u \in Thread, NEW r \in PageId
       PROVE  Moves(u, r)' <=> Moves(u, r) /\ ~(u = t /\ r = q)
  <2>1. CASE u = t
    <3>1. Moves(t, r) <=> page[t] = r \/ r = q
      BY <1>1 DEF Moves, q
    <3>2. Moves(t, r)' <=> page[t] = r
      BY <1>7, <1>10, NullIsNothing DEF Moves
    <3> QED BY <1>3, <2>1, <3>1, <3>2
  <2>2. CASE u # t
    BY <1>7, <2>2 DEF Others, Moves
  <2> QED BY <2>1, <2>2
<1>14. \A u \in Thread : pc'[u] \in Holding <=> pc[u] \in Holding
  BY <1>1, <1>2, <1>7 DEF Others
<1>15. HandlersApart'
  BY <1>5, <1>13, <1>14 DEF HandlersApart
<1>16. FramesOK'
  <2>1. ASSUME NEW g \in Frame \ (free' \cup locked')
        PROVE  tpr'[g] \in valid' /\ physicalPage'[tpr'[g]] = g
    BY <1>3, <1>5, <1>6, <1>7, <2>1 DEF FramesOK
  <2> QED BY <1>5, <1>6, <1>14, <2>1 DEF FramesOK
<1>17. PagesOK'
  <2>1. ASSUME NEW r \in valid'
        PROVE  /\ physicalPage'[r] \in Frame \ (free' \cup locked')
               /\ tpr'[physicalPage'[r]] = r /\ r \notin io'
    BY <1>3, <1>5, <1>6, <1>7, <2>1 DEF PagesOK
  <2>2. ASSUME NEW r \in io' PROVE \E u \in Thread : Moves(u, r)'
    <3>1. r \in io /\ r # q /\ r \in PageId
      BY <1>5, <2>2 DEF VMTypeOK
    <3>2. PICK u \in Thread : Moves(u, r)
      BY <3>1 DEF PagesOK
    <3> QED BY <1>13, <3>1, <3>2
  <2> QED BY <2>1, <2>2 DEF PagesOK
<1> QED BY <1>5, <1>12, <1>15, <1>16, <1>17 DEF Core

-----------------------------------------------------------------------------
(* Every step *)

\* The types, where every address space is, and whether the machine runs.
Typed == VMTypeOK /\ NobodyLeaves /\ machine # "wild" /\ (Mapping = {} => machine = "on")

\* What a step needs to keep Typed: the new values have their types, no
\* thread goes to "done", and no address space ends.
LEMMA TypedKept ==
  ASSUME VMInv, VMTypeOK', NEW t \in Thread, NEW label \in PC \ {"done"},
         pc' = pc \/ pc' = [pc EXCEPT ![t] = label],
         UNCHANGED <<space, reaper>>,
         machine' = machine \/ (Mapping # {} /\ machine' = "aborted")
  PROVE  Typed'
<1>1. \A u \in Thread : pc'[u] # "done"
  BY DEF VMInv, VMTypeOK, NobodyLeaves
<1> QED BY <1>1 DEF VMInv, NobodyLeaves, Typed

\* A page that is in memory is used.
LEMMA TouchKeeps ==
  ASSUME VMInv, NEW t \in Thread, NEW p \in PageId, Touch(t, p)
  PROVE  Typed' /\ Core'
<1> USE DEF VMInv
<1>1. /\ Turn(t) /\ pc[t] \in {"user", "waitIo"}
      /\ pc' = [pc EXCEPT ![t] = "user"] /\ page' = [page EXCEPT ![t] = NULL]
      /\ g_current_thread' = NULL
      /\ UNCHANGED <<valid, io, physicalPage, free, locked, tpr, free_page_list, i_clock,
                     frame, victim, space, reaper, machine>>
  BY DEF Touch, At, Goto, Switch, frameVars, spaceVars
<1>2. VMTypeOK'
  BY <1>1 DEF VMTypeOK, PC
<1>3. "user" \in PC \ {"done"}
  BY DEF PC
<1>4. Typed'
  BY <1>1, <1>2, <1>3, TypedKept
<1>5. \A u \in Thread : u # t => pc[u] # "victim" /\ pc'[u] = pc[u] /\ page'[u] = page[u]
  BY <1>1, TurnAlone DEF VMTypeOK
<1>6. pc[t] \notin Faulting /\ pc'[t] \notin Faulting /\ pc[t] # "victim"
  BY <1>1 DEF VMTypeOK, Faulting, Holding, Evicting
<1>7. Core'
  BY <1>1, <1>2, <1>5, <1>6, OutsideKeeps
<1> QED BY <1>4, <1>7

\* A page that moves is waited for.
LEMMA AwaitIoKeeps ==
  ASSUME VMInv, NEW t \in Thread, NEW p \in PageId, AwaitIo(t, p)
  PROVE  Typed' /\ Core'
<1> USE DEF VMInv
<1>1. /\ Turn(t) /\ pc[t] \in {"user", "waitIo"}
      /\ pc' = [pc EXCEPT ![t] = "waitIo"] /\ page' = [page EXCEPT ![t] = p]
      /\ g_current_thread' = NULL
      /\ UNCHANGED <<valid, io, physicalPage, free, locked, tpr, free_page_list, i_clock,
                     frame, victim, space, reaper, machine>>
  BY DEF AwaitIo, At, Goto, Switch, tableVars, bitVars, frameVars, spaceVars
<1>2. VMTypeOK'
  BY <1>1 DEF VMTypeOK, PC
<1>3. "waitIo" \in PC \ {"done"}
  BY DEF PC
<1>4. Typed'
  BY <1>1, <1>2, <1>3, TypedKept
<1>5. \A u \in Thread : u # t => pc[u] # "victim" /\ pc'[u] = pc[u] /\ page'[u] = page[u]
  BY <1>1, TurnAlone DEF VMTypeOK
<1>6. pc[t] \notin Faulting /\ pc'[t] \notin Faulting /\ pc[t] # "victim"
  BY <1>1 DEF VMTypeOK, Faulting, Holding, Evicting
<1>7. Core'
  BY <1>1, <1>2, <1>5, <1>6, OutsideKeeps
<1> QED BY <1>4, <1>7

\* The page is read into the buffer.
LEMMA LoadedKeeps ==
  ASSUME VMInv, NEW t \in Thread, Loaded(t)
  PROVE  Typed' /\ Core'
<1> USE DEF VMInv
<1>1. /\ Turn(t) /\ pc[t] = "loading" /\ pc' = [pc EXCEPT ![t] = "alloc"]
      /\ g_current_thread' = NULL
      /\ UNCHANGED <<valid, io, physicalPage, free, locked, tpr, free_page_list, i_clock,
                     page, frame, victim, space, reaper, machine>>
  BY DEF Loaded, Goto, Switch, tableVars, bitVars, frameVars, spaceVars
<1>2. VMTypeOK'
  BY <1>1 DEF VMTypeOK, PC
<1>3. "alloc" \in PC \ {"done"}
  BY DEF PC
<1>4. Typed'
  BY <1>1, <1>2, <1>3, TypedKept
<1>5. \A u \in Thread : u # t => pc[u] # "victim" /\ pc'[u] = pc[u] /\ page'[u] = page[u]
  BY <1>1, TurnAlone DEF VMTypeOK
<1>6. pc[t] \in {"loading", "alloc"} /\ pc'[t] \in {"loading", "alloc"} /\ page'[t] = page[t]
  BY <1>1 DEF VMTypeOK
<1>7. \A u \in Thread : pc[u] # "victim"
  BY <1>1, <1>5
<1>8. Core'
  BY <1>1, <1>2, <1>5, <1>6, <1>7, OutsideKeeps
<1> QED BY <1>4, <1>8

\* A file is mapped, or the machine stops in an ASSERT.
LEMMA MmapKeeps ==
  ASSUME VMInv, NEW t \in Thread, NEW x \in File, Mmap(t, x)
  PROVE  Typed' /\ Core'
<1> USE DEF VMInv
<1>1. /\ Turn(t) /\ pc[t] = "user"
      /\ machine' = machine \/ (Mapping # {} /\ machine' = "aborted")
      /\ UNCHANGED <<valid, io, physicalPage, free, locked, tpr, free_page_list, i_clock, page,
                     frame, victim, space, reaper, pc, g_current_thread>>
  BY DEF Mmap, bitVars, frameVars, localVars
<1>2. VMTypeOK'
  BY <1>1 DEF VMTypeOK
<1>3. "user" \in PC \ {"done"}
  BY DEF PC
<1>4. Typed'
  BY <1>1, <1>2, <1>3, TypedKept
<1>5. \A u \in Thread : pc[u] # "victim"
  BY <1>1, TurnAlone
<1>6. \A u \in Thread : u # t => pc'[u] = pc[u] /\ page'[u] = page[u]
  BY <1>1
<1>7. pc'[t] = pc[t] /\ page'[t] = page[t]
  BY <1>1
<1>8. Core'
  BY <1>1, <1>2, <1>5, <1>6, <1>7, OutsideKeeps
<1> QED BY <1>4, <1>8

\* The other steps of the handler.
LEMMA HandlerTyped ==
  ASSUME VMInv, NEW t \in Thread,
         \/ Alloc(t) \/ Install(t) \/ Clock(t) \/ EvictStart(t) \/ Written(t) \/ EvictEnd(t)
         \/ \E p \in PageId : BeginFault(t, p)
  PROVE  VMTypeOK' /\ UNCHANGED <<space, reaper>>
         /\ \E label \in PC \ {"done"} : pc' = pc \/ pc' = [pc EXCEPT ![t] = label]
<1> USE DEF VMInv
<1> USE DEF VMTypeOK, Goto, Switch, GoOn, PC
<1>1. CASE \E p \in PageId : BeginFault(t, p)
  <2>1. PICK p \in PageId : BeginFault(t, p)
    BY <1>1
  <2> QED BY <2>1 DEF BeginFault, frameVars, spaceVars
<1>2. CASE Alloc(t)
  <2>1. pc[t] = "alloc" /\ UNCHANGED <<space, reaper, valid, io, physicalPage, i_clock, page, victim, machine>>
        /\ g_current_thread' = t
    BY <1>2 DEF Alloc, tableVars, bitVars, spaceVars
  <2>2. page[t] \in PageId
    BY <2>1, Labels DEF HandlerOK, Faulting
  <2>3. CASE free_page_list # <<>>
    <3> DEFINE f == Head(free_page_list)
    <3>1. /\ free_page_list' = Tail(free_page_list) /\ free' = free \ {f}
          /\ tpr' = [tpr EXCEPT ![f] = page[t]] /\ locked' = locked \cup {f}
          /\ frame' = [frame EXCEPT ![t] = f] /\ pc' = [pc EXCEPT ![t] = "install"]
      BY <1>2, <2>3 DEF Alloc, Link
    <3>2. f \in Frame /\ Tail(free_page_list) \in Seq(Frame)
      BY <2>3
    <3> HIDE DEF f
    <3> QED BY <2>1, <2>2, <3>1, <3>2
  <2>4. CASE free_page_list = <<>>
    <3>1. /\ frame' = [frame EXCEPT ![t] = NextFrame(i_clock)] /\ pc' = [pc EXCEPT ![t] = "clock"]
          /\ UNCHANGED <<free_page_list, free, tpr, locked>>
      BY <1>2, <2>4 DEF Alloc
    <3>2. NextFrame(i_clock) \in Frame
      BY NextFrameIsFrame
    <3> QED BY <2>1, <3>1, <3>2
  <2> QED BY <2>3, <2>4
<1>3. CASE Install(t)
  <2>1. pc[t] = "install" /\ page[t] \in PageId /\ frame[t] \in Frame
    BY <1>3, Labels DEF Install, HandlerOK, Holding, Faulting
  <2>2. /\ physicalPage' = [physicalPage EXCEPT ![page[t]] = frame[t]]
        /\ io' = io \ {page[t]} /\ valid' = valid \cup {page[t]} /\ locked' = locked \ {frame[t]}
        /\ page' = [page EXCEPT ![t] = NULL] /\ frame' = [frame EXCEPT ![t] = NULL]
        /\ pc' = [pc EXCEPT ![t] = "user"] /\ g_current_thread' = NULL
        /\ machine' \in {machine, "aborted"}
        /\ UNCHANGED <<free, tpr, free_page_list, victim, i_clock, space, reaper>>
    BY <1>3 DEF Install, ClearIo, spaceVars
  <2>3. frame[t] \in Int
    BY <2>1, VirtMemAssumption DEF Frame
  <2> QED BY <2>1, <2>2, <2>3
<1>4. CASE Clock(t)
  <2>1. pc[t] = "clock"
    BY <1>4 DEF Clock
  <2>2. frame[t] \in Frame /\ tpr[frame[t]] \in PageId
    BY <2>1, ClockSeesPage
  <2>3. frame[t] \in Int /\ NextFrame(frame[t]) \in Frame
    BY <2>2, NextFrameIsFrame, VirtMemAssumption DEF Frame
  <2>4. ~Dangling(tpr[frame[t]])
    BY <2>2, NoneDangling
  <2>5. /\ UNCHANGED <<io, physicalPage, free, tpr, free_page_list, page, space, reaper, machine>>
        /\ i_clock' \in {i_clock, frame[t]} /\ g_current_thread' \in {NULL, t}
        /\ valid' \subseteq valid /\ locked' \subseteq locked \cup {frame[t]}
        /\ frame' = frame \/ frame' = [frame EXCEPT ![t] = NextFrame(frame[t])]
        /\ victim' = victim \/ victim' = [victim EXCEPT ![t] = tpr[frame[t]]]
        /\ pc' = pc \/ pc' = [pc EXCEPT ![t] = "victim"]
    BY <1>4, <2>4 DEF Clock, spaceVars
  <2>6. /\ valid' \subseteq PageId /\ io' \subseteq PageId /\ free' \subseteq Frame
        /\ locked' \subseteq Frame /\ free_page_list' \in Seq(Frame)
        /\ g_current_thread' \in Thread \cup {NULL} /\ machine' \in {"on", "aborted", "wild"}
    BY <2>2, <2>5
  <2>7. /\ physicalPage' \in [PageId -> Int] /\ tpr' \in [Frame -> PageId \cup {NULL}]
        /\ i_clock' \in Int /\ page' \in [Thread -> PageId \cup {NULL}]
    BY <2>3, <2>5
  <2>8. frame' \in [Thread -> Frame \cup {NULL}]
    BY <2>3, <2>5
  <2>9. victim' \in [Thread -> PageId \cup {NULL}]
    BY <2>2, <2>5
  <2>10. pc' \in [Thread -> PC] /\ \E label \in PC \ {"done"} : pc' = pc \/ pc' = [pc EXCEPT ![t] = label]
    BY <2>5
  <2> QED BY <2>5, <2>6, <2>7, <2>8, <2>9, <2>10
<1>5. CASE EvictStart(t)
  <2>1. pc[t] = "victim" /\ victim[t] \in PageId
    BY <1>5 DEF EvictStart, HandlerOK, Evicting
  <2>2. ~Dangling(victim[t])
    BY <2>1, NoneDangling
  <2>3. /\ UNCHANGED <<valid, physicalPage, free, locked, tpr, free_page_list, i_clock, page,
                       frame, victim, space, reaper, machine>>
        /\ io' \subseteq io \cup {victim[t]} /\ g_current_thread' \in {NULL, t}
        /\ \/ pc' = pc \/ pc' = [pc EXCEPT ![t] = "writing"] \/ pc' = [pc EXCEPT ![t] = "written"]
    BY <1>5, <2>2 DEF EvictStart, WriteTo, NoWrite, frameVars, spaceVars
  <2> QED BY <2>1, <2>3
<1>6. CASE Written(t)
  BY <1>6 DEF Written, tableVars, bitVars, frameVars, spaceVars, localVars
<1>7. CASE EvictEnd(t)
  <2>1. pc[t] = "written" /\ victim[t] \in PageId /\ frame[t] \in Frame
    BY <1>7 DEF EvictEnd, HandlerOK, Evicting, Holding
  <2>2. page[t] \in PageId
    BY <2>1, Labels DEF HandlerOK, Faulting, Holding, Evicting
  <2>3. ~Dangling(victim[t])
    BY <2>1, NoneDangling
  <2>4. /\ UNCHANGED <<valid, physicalPage, free, free_page_list, i_clock, page, frame, space,
                       reaper, machine>>
        /\ io' = io \ {victim[t]} /\ locked' = locked \cup {frame[t]}
        /\ tpr' = [tpr EXCEPT ![frame[t]] = page[t]] /\ victim' = [victim EXCEPT ![t] = NULL]
        /\ pc' = [pc EXCEPT ![t] = "install"] /\ g_current_thread' = t
    BY <1>7, <2>3 DEF EvictEnd, ClearIo, Link, spaceVars
  <2> QED BY <2>1, <2>2, <2>4
<1> QED BY <1>1, <1>2, <1>3, <1>4, <1>5, <1>6, <1>7

\* One step of a handler keeps the invariant.
LEMMA HandlerKeeps ==
  ASSUME VMInv, NEW t \in Thread, Handler(t)
  PROVE  Typed' /\ Core'
<1>1. CASE Loaded(t)
  BY <1>1, LoadedKeeps
<1>2. CASE \E p \in PageId : Touch(t, p)
  BY <1>2, TouchKeeps
<1>3. CASE \/ Alloc(t) \/ Install(t) \/ Clock(t) \/ EvictStart(t) \/ Written(t) \/ EvictEnd(t)
           \/ \E p \in PageId : BeginFault(t, p)
  <2>1. /\ VMTypeOK' /\ UNCHANGED <<space, reaper>>
        /\ \E label \in PC \ {"done"} : pc' = pc \/ pc' = [pc EXCEPT ![t] = label]
    BY <1>3, HandlerTyped
  <2>2. Core' /\ machine' = machine
    <3>1. CASE Alloc(t)
      BY <2>1, <3>1, AllocKeeps DEF Alloc
    <3>2. CASE Install(t)
      BY <2>1, <3>2, InstallKeeps
    <3>3. CASE Clock(t)
      BY <2>1, <3>3, ClockKeeps
    <3>4. CASE EvictStart(t)
      BY <2>1, <3>4, EvictStartKeeps
    <3>5. CASE Written(t)
      BY <2>1, <3>5, WrittenKeeps
    <3>6. CASE EvictEnd(t)
      BY <2>1, <3>6, EvictEndKeeps
    <3>7. CASE \E p \in PageId : BeginFault(t, p)
      <4>1. PICK p \in PageId : BeginFault(t, p)
        BY <3>7
      <4>2. machine' = machine
        BY <4>1 DEF BeginFault
      <4> QED BY <2>1, <4>1, <4>2, BeginFaultKeeps
    <3> QED BY <1>3, <3>1, <3>2, <3>3, <3>4, <3>5, <3>6, <3>7
  <2>3. PICK label \in PC \ {"done"} : pc' = pc \/ pc' = [pc EXCEPT ![t] = label]
    BY <2>1
  <2>4. Typed'
    BY <2>1, <2>2, <2>3, TypedKept
  <2> QED BY <2>2, <2>4
<1>4. {SpaceOf[t]} \X Page \subseteq PageId
  BY VirtMemAssumption DEF PageId
<1> QED BY <1>1, <1>2, <1>3, <1>4 DEF Handler

\* A program's step keeps the invariant, as long as it is not its last.
LEMMA ProgramKeeps ==
  ASSUME VMInv, Leaving = {}, NEW t \in Thread, Program(t)
  PROVE  Typed' /\ Core'
<1>1. {SpaceOf[t]} \X Page \subseteq PageId
  BY VirtMemAssumption DEF PageId
<1>2. CASE \E p \in PageId : Touch(t, p)
  BY <1>2, TouchKeeps
<1>3. CASE \E p \in PageId : AwaitIo(t, p)
  BY <1>3, AwaitIoKeeps
<1>4. CASE \E p \in PageId : BeginFault(t, p)
  <2>1. PICK p \in PageId : BeginFault(t, p)
    BY <1>4
  <2>2. /\ VMTypeOK' /\ UNCHANGED <<space, reaper>>
        /\ \E label \in PC \ {"done"} : pc' = pc \/ pc' = [pc EXCEPT ![t] = label]
    BY <1>4, HandlerTyped
  <2>3. PICK label \in PC \ {"done"} : pc' = pc \/ pc' = [pc EXCEPT ![t] = label]
    BY <2>2
  <2>4. machine' = machine
    BY <2>1 DEF BeginFault
  <2>5. Typed'
    BY <2>2, <2>3, <2>4, TypedKept
  <2> QED BY <2>1, <2>2, <2>5, BeginFaultKeeps
<1>5. CASE \E x \in File : Mmap(t, x)
  BY <1>5, MmapKeeps
<1>6. ~Finish(t)
  BY DEF Finish
<1> QED BY <1>1, <1>2, <1>3, <1>4, <1>5, <1>6 DEF Program

\* No destructor runs as long as no process ends.
LEMMA NoDestructor ==
  ASSUME VMInv, NEW t \in Thread
  PROVE  ~Destructor(t)
<1>1. ASSUME NEW a \in Space PROVE ~DeleteSpace(t, a)
  BY DEF VMInv, NobodyLeaves, DeleteSpace
<1>2. ASSUME NEW a \in Space PROVE ~Reaps(t, a)
  BY NullIsNothing DEF VMInv, NobodyLeaves, Reaps
<1> QED BY <1>1, <1>2 DEF Destructor, FlushStart, FlushDone, ReleasePage, DeleteTable

\* A step that changes nothing keeps everything.
LEMMA NothingKeeps ==
  ASSUME VMInv, UNCHANGED vars
  PROVE  VMInv'
<1>1. UNCHANGED <<valid, io, physicalPage, free, locked, tpr, free_page_list, i_clock, page,
                  frame, victim, space, reaper, pc, g_current_thread, machine>>
  BY DEF vars, tableVars, bitVars, frameVars, spaceVars, localVars
<1>2. \A t \in Thread : HandlerOK(t)'
  BY <1>1 DEF VMInv, HandlerOK
<1>3. HandlersApart'
  BY <1>1 DEF VMInv, HandlersApart, Moves
<1>4. FramesOK' /\ PagesOK'
  BY <1>1 DEF VMInv, FramesOK, PagesOK, Moves
<1>5. VMTypeOK' /\ NobodyLeaves'
  BY <1>1 DEF VMInv, VMTypeOK, NobodyLeaves
<1> QED BY <1>1, <1>2, <1>3, <1>4, <1>5 DEF VMInv

\* The invariant is true when the system has started.
LEMMA VMInitially ==
  ASSUME VMInit
  PROVE  VMInv
<1> USE DEF VMInit
<1>1. NumPhysPages \in Nat \ {0} /\ Len(free_page_list) = NumPhysPages
      /\ \A i \in 1..NumPhysPages : free_page_list[i] = i - 1
      /\ free_page_list \in Seq(Frame)
  BY VirtMemAssumption DEF Frame
<1>2. free = {free_page_list[i] : i \in 1..Len(free_page_list)}
  <2>1. ASSUME NEW f \in Frame PROVE \E i \in 1..NumPhysPages : free_page_list[i] = f
    <3>1. f + 1 \in 1..NumPhysPages /\ (f + 1) - 1 = f
      BY <1>1 DEF Frame
    <3> QED BY <1>1, <3>1
  <2>2. \A i \in 1..NumPhysPages : free_page_list[i] \in Frame
    BY <1>1 DEF Frame
  <2> QED BY <1>1, <2>1, <2>2
<1>3. FramesOK
  BY <1>1, <1>2 DEF FramesOK
<1>4. PagesOK
  BY DEF PagesOK
<1>5. "user" \notin Faulting /\ "user" \in PC
  BY DEF Faulting, Holding, Evicting, PC
<1>6. \A t \in Thread : HandlerOK(t)
  BY <1>5, Labels DEF HandlerOK, Faulting
<1>7. HandlersApart
  BY <1>5, Labels, NullIsNothing DEF HandlersApart, Moves
<1>8. VMTypeOK
  <2>1. valid \subseteq PageId /\ io \subseteq PageId /\ free \subseteq Frame /\ locked \subseteq Frame
    OBVIOUS
  <2>2. physicalPage \in [PageId -> Int] /\ i_clock \in Int
    <3>1. -1 \in Int
      OBVIOUS
    <3> QED BY <3>1
  <2>3. tpr \in [Frame -> PageId \cup {NULL}] /\ g_current_thread \in Thread \cup {NULL}
    OBVIOUS
  <2>4. pc \in [Thread -> PC]
    BY <1>5
  <2>5. page \in [Thread -> PageId \cup {NULL}] /\ victim \in [Thread -> PageId \cup {NULL}]
    OBVIOUS
  <2>6. frame \in [Thread -> Frame \cup {NULL}] /\ machine \in {"on", "aborted", "wild"}
    OBVIOUS
  <2> HIDE DEF VMInit
  <2> QED BY <1>1, <2>1, <2>2, <2>3, <2>4, <2>5, <2>6 DEF VMTypeOK
<1>9. NobodyLeaves
  BY DEF NobodyLeaves
<1> QED BY <1>3, <1>4, <1>6, <1>7, <1>8, <1>9 DEF VMInv

-----------------------------------------------------------------------------
(* Theorems *)

\* As long as no process ends, every step of PageFault, EvictPage and of the
\* programs keeps the invariant, however they are interleaved.
THEOREM VMInvariant == Leaving = {} => (VMSpec => []VMInv)
<1> SUFFICES ASSUME Leaving = {} PROVE VMSpec => []VMInv
  OBVIOUS
<1>1. VMInit => VMInv
  BY VMInitially
<1>2. VMInv /\ [VMNext]_vars => VMInv'
  <2> SUFFICES ASSUME VMInv, [VMNext]_vars PROVE VMInv'
    OBVIOUS
  <2>1. CASE \E t \in Thread : Handler(t) \/ Program(t) \/ Destructor(t)
    <3>1. Typed' /\ Core'
      BY <2>1, HandlerKeeps, ProgramKeeps, NoDestructor
    <3> QED BY <3>1 DEF Typed, Core, VMInv
  <2>2. CASE UNCHANGED vars
    BY <2>2, NothingKeeps
  <2> QED BY <2>1, <2>2 DEF VMNext, Quiet
<1> QED BY <1>1, <1>2, PTL DEF VMSpec

\* The io bit is a lock: PageFault (pagefaultmanager.cc) and EvictPage
\* (physMem.cc) never move the same page at the same time.
THEOREM PagesMoveOnce == Leaving = {} => (VMSpec => []IoIsALock)
<1> SUFFICES ASSUME Leaving = {} PROVE VMSpec => []IoIsALock
  OBVIOUS
<1>1. VMInv => IoIsALock
  BY InvariantImplies
<1>2. VMSpec => []VMInv
  BY VMInvariant
<1> QED BY <1>1, <1>2, PTL

\* The page tables and the physical page table agree, no two pages share a
\* frame, and no ASSERT of physMem.cc fails (without Mmap, whose own ASSERTs
\* may stop the machine).
THEOREM TablesAgree == Leaving = {} /\ Mapping = {} => (VMSpec => []FramesAgree)
<1> SUFFICES ASSUME Leaving = {}, Mapping = {} PROVE VMSpec => []FramesAgree
  OBVIOUS
<1>1. VMInv => FramesAgree
  BY InvariantImplies DEF VMInv
<1>2. VMSpec => []VMInv
  BY VMInvariant
<1> QED BY <1>1, <1>2, PTL

-----------------------------------------------------------------------------
(* Helpers *)

\* A set of natural numbers that is not empty has a least element.
LEMMA LeastOf ==
  ASSUME NEW T \in SUBSET Nat, T # {}
  PROVE  \E x \in T : \A y \in T : x <= y
<1> DEFINE R == OpToRel(<, Nat)
<1>1. IsWellFoundedOn(R, Nat)
  BY NatLessThanWellFounded
<1>2. PICK x \in T : \A y \in T : ~ (<<y, x>> \in R)
  <2> HIDE DEF R
  <2> QED BY <1>1, WFMin
<1>3. \A y \in T : ~(y < x)
  BY <1>2 DEF OpToRel
<1> QED BY <1>3

\* GetFreePage returns a sector that is not marked, or -1 when there is none.
LEMMA FreeSector ==
  ASSUME page_flags \subseteq Sector
  PROVE  \/ page_flags = Sector /\ GetFreePage = -1
         \/ page_flags # Sector /\ GetFreePage \in Sector \ page_flags
<1>1. CASE page_flags = Sector
  BY <1>1 DEF GetFreePage
<1>2. CASE page_flags # Sector
  <2>1. Sector \ page_flags \in SUBSET Nat /\ Sector \ page_flags # {}
    <3>1. Sector \subseteq Nat
      BY VirtMemAssumption DEF Sector
    <3> QED BY <1>2, <3>1
  <2>2. \E s \in Sector \ page_flags : \A r \in Sector \ page_flags : s <= r
    BY <2>1, LeastOf
  <2> QED BY <1>2, <2>2 DEF GetFreePage
<1> QED BY <1>1, <1>2

\* Sectors and -1 are different, and NULL is no write to the swap area.
LEMMA SectorsAreNat ==
  /\ Sector \subseteq Nat /\ -1 \notin Sector
  /\ \A s \in Sector \cup {-1} : <<"swap", s>> # NULL
BY VirtMemAssumption DEF Sector

\* t writes its victim p to the swap area.
Carries(t, p) == victim[t] = p /\ ToSwap(t)

\* The sectors of a page, with Carries.
LEMMA SectorsAs ==
  ASSUME NEW p \in PageId
  PROVE  SectorsOf(p) = (IF p \in swapped /\ addrDisk[p] >= 0 THEN {addrDisk[p]} ELSE {})
                        \cup {disk[t][2] : t \in {u \in Thread : Carries(u, p)}}
BY DEF SectorsOf, Carries, ToSwap

\* No sector is lost or shared in a step after which every page has the
\* sectors it had.
LEMMA AccountsKept ==
  ASSUME VMInv, SwapInv, UNCHANGED <<page_flags, space>>,
         \A p \in PageId : SectorsOf(p)' \ {-1} = SectorsOf(p) \ {-1}
  PROVE  SwapAccounted'
<1>1. \A p \in PageId : ~Dangling(p) /\ ~Dangling(p)' /\ space[p[1]] = "live"
  BY NoneDangling, NullIsNothing DEF Dangling, VMInv, NobodyLeaves
<1>2. SwapAccounted
  BY DEF SwapInv
<1>3. ASSUME NEW p \in PageId, NEW q \in PageId, p # q
      PROVE  (SectorsOf(p)' \cap SectorsOf(q)') \ {-1} = {}
  BY <1>1, <1>2, <1>3 DEF SwapAccounted
<1>4. page_flags' \subseteq UNION {SectorsOf(p)' : p \in {r \in PageId : ~Dangling(r)'}}
  <2>1. ASSUME NEW s \in page_flags'
        PROVE  \E p \in PageId : s \in SectorsOf(p)'
    <3>1. s # -1
      BY <2>1, SectorsAreNat DEF SwapInv
    <3>2. PICK p \in PageId : s \in SectorsOf(p)
      BY <1>1, <1>2, <2>1 DEF SwapAccounted
    <3> QED BY <3>1, <3>2
  <2> QED BY <1>1, <2>1
<1>5. ASSUME NEW p \in PageId PROVE SectorsOf(p)' \ {-1} \subseteq page_flags'
  BY <1>1, <1>2 DEF SwapAccounted
<1> QED BY <1>3, <1>4, <1>5 DEF SwapAccounted

-----------------------------------------------------------------------------
(* Steps and the swap area *)

\* A step of t that moves no sector.
LEMMA QuietSwap ==
  ASSUME VMInv, VMInv', SwapInv, NEW t \in Thread,
         \A u \in Thread : u # t => pc'[u] = pc[u] /\ victim'[u] = victim[u] /\ disk'[u] = disk[u],
         DOMAIN disk' = Thread,
         UNCHANGED <<swapped, page_flags, space>>,
         addrDisk' \in [PageId -> Nat \cup {-1}], freePageId' \in [Space -> Nat],
         \A p \in PageId : Exists(p) => Exists(p)' /\ addrDisk'[p] = addrDisk[p],
         \A p \in valid' \cup io' : p \in valid \cup io \/ Exists(p)',
         pc'[t] \notin {"loading", "writing", "written"} => disk'[t] = NULL,
         \/ /\ victim'[t] = victim[t] /\ disk'[t] = disk[t]
            /\ pc'[t] \in {"writing", "written"} => pc[t] \in {"writing", "written"}
            /\ pc'[t] \in Evicting => pc[t] \in Evicting
         \/ victim[t] = NULL /\ victim'[t] = NULL
         \/ disk[t] = NULL /\ disk'[t] = NULL /\ victim'[t] \in valid
  PROVE  SwapInv'
<1> USE DEF SwapInv
<1>1. victim \in [Thread -> PageId \cup {NULL}] /\ victim' \in [Thread -> PageId \cup {NULL}]
      /\ swapped' \subseteq PageId
  BY DEF VMInv, VMTypeOK
<1>2. ASSUME NEW u \in Thread, NEW p \in PageId
      PROVE  /\ Carries(u, p)' <=> Carries(u, p)
             /\ Carries(u, p) => disk'[u] = disk[u]
  <2>1. CASE u = t
    <3>1. CASE victim'[t] = victim[t] /\ disk'[t] = disk[t]
      BY <2>1, <3>1 DEF Carries, ToSwap
    <3>2. CASE victim[t] = NULL /\ victim'[t] = NULL
      BY <2>1, <3>2, NullIsNothing DEF Carries
    <3>3. CASE disk[t] = NULL /\ disk'[t] = NULL
      BY <2>1, <3>3 DEF Carries, ToSwap
    <3> QED BY <3>1, <3>2, <3>3
  <2>2. CASE u # t
    BY <2>2 DEF Carries, ToSwap
  <2> QED BY <2>1, <2>2
<1>3. ASSUME NEW p \in PageId
      PROVE  SectorsOf(p)' \ {-1} = SectorsOf(p) \ {-1}
  <2>1. p \in swapped => addrDisk'[p] = addrDisk[p]
    OBVIOUS
  <2>2. (IF p \in swapped' /\ addrDisk'[p] >= 0 THEN {addrDisk'[p]} ELSE {})
        = (IF p \in swapped /\ addrDisk[p] >= 0 THEN {addrDisk[p]} ELSE {})
    BY <2>1
  <2>3. {disk'[u][2] : u \in {w \in Thread : Carries(w, p)'}}
        = {disk[u][2] : u \in {w \in Thread : Carries(w, p)}}
    BY <1>2
  <2>4. SectorsOf(p) = (IF p \in swapped /\ addrDisk[p] >= 0 THEN {addrDisk[p]} ELSE {})
                       \cup {disk[u][2] : u \in {w \in Thread : Carries(w, p)}}
    BY SectorsAs
  <2>5. SectorsOf(p)' = (IF p \in swapped' /\ addrDisk'[p] >= 0 THEN {addrDisk'[p]} ELSE {})
                        \cup {disk'[u][2] : u \in {w \in Thread : Carries(w, p)'}}
    BY DEF SectorsOf, Carries, ToSwap
  <2> QED BY <2>2, <2>3, <2>4, <2>5
<1>4. SwapAccounted'
  BY <1>3, AccountsKept
<1>5. \A p \in valid' \cup io' \cup swapped' : Exists(p)'
  BY DEF VMInv, VMTypeOK
<1>6. ASSUME NEW u \in Thread
      PROVE  /\ pc'[u] \in Evicting => Exists(victim[u])'
             /\ pc'[u] \notin {"loading", "writing", "written"} => disk'[u] = NULL
             /\ pc'[u] \in {"writing", "written"} /\ ToSwap(u)' =>
                  disk'[u][2] \in Sector \cup {-1} /\ addrDisk'[victim'[u]] = -1
  <2>1. {"writing", "written"} \subseteq Evicting
    BY DEF Evicting
  <2>2. CASE \/ u # t
             \/ /\ victim'[u] = victim[u] /\ disk'[u] = disk[u]
                /\ pc'[u] \in {"writing", "written"} => pc[u] \in {"writing", "written"}
                /\ pc'[u] \in Evicting => pc[u] \in Evicting
                /\ pc'[u] \notin {"loading", "writing", "written"} => disk'[u] = NULL
    <3>1. /\ victim'[u] = victim[u] /\ disk'[u] = disk[u]
          /\ pc'[u] \in {"writing", "written"} => pc[u] \in {"writing", "written"}
          /\ pc'[u] \in Evicting => pc[u] \in Evicting
          /\ pc'[u] \notin {"loading", "writing", "written"} => disk'[u] = NULL
      BY <2>2
    <3>2. pc[u] \in Evicting => victim[u] \in PageId /\ Exists(victim[u])
      BY DEF VMInv, HandlerOK
    <3>3. pc'[u] \in Evicting => Exists(victim[u])'
      <4>1. pc'[u] \in Evicting => victim[u] \in PageId /\ Exists(victim[u]) /\ victim'[u] = victim[u]
        BY <3>1, <3>2
      <4>2. \A p \in PageId : Exists(p) => p[2] < freePageId'[p[1]]
        BY DEF Exists
      <4> QED BY <4>1, <4>2 DEF Exists
    <3>4. ToSwap(u)' <=> ToSwap(u)
      BY <3>1 DEF ToSwap
    <3> QED BY <2>1, <3>1, <3>2, <3>3, <3>4
  <2>3. CASE u = t /\ victim[t] = NULL /\ victim'[t] = NULL
    <3>1. pc'[t] \notin Evicting
      BY <2>3, NullIsNothing DEF VMInv, HandlerOK
    <3> QED BY <2>1, <2>3, <3>1
  <2>4. CASE u = t /\ disk[t] = NULL /\ disk'[t] = NULL /\ victim'[t] \in valid
    <3>1. victim'[t] \in PageId /\ Exists(victim'[t])
      BY <2>4 DEF VMInv, VMTypeOK
    <3>2. Exists(victim[t])'
      <4>1. \A p \in PageId : Exists(p) => p[2] < freePageId'[p[1]]
        BY DEF Exists
      <4> QED BY <3>1, <4>1 DEF Exists
    <3> QED BY <2>4, <3>2 DEF ToSwap
  <2> QED BY <2>2, <2>3, <2>4
<1>7. page_flags' \subseteq Sector
  OBVIOUS
<1> QED BY <1>1, <1>4, <1>5, <1>6, <1>7


\* An access, a wait, a fault up to the disk, the read, a frame, the end of a
\* fault, a turn of the clock, the end of a write: no sector changes hands.
LEMMA QuietSteps ==
  ASSUME VMInv, VMInv', SwapInv, NEW t \in Thread,
         \/ Loaded(t) \/ Alloc(t) \/ Install(t) \/ Clock(t) \/ Written(t)
         \/ \E p \in PageId : Touch(t, p) \/ AwaitIo(t, p) \/ BeginFault(t, p)
  PROVE  SwapInv'
<1> USE DEF Goto
<1>1. /\ pc \in [Thread -> PC] /\ victim \in [Thread -> PageId \cup {NULL}]
      /\ DOMAIN disk = Thread /\ HandlerOK(t)
      /\ addrDisk \in [PageId -> Nat \cup {-1}] /\ freePageId \in [Space -> Nat]
      /\ valid \subseteq PageId /\ io \subseteq PageId
      /\ pc[t] \notin {"loading", "writing", "written"} => disk[t] = NULL
  BY DEF VMInv, VMTypeOK, SwapInv
<1>2. ASSUME UNCHANGED <<swapped, page_flags, space, addrDisk, freePageId, disk, victim>>,
             NEW label \in PC, pc' = [pc EXCEPT ![t] = label],
             label \in {"writing", "written"} => pc[t] \in {"writing", "written"},
             label \in Evicting => pc[t] \in Evicting,
             label \notin {"loading", "writing", "written"} => disk[t] = NULL,
             valid' \cup io' \subseteq valid \cup io
      PROVE  SwapInv'
  <2>1. pc'[t] = label /\ \A u \in Thread : u # t => pc'[u] = pc[u]
    BY <1>1, <1>2
  <2>2. \A p \in PageId : Exists(p) => Exists(p)' /\ addrDisk'[p] = addrDisk[p]
    BY <1>2 DEF Exists
  <2>3. \A u \in Thread : u # t => victim'[u] = victim[u] /\ disk'[u] = disk[u]
    BY <1>2
  <2>4. DOMAIN disk' = Thread /\ addrDisk' \in [PageId -> Nat \cup {-1}]
        /\ freePageId' \in [Space -> Nat] /\ UNCHANGED <<swapped, page_flags, space>>
        /\ victim'[t] = victim[t] /\ disk'[t] = disk[t]
    BY <1>1, <1>2
  <2>5. \A p \in valid' \cup io' : p \in valid \cup io \/ Exists(p)'
    BY <1>2
  <2>6. /\ pc'[t] \notin {"loading", "writing", "written"} => disk'[t] = NULL
        /\ pc'[t] \in {"writing", "written"} => pc[t] \in {"writing", "written"}
        /\ pc'[t] \in Evicting => pc[t] \in Evicting
    BY <1>2, <2>1, <2>4
  <2> QED BY <2>1, <2>2, <2>3, <2>4, <2>5, <2>6, QuietSwap
<1>3. CASE \E p \in PageId : Touch(t, p)
  <2>1. PICK p \in PageId : Touch(t, p)
    BY <1>3
  <2>2. /\ pc[t] \in {"user", "waitIo"} /\ pc' = [pc EXCEPT ![t] = "user"]
        /\ UNCHANGED <<valid, io, swapped, page_flags, space, addrDisk, freePageId, disk, victim>>
    BY <2>1 DEF Touch, At, diskVars, spaceVars
  <2> QED BY <1>1, <1>2, <2>2 DEF PC, Evicting
<1>4. CASE \E p \in PageId : AwaitIo(t, p)
  <2>1. PICK p \in PageId : AwaitIo(t, p)
    BY <1>4
  <2>2. /\ pc[t] \in {"user", "waitIo"} /\ pc' = [pc EXCEPT ![t] = "waitIo"]
        /\ UNCHANGED <<valid, io, swapped, page_flags, space, addrDisk, freePageId, disk, victim>>
    BY <2>1 DEF AwaitIo, At, diskVars, spaceVars, tableVars, bitVars
  <2> QED BY <1>1, <1>2, <2>2 DEF PC, Evicting
<1>5. CASE Alloc(t)
  <2>1. /\ pc[t] = "alloc"
        /\ UNCHANGED <<valid, io, swapped, page_flags, space, addrDisk, freePageId, disk, victim>>
    BY <1>5 DEF Alloc, diskVars, spaceVars, tableVars, bitVars
  <2>2. \E label \in {"install", "clock"} : pc' = [pc EXCEPT ![t] = label]
    BY <1>5 DEF Alloc
  <2> QED BY <1>1, <1>2, <2>1, <2>2 DEF PC, Evicting
<1>6. CASE Install(t)
  <2>1. /\ pc[t] = "install" /\ pc' = [pc EXCEPT ![t] = "user"]
        /\ io' = io \ {page[t]} /\ valid' = valid \cup {page[t]}
        /\ UNCHANGED <<swapped, page_flags, space, addrDisk, freePageId, disk, victim>>
    BY <1>6 DEF Install, ClearIo, diskVars, spaceVars
  <2>2. page[t] \in io
    BY <1>1, <2>1, Labels DEF HandlerOK, Holding
  <2>3. valid' \cup io' \subseteq valid \cup io
    BY <2>1, <2>2
  <2> QED BY <1>1, <1>2, <2>1, <2>3 DEF PC, Evicting
<1>7. CASE Written(t)
  <2>1. /\ pc[t] = "writing" /\ pc' = [pc EXCEPT ![t] = "written"]
        /\ UNCHANGED <<valid, io, swapped, page_flags, space, addrDisk, freePageId, disk, victim>>
    BY <1>7 DEF Written, tableVars, bitVars, spaceVars, localVars
  <2> QED BY <1>1, <1>2, <2>1 DEF PC, Evicting
<1>8. ASSUME NEW src, disk' = [disk EXCEPT ![t] = src] \/ disk' = disk,
             NEW label \in {"loading", "alloc"}, pc' = [pc EXCEPT ![t] = label],
             label = "alloc" => disk'[t] = NULL,
             pc[t] \in {"user", "waitIo", "loading"},
             UNCHANGED <<valid, swapped, page_flags, space, addrDisk, freePageId, victim>>,
             \A p \in io' : p \in io \/ Exists(p)
      PROVE  SwapInv'
  <2>1. pc'[t] = label /\ \A u \in Thread : u # t => pc'[u] = pc[u]
    BY <1>1, <1>8
  <2>2. \A p \in PageId : Exists(p) => Exists(p)' /\ addrDisk'[p] = addrDisk[p]
    BY <1>8 DEF Exists
  <2>3. /\ DOMAIN disk' = Thread
        /\ \A u \in Thread : u # t => disk'[u] = disk[u]
    BY <1>1, <1>8
  <2>4. addrDisk' \in [PageId -> Nat \cup {-1}] /\ freePageId' \in [Space -> Nat]
        /\ UNCHANGED <<swapped, page_flags, space>> /\ \A u \in Thread : victim'[u] = victim[u]
    BY <1>1, <1>8
  <2>5. victim[t] = NULL /\ victim'[t] = NULL
    BY <1>1, <1>8 DEF HandlerOK, Evicting
  <2>6. pc'[t] \notin {"loading", "writing", "written"} => disk'[t] = NULL
    BY <1>8, <2>1
  <2>7. \A p \in valid' \cup io' : p \in valid \cup io \/ Exists(p)'
    BY <1>8 DEF Exists
  <2> QED BY <2>1, <2>2, <2>3, <2>4, <2>5, <2>6, <2>7, QuietSwap
<1>9. CASE \E p \in PageId : BeginFault(t, p)
  <2>1. PICK p \in PageId : BeginFault(t, p)
    BY <1>9
  <2>2. /\ pc[t] \in {"user", "waitIo"} /\ Exists(p) /\ io' = io \cup {p}
        /\ UNCHANGED <<valid, swapped, page_flags, space, addrDisk, freePageId, victim>>
        /\ \/ pc' = [pc EXCEPT ![t] = "alloc"] /\ disk' = disk
           \/ pc' = [pc EXCEPT ![t] = "loading"] /\ disk' = [disk EXCEPT ![t] = Source(p)]
    BY <2>1 DEF BeginFault, At, Exists, diskVars, spaceVars
  <2>3. disk[t] = NULL
    BY <1>1, <2>2
  <2>4. CASE pc' = [pc EXCEPT ![t] = "alloc"] /\ disk' = disk
    BY <1>8, <2>2, <2>3, <2>4
  <2>5. CASE pc' = [pc EXCEPT ![t] = "loading"] /\ disk' = [disk EXCEPT ![t] = Source(p)]
    BY <1>8, <2>2, <2>5
  <2> QED BY <2>2, <2>4, <2>5
<1>10. CASE Loaded(t)
  <2>1. /\ pc[t] = "loading" /\ pc' = [pc EXCEPT ![t] = "alloc"] /\ disk' = [disk EXCEPT ![t] = NULL]
        /\ UNCHANGED <<valid, io, swapped, page_flags, space, addrDisk, freePageId, victim>>
    BY <1>10 DEF Loaded, diskVars, spaceVars, tableVars, bitVars
  <2>2. disk'[t] = NULL
    BY <1>1, <2>1
  <2> QED BY <1>8, <2>1, <2>2
<1>11. CASE Clock(t)
  <2>1. pc[t] = "clock"
    BY <1>11 DEF Clock
  <2>2. frame[t] \in Frame /\ tpr[frame[t]] \in PageId
        /\ (frame[t] \notin locked => tpr[frame[t]] \in valid)
    BY <2>1, ClockSeesPage
  <2>3. ~Dangling(tpr[frame[t]])
    BY <2>2, NoneDangling
  <2>4. /\ UNCHANGED <<io, swapped, page_flags, space, addrDisk, freePageId, disk>>
        /\ valid' \subseteq valid
        /\ \/ victim' = victim /\ pc' = pc
           \/ /\ victim' = [victim EXCEPT ![t] = tpr[frame[t]]] /\ pc' = [pc EXCEPT ![t] = "victim"]
              /\ frame[t] \notin locked
    BY <1>11, <2>3 DEF Clock, Busy, diskVars, spaceVars
  <2>5. disk[t] = NULL
    BY <1>1, <2>1
  <2>6. CASE victim' = victim /\ pc' = pc
    <3>1. pc' = [pc EXCEPT ![t] = "clock"]
      BY <1>1, <2>1, <2>6
    <3> QED BY <1>2, <2>4, <2>5, <2>6, <3>1 DEF PC, Evicting
  <2>7. CASE /\ victim' = [victim EXCEPT ![t] = tpr[frame[t]]] /\ pc' = [pc EXCEPT ![t] = "victim"]
             /\ frame[t] \notin locked
    <3>1. victim'[t] \in valid /\ \A u \in Thread : u # t => victim'[u] = victim[u] /\ pc'[u] = pc[u]
      BY <1>1, <2>2, <2>7
    <3>2. /\ \A u \in Thread : u # t => disk'[u] = disk[u]
          /\ DOMAIN disk' = Thread /\ disk'[t] = NULL
          /\ addrDisk' \in [PageId -> Nat \cup {-1}] /\ freePageId' \in [Space -> Nat]
          /\ UNCHANGED <<swapped, page_flags, space>>
      BY <1>1, <2>4, <2>5
    <3>3. \A p \in PageId : Exists(p) => Exists(p)' /\ addrDisk'[p] = addrDisk[p]
      BY <2>4 DEF Exists
    <3>4. \A p \in valid' \cup io' : p \in valid \cup io \/ Exists(p)'
      BY <2>4
    <3> QED BY <2>5, <3>1, <3>2, <3>3, <3>4, QuietSwap
  <2> QED BY <2>4, <2>6, <2>7
<1> QED BY <1>3, <1>4, <1>5, <1>6, <1>7, <1>9, <1>10, <1>11

\* The pages of a new mapping were not in use, so that they had no sector.
LEMMA MmapSwap ==
  ASSUME VMInv, VMInv', SwapInv, NEW t \in Thread, NEW x \in File, Mmap(t, x)
  PROVE  SwapInv'
<1> DEFINE a == SpaceOf[t]
           first == freePageId[a]
           n == FileLen[x]
           new == {a} \X (first..(first + n - 1))
<1>1. /\ pc[t] = "user" /\ a \in Space /\ first \in Nat /\ n \in Nat \ {0}
      /\ UNCHANGED <<valid, io, swapped, page_flags, space, disk, victim, pc>>
  BY VirtMemAssumption DEF Mmap, bitVars, diskVars, localVars, SwapInv
<1>2. /\ DOMAIN disk = Thread /\ disk[t] = NULL
      /\ addrDisk \in [PageId -> Nat \cup {-1}] /\ freePageId \in [Space -> Nat]
  BY <1>1 DEF SwapInv
<1>3. /\ addrDisk' \in [PageId -> Nat \cup {-1}] /\ freePageId' \in [Space -> Nat]
      /\ \A p \in PageId : Exists(p) => Exists(p)' /\ addrDisk'[p] = addrDisk[p]
  <2>1. CASE addrDisk' = addrDisk /\ freePageId' = freePageId
    BY <1>2, <2>1 DEF Exists
  <2>2. CASE /\ addrDisk' = [p \in PageId |-> IF p \in new THEN p[2] - first ELSE addrDisk[p]]
             /\ freePageId' = [freePageId EXCEPT ![a] = @ + n]
    <3>1. freePageId' \in [Space -> Nat] /\ \A b \in Space : freePageId'[b] >= freePageId[b]
      BY <1>1, <1>2, <2>2
    <3>2. ASSUME NEW p \in PageId
          PROVE  /\ p[1] \in Space /\ p[2] \in Int
                 /\ p \in new => p[1] = a /\ p[2] - first \in Nat
      BY <1>1, VirtMemAssumption DEF PageId, Page
    <3>3. addrDisk' \in [PageId -> Nat \cup {-1}]
      <4> HIDE DEF new, a, n, first
      <4> QED BY <1>2, <2>2, <3>2
    <3>4. ASSUME NEW p \in PageId, Exists(p)
          PROVE  Exists(p)' /\ addrDisk'[p] = addrDisk[p]
      <4>1. p[2] < freePageId[p[1]]
        BY <3>4 DEF Exists
      <4>2. p \notin new
        BY <1>1, <3>2, <4>1
      <4>3. p[2] < freePageId'[p[1]]
        BY <1>2, <3>1, <3>2, <4>1
      <4> HIDE DEF new
      <4> QED BY <2>2, <4>2, <4>3 DEF Exists
    <3> QED BY <3>1, <3>3, <3>4
  <2> QED BY <2>1, <2>2 DEF Mmap
<1> HIDE DEF a, first, n, new
<1>4. \A p \in valid' \cup io' : p \in valid \cup io \/ Exists(p)'
  BY <1>1
<1>5. \A u \in Thread : u # t => pc'[u] = pc[u] /\ victim'[u] = victim[u] /\ disk'[u] = disk[u]
  BY <1>1
<1>6. DOMAIN disk' = Thread
  BY <1>1, <1>2
<1>7. /\ victim'[t] = victim[t] /\ disk'[t] = disk[t] /\ disk'[t] = NULL
      /\ pc'[t] \in {"writing", "written"} => pc[t] \in {"writing", "written"}
      /\ pc'[t] \in Evicting => pc[t] \in Evicting
  BY <1>1, <1>2
<1>8. UNCHANGED <<swapped, page_flags, space>>
  BY <1>1
<1> QED BY <1>3, <1>4, <1>5, <1>6, <1>7, <1>8, QuietSwap


\* The sectors of a page are what they were if its entry is, and if those who
\* write it do.
LEMMA SameSectors ==
  ASSUME NEW p \in PageId,
         p \in swapped' <=> p \in swapped, p \in swapped => addrDisk'[p] = addrDisk[p],
         \A u \in Thread : (Carries(u, p)' <=> Carries(u, p)) /\ (Carries(u, p) => disk'[u] = disk[u])
  PROVE  SectorsOf(p)' = SectorsOf(p)
<1>1. (IF p \in swapped' /\ addrDisk'[p] >= 0 THEN {addrDisk'[p]} ELSE {})
      = (IF p \in swapped /\ addrDisk[p] >= 0 THEN {addrDisk[p]} ELSE {})
  OBVIOUS
<1>2. {disk'[u][2] : u \in {w \in Thread : Carries(w, p)'}}
      = {disk[u][2] : u \in {w \in Thread : Carries(w, p)}}
  OBVIOUS
<1>3. SectorsOf(p) = (IF p \in swapped /\ addrDisk[p] >= 0 THEN {addrDisk[p]} ELSE {})
                     \cup {disk[u][2] : u \in {w \in Thread : Carries(w, p)}}
  BY SectorsAs
<1>4. SectorsOf(p)' = (IF p \in swapped' /\ addrDisk'[p] >= 0 THEN {addrDisk'[p]} ELSE {})
                      \cup {disk'[u][2] : u \in {w \in Thread : Carries(w, p)'}}
  BY DEF SectorsOf, Carries, ToSwap
<1> QED BY <1>1, <1>2, <1>3, <1>4

\* The victim of a handler that has its turn is nobody else's.
LEMMA VictimAlone ==
  ASSUME VMInv, NEW t \in Thread, Turn(t), pc[t] \in Evicting
  PROVE  /\ victim[t] \in PageId /\ victim[t] \notin valid /\ page[t] \in io /\ page[t] # victim[t]
         /\ \A u \in Thread : u # t => victim[u] # victim[t] /\ (pc[u] \in Faulting => page[u] # victim[t])
         /\ pc[t] = "victim" => victim[t] \notin io
<1> USE DEF VMInv
<1>1. /\ {"victim", "writing", "written"} = Evicting /\ Evicting \subseteq Faulting
      /\ Faulting \cap {"user", "done", "waitIo"} = {}
  BY Labels DEF Evicting
<1>2. /\ victim[t] \in PageId /\ victim[t] \notin valid /\ page[t] \in io
      /\ pc[t] = "victim" => victim[t] \notin io
      /\ pc[t] # "victim" => victim[t] \in io /\ victim[t] # page[t]
  BY <1>1 DEF HandlerOK
<1>3. ASSUME NEW u \in Thread, u # t
      PROVE  victim[u] # victim[t] /\ (pc[u] \in Faulting => page[u] # victim[t])
  <2>1. pc[u] # "victim"
    BY <1>3, TurnAlone
  <2>2. CASE pc[t] = "victim"
    BY <1>1, <1>2, <2>1, <2>2, NullIsNothing DEF HandlerOK
  <2>3. CASE pc[t] # "victim"
    <3>1. Moves(t, victim[t])
      BY <2>3 DEF Moves
    <3>2. ~Moves(u, victim[t])
      BY <1>2, <1>3, <3>1 DEF HandlersApart
    <3> QED BY <1>1, <2>1, <3>2 DEF Moves
  <2> QED BY <2>2, <2>3
<1> QED BY <1>2, <1>3

\* EvictPage takes the sector of its victim out of the table, or a free one.
LEMMA EvictStartSwap ==
  ASSUME VMInv, VMInv', SwapInv, NEW t \in Thread, EvictStart(t)
  PROVE  SwapInv'
<1>1. Turn(t) /\ pc[t] = "victim" /\ pc[t] \in Evicting
  BY DEF EvictStart, Evicting
<1>0. PICK q \in PageId : q = victim[t]
  BY <1>1, VictimAlone
<1> DEFINE x == findMappedFile(SpaceOf[t], q[2])
<1>2. /\ q \in PageId /\ q \notin valid /\ q \notin io
      /\ \A u \in Thread : u # t => victim[u] # q
  BY <1>0, <1>1, VictimAlone
<1>3. /\ ~Dangling(q) /\ disk[t] = NULL /\ Exists(q) /\ DOMAIN disk = Thread
      /\ pc \in [Thread -> PC] /\ addrDisk \in [PageId -> Nat \cup {-1}]
  BY <1>0, <1>1, <1>2, NoneDangling DEF SwapInv, VMInv, VMTypeOK
<1>4. /\ io' = io \cup {q}
      /\ pc' = [pc EXCEPT ![t] = "writing"] \/ pc' = [pc EXCEPT ![t] = "written"]
      /\ UNCHANGED <<valid, swapped, space, freePageId, victim>>
  BY <1>0, <1>2, <1>3 DEF EvictStart, WriteTo, NoWrite, Goto, spaceVars
<1>5. \/ UNCHANGED <<addrDisk, page_flags, disk>>
      \/ UNCHANGED <<addrDisk, page_flags>> /\ disk' = [disk EXCEPT ![t] = <<"file", x, addrDisk[q]>>]
      \/ /\ q \in swapped /\ UNCHANGED page_flags /\ addrDisk' = [addrDisk EXCEPT ![q] = -1]
         /\ disk' = [disk EXCEPT ![t] = <<"swap", addrDisk[q]>>]
      \/ /\ q \notin swapped /\ addrDisk' = [addrDisk EXCEPT ![q] = -1]
         /\ page_flags' = page_flags \cup ({GetFreePage} \ {-1})
         /\ disk' = [disk EXCEPT ![t] = <<"swap", GetFreePage>>]
  BY <1>0, <1>2, <1>3 DEF EvictStart, WriteTo, NoWrite, Mark
<1> HIDE DEF x
<1>6. /\ pc'[t] \in {"writing", "written"}
      /\ \A u \in Thread : u # t => pc'[u] = pc[u] /\ disk'[u] = disk[u]
      /\ DOMAIN disk' = Thread /\ \A p \in PageId : p # q => addrDisk'[p] = addrDisk[p]
      /\ addrDisk' \in [PageId -> Nat \cup {-1}]
  <2>1. -1 \in Nat \cup {-1}
    OBVIOUS
  <2> QED BY <1>3, <1>4, <1>5, <2>1
<1>7. \A u \in Thread : /\ ~Carries(u, q)
                        /\ \A p \in PageId : p # q => (Carries(u, p)' <=> Carries(u, p))
  BY <1>0, <1>2, <1>3, <1>4, <1>6 DEF Carries, ToSwap
<1>8. ASSUME NEW p \in PageId, p # q
      PROVE  SectorsOf(p)' = SectorsOf(p)
  <2>1. \A u \in Thread : Carries(u, p) => disk'[u] = disk[u]
    BY <1>0, <1>3, <1>6, <1>8 DEF Carries
  <2> QED BY <1>4, <1>6, <1>7, <1>8, <2>1, SameSectors
<1>9. SectorsOf(q) = IF q \in swapped /\ addrDisk[q] >= 0 THEN {addrDisk[q]} ELSE {}
  BY <1>2, <1>7, SectorsAs
<1>10. q \in swapped => addrDisk[q] \in Sector \cup {-1}
  <2>1. space[q[1]] = "live"
    BY <1>2, NullIsNothing DEF VMInv, NobodyLeaves
  <2>2. SectorsOf(q) \ {-1} \subseteq Sector
    BY <1>2, <2>1 DEF SwapInv, SwapAccounted
  <2> QED BY <1>2, <1>3, <1>9, <2>2
<1>11. \A p \in PageId : ~Dangling(p) /\ ~Dangling(p)' /\ space[p[1]] = "live" /\ space'[p[1]] = "live"
  BY <1>4, NoneDangling, NullIsNothing DEF Dangling, VMInv, NobodyLeaves
<1>12. ASSUME \/ UNCHANGED <<addrDisk, page_flags, disk>>
              \/ /\ UNCHANGED <<addrDisk, page_flags>>
                 /\ disk' = [disk EXCEPT ![t] = <<"file", x, addrDisk[q]>>]
       PROVE  ~ToSwap(t)' /\ SwapAccounted'
  <2>1. disk'[t] = NULL \/ disk'[t][1] = "file"
    BY <1>3, <1>12
  <2>2. ~ToSwap(t)'
    BY <2>1 DEF ToSwap
  <2>3. \A u \in Thread : ~Carries(u, q)'
    BY <1>0, <1>2, <1>4, <2>2 DEF Carries
  <2>4. SectorsOf(q)' = SectorsOf(q)
    BY <1>2, <1>4, <1>7, <1>12, <2>3, SameSectors
  <2> QED BY <1>4, <1>8, <1>12, <2>2, <2>4, AccountsKept
<1>13. ASSUME NEW s \in Sector \cup {-1}, disk' = [disk EXCEPT ![t] = <<"swap", s>>],
              addrDisk' = [addrDisk EXCEPT ![q] = -1]
       PROVE  disk'[t] = <<"swap", s>> /\ addrDisk'[q] = -1 /\ SectorsOf(q)' = {s}
  <2>1. disk'[t] = <<"swap", s>> /\ addrDisk'[q] = -1
    BY <1>2, <1>3, <1>13
  <2>2. \A u \in Thread : Carries(u, q)' <=> u = t
    BY <1>0, <1>2, <1>4, <2>1, SectorsAreNat DEF Carries, ToSwap
  <2>3. SectorsOf(q)' = (IF q \in swapped' /\ addrDisk'[q] >= 0 THEN {addrDisk'[q]} ELSE {})
                        \cup {disk'[u][2] : u \in {w \in Thread : Carries(w, q)'}}
    BY DEF SectorsOf, Carries, ToSwap
  <2> QED BY <2>1, <2>2, <2>3
<1>14. ASSUME q \in swapped, UNCHANGED page_flags, addrDisk' = [addrDisk EXCEPT ![q] = -1],
              disk' = [disk EXCEPT ![t] = <<"swap", addrDisk[q]>>]
       PROVE  /\ SwapAccounted' /\ page_flags' \subseteq Sector
              /\ disk'[t][2] \in Sector \cup {-1} /\ addrDisk'[q] = -1
  <2>1. disk'[t] = <<"swap", addrDisk[q]>> /\ addrDisk'[q] = -1 /\ SectorsOf(q)' = {addrDisk[q]}
    BY <1>10, <1>13, <1>14
  <2>2. SectorsOf(q)' \ {-1} = SectorsOf(q) \ {-1}
    <3>1. CASE addrDisk[q] = -1
      BY <1>9, <2>1, <3>1
    <3>2. CASE addrDisk[q] \in Sector
      <4>1. addrDisk[q] >= 0
        BY <3>2, VirtMemAssumption DEF Sector
      <4>2. SectorsOf(q) = {addrDisk[q]}
        BY <1>9, <1>14, <4>1
      <4> QED BY <2>1, <4>2
    <3> QED BY <1>10, <1>14, <3>1, <3>2
  <2>3. SwapAccounted'
    BY <1>4, <1>8, <1>14, <2>2, AccountsKept
  <2>4. page_flags' \subseteq Sector
    BY <1>14 DEF SwapInv
  <2>5. disk'[t][2] \in Sector \cup {-1}
    BY <1>10, <1>14, <2>1
  <2> QED BY <2>1, <2>3, <2>4, <2>5

<1>15. ASSUME q \notin swapped, addrDisk' = [addrDisk EXCEPT ![q] = -1],
              page_flags' = page_flags \cup ({GetFreePage} \ {-1}),
              disk' = [disk EXCEPT ![t] = <<"swap", GetFreePage>>]
       PROVE  /\ SwapAccounted' /\ page_flags' \subseteq Sector
              /\ disk'[t][2] \in Sector \cup {-1} /\ addrDisk'[q] = -1
  <2>1. /\ page_flags \subseteq Sector /\ SwapAccounted
        /\ GetFreePage \in Sector \cup {-1} /\ GetFreePage \notin page_flags
    BY FreeSector, SectorsAreNat DEF SwapInv
  <2>2. PICK s \in Sector \cup {-1} : s = GetFreePage
    BY <2>1
  <2>3. disk'[t] = <<"swap", s>> /\ addrDisk'[q] = -1 /\ SectorsOf(q)' = {s}
    BY <1>13, <1>15, <2>2
  <2>4. SectorsOf(q) = {}
    BY <1>9, <1>15
  <2>5. ASSUME NEW p \in PageId PROVE SectorsOf(p) \ {-1} \subseteq page_flags
    BY <1>11, <2>1 DEF SwapAccounted
  <2>6. ASSUME NEW p \in PageId, NEW r \in PageId, p # r
        PROVE  (SectorsOf(p)' \cap SectorsOf(r)') \ {-1} = {}
    <3>1. CASE p # q /\ r # q
      <4>1. (SectorsOf(p) \cap SectorsOf(r)) \ {-1} = {}
        BY <1>11, <2>1, <2>6 DEF SwapAccounted
      <4> QED BY <1>8, <3>1, <4>1
    <3>2. CASE p = q
      <4>1. SectorsOf(r)' = SectorsOf(r) /\ SectorsOf(r) \ {-1} \subseteq page_flags
        BY <1>8, <2>5, <2>6, <3>2
      <4> QED BY <2>1, <2>2, <2>3, <3>2, <4>1
    <3>3. CASE r = q
      <4>1. SectorsOf(p)' = SectorsOf(p) /\ SectorsOf(p) \ {-1} \subseteq page_flags
        BY <1>8, <2>5, <2>6, <3>3
      <4> QED BY <2>1, <2>2, <2>3, <3>3, <4>1
    <3> QED BY <3>1, <3>2, <3>3
  <2>7. ASSUME NEW z \in page_flags' PROVE \E p \in PageId : z \in SectorsOf(p)'
    <3>1. CASE z = s
      BY <1>2, <2>3, <3>1
    <3>2. CASE z # s
      <4>1. z \in page_flags
        BY <1>15, <2>2, <2>7, <3>2
      <4>2. PICK p \in PageId : z \in SectorsOf(p)
        BY <2>1, <4>1 DEF SwapAccounted
      <4> QED BY <1>8, <2>4, <4>2
    <3> QED BY <3>1, <3>2
  <2>8. ASSUME NEW p \in PageId PROVE SectorsOf(p)' \ {-1} \subseteq page_flags'
    <3>1. CASE p = q
      BY <1>15, <2>2, <2>3, <3>1
    <3>2. CASE p # q
      BY <1>8, <1>15, <2>5, <3>2
    <3> QED BY <3>1, <3>2
  <2>9. SwapAccounted'
    <3>1. page_flags' \subseteq UNION {SectorsOf(p)' : p \in {r \in PageId : ~Dangling(r)'}}
      BY <1>11, <2>7
    <3> QED BY <2>6, <2>8, <3>1 DEF SwapAccounted
  <2>10. page_flags' \subseteq Sector
    BY <1>15, <2>1
  <2>11. disk'[t][2] \in Sector \cup {-1}
    BY <2>2, <2>3
  <2> QED BY <2>3, <2>9, <2>10, <2>11
<1>16. /\ SwapAccounted' /\ page_flags' \subseteq Sector
       /\ ToSwap(t)' => disk'[t][2] \in Sector \cup {-1} /\ addrDisk'[q] = -1
  <2>1. page_flags \subseteq Sector
    BY DEF SwapInv
  <2>2. CASE \/ UNCHANGED <<addrDisk, page_flags, disk>>
             \/ UNCHANGED <<addrDisk, page_flags>> /\ disk' = [disk EXCEPT ![t] = <<"file", x, addrDisk[q]>>]
    BY <1>12, <2>1, <2>2
  <2>3. CASE /\ q \in swapped /\ UNCHANGED page_flags /\ addrDisk' = [addrDisk EXCEPT ![q] = -1]
             /\ disk' = [disk EXCEPT ![t] = <<"swap", addrDisk[q]>>]
    BY <1>14, <2>3
  <2>4. CASE /\ q \notin swapped /\ addrDisk' = [addrDisk EXCEPT ![q] = -1]
             /\ page_flags' = page_flags \cup ({GetFreePage} \ {-1})
             /\ disk' = [disk EXCEPT ![t] = <<"swap", GetFreePage>>]
    BY <1>15, <2>4
  <2> QED BY <1>5, <2>2, <2>3, <2>4
<1>17. ASSUME NEW u \in Thread
       PROVE  /\ pc'[u] \in Evicting => Exists(victim[u])'
              /\ pc'[u] \notin {"loading", "writing", "written"} => disk'[u] = NULL
              /\ pc'[u] \in {"writing", "written"} /\ ToSwap(u)' =>
                   disk'[u][2] \in Sector \cup {-1} /\ addrDisk'[victim'[u]] = -1
  <2>1. CASE u = t
    BY <1>0, <1>3, <1>4, <1>6, <1>16, <2>1 DEF Exists
  <2>2. CASE u # t
    <3>1. /\ pc[u] \in Evicting => Exists(victim[u]) /\ victim[u] \in PageId
          /\ pc[u] \notin {"loading", "writing", "written"} => disk[u] = NULL
          /\ pc[u] \in {"writing", "written"} /\ ToSwap(u) =>
               disk[u][2] \in Sector \cup {-1} /\ addrDisk[victim[u]] = -1
      BY DEF SwapInv, VMInv, HandlerOK
    <3>2. victim[u] # q /\ pc'[u] = pc[u] /\ disk'[u] = disk[u] /\ victim'[u] = victim[u]
      BY <1>2, <1>4, <1>6, <2>2
    <3>3. "writing" \in Evicting /\ "written" \in Evicting
      BY DEF Evicting
    <3>4. Exists(victim[u])' <=> Exists(victim[u])
      BY <1>4 DEF Exists
    <3> QED BY <1>6, <3>1, <3>2, <3>3, <3>4 DEF ToSwap
  <2> QED BY <2>1, <2>2
<1>18. \A p \in valid' \cup io' \cup swapped' : Exists(p)'
  BY <1>3, <1>4 DEF SwapInv, Exists
<1>19. swapped' \subseteq PageId /\ freePageId' \in [Space -> Nat]
  BY <1>4 DEF SwapInv
<1> QED BY <1>6, <1>16, <1>17, <1>18, <1>19 DEF SwapInv

\* At the end of EvictPage the entry names the sector that was written.
LEMMA EvictEndSwap ==
  ASSUME VMInv, VMInv', SwapInv, NEW t \in Thread, EvictEnd(t)
  PROVE  SwapInv'
<1>1. Turn(t) /\ pc[t] = "written" /\ pc[t] \in Evicting
  BY DEF EvictEnd, Evicting
<1>0. PICK q \in PageId : q = victim[t]
  BY <1>1, VictimAlone
<1>s. PICK s : s = disk[t][2]
  OBVIOUS
<1>2. q \in PageId /\ \A u \in Thread : u # t => victim[u] # q
  BY <1>0, <1>1, VictimAlone
<1>3. /\ ~Dangling(q) /\ Exists(q) /\ DOMAIN disk = Thread /\ q \notin valid
      /\ victim \in [Thread -> PageId \cup {NULL}]
      /\ pc \in [Thread -> PC] /\ addrDisk \in [PageId -> Nat \cup {-1}]
  BY <1>0, <1>1, <1>2, NoneDangling, VictimAlone DEF SwapInv, VMInv, VMTypeOK
<1>4. /\ io' = io \ {q} /\ pc' = [pc EXCEPT ![t] = "install"]
      /\ disk' = [disk EXCEPT ![t] = NULL] /\ victim' = [victim EXCEPT ![t] = NULL]
      /\ UNCHANGED <<valid, page_flags, space, freePageId>>
  BY <1>0, <1>3 DEF EvictEnd, ClearIo, Goto, diskVars, spaceVars
<1>5. \/ ToSwap(t) /\ addrDisk' = [addrDisk EXCEPT ![q] = s] /\ swapped' = swapped \cup {q}
      \/ ~ToSwap(t) /\ UNCHANGED <<addrDisk, swapped>>
  BY <1>0, <1>s, <1>3 DEF EvictEnd, ToSwap
<1>6. ToSwap(t) => s \in Sector \cup {-1} /\ addrDisk[q] = -1
  BY <1>0, <1>s, <1>1 DEF SwapInv
<1>7. /\ pc'[t] = "install" /\ disk'[t] = NULL /\ victim'[t] = NULL
      /\ \A u \in Thread : u # t => pc'[u] = pc[u] /\ disk'[u] = disk[u] /\ victim'[u] = victim[u]
      /\ DOMAIN disk' = Thread
  BY <1>3, <1>4
<1>8. /\ addrDisk' \in [PageId -> Nat \cup {-1}]
      /\ ToSwap(t) => addrDisk'[q] = s
      /\ \A p \in PageId : p # q => addrDisk'[p] = addrDisk[p] /\ (p \in swapped' <=> p \in swapped)
  BY <1>2, <1>3, <1>5, <1>6, SectorsAreNat
<1>9. \A u \in Thread : ~Carries(u, q)' /\ (u # t => ~Carries(u, q))
                        /\ \A p \in PageId : p # q => (Carries(u, p)' <=> Carries(u, p))
  BY <1>0, <1>2, <1>7, NullIsNothing DEF Carries, ToSwap
<1>10. ASSUME NEW p \in PageId, p # q
       PROVE  SectorsOf(p)' = SectorsOf(p)
  <2>1. \A u \in Thread : Carries(u, p) => disk'[u] = disk[u]
    BY <1>0, <1>7, <1>10 DEF Carries
  <2> QED BY <1>8, <1>9, <1>10, <2>1, SameSectors
<1>11. SectorsOf(q)' \ {-1} = SectorsOf(q) \ {-1}
  <2>1. CASE ~ToSwap(t)
    <3>1. \A u \in Thread : ~Carries(u, q)
      BY <1>9, <2>1 DEF Carries
    <3>2. UNCHANGED <<addrDisk, swapped>>
      BY <1>5, <2>1
    <3>3. SectorsOf(q)' = SectorsOf(q)
      BY <1>2, <1>9, <3>1, <3>2, SameSectors
    <3> QED BY <3>3
  <2>2. CASE ToSwap(t)
    <3>1. \A u \in Thread : Carries(u, q) <=> u = t
      BY <1>0, <1>9, <2>2 DEF Carries
    <3>2. SectorsOf(q) = (IF q \in swapped /\ addrDisk[q] >= 0 THEN {addrDisk[q]} ELSE {})
                         \cup {disk[u][2] : u \in {w \in Thread : Carries(w, q)}}
      BY <1>2, SectorsAs
    <3>3. SectorsOf(q) = {s}
      BY <1>s, <1>6, <2>2, <3>1, <3>2
    <3>4. SectorsOf(q)' = (IF q \in swapped' /\ addrDisk'[q] >= 0 THEN {addrDisk'[q]} ELSE {})
                          \cup {disk'[u][2] : u \in {w \in Thread : Carries(w, q)'}}
      BY DEF SectorsOf, Carries, ToSwap
    <3>5. SectorsOf(q)' = IF q \in swapped' /\ addrDisk'[q] >= 0 THEN {addrDisk'[q]} ELSE {}
      BY <1>9, <3>4
    <3>6. q \in swapped' /\ addrDisk'[q] = s
      BY <1>5, <1>8, <2>2
    <3>7. CASE s = -1
      BY <3>3, <3>5, <3>6, <3>7
    <3>8. CASE s \in Sector
      BY <3>3, <3>5, <3>6, <3>8, SectorsAreNat
    <3> QED BY <1>6, <2>2, <3>7, <3>8
  <2> QED BY <2>1, <2>2
<1>12. SwapAccounted'
  <2>1. \A p \in PageId : SectorsOf(p)' \ {-1} = SectorsOf(p) \ {-1}
    BY <1>10, <1>11
  <2> QED BY <1>4, <2>1, AccountsKept
<1>13. ASSUME NEW u \in Thread
       PROVE  /\ pc'[u] \in Evicting => Exists(victim[u])'
              /\ pc'[u] \notin {"loading", "writing", "written"} => disk'[u] = NULL
              /\ pc'[u] \in {"writing", "written"} /\ ToSwap(u)' =>
                   disk'[u][2] \in Sector \cup {-1} /\ addrDisk'[victim'[u]] = -1
  <2>1. CASE u = t
    BY <1>7, <2>1 DEF Evicting
  <2>2. CASE u # t
    <3>1. /\ pc[u] \in Evicting => Exists(victim[u]) /\ victim[u] \in PageId
          /\ pc[u] \notin {"loading", "writing", "written"} => disk[u] = NULL
          /\ pc[u] \in {"writing", "written"} /\ ToSwap(u) =>
               disk[u][2] \in Sector \cup {-1} /\ addrDisk[victim[u]] = -1
      BY DEF SwapInv, VMInv, HandlerOK
    <3>2. victim[u] # q /\ pc'[u] = pc[u] /\ disk'[u] = disk[u] /\ victim'[u] = victim[u]
      BY <1>2, <1>7, <2>2
    <3>3. "writing" \in Evicting /\ "written" \in Evicting
      BY DEF Evicting
    <3>4. Exists(victim[u])' <=> Exists(victim[u])
      BY <1>4, <3>2 DEF Exists
    <3> QED BY <1>8, <3>1, <3>2, <3>3, <3>4 DEF ToSwap
  <2> QED BY <2>1, <2>2
<1>14. \A p \in valid' \cup io' \cup swapped' : Exists(p)'
  BY <1>3, <1>4, <1>5 DEF SwapInv, Exists
<1>15. /\ swapped' \subseteq PageId /\ freePageId' \in [Space -> Nat] /\ page_flags' \subseteq Sector
  BY <1>2, <1>4, <1>5 DEF SwapInv
<1> QED BY <1>7, <1>8, <1>12, <1>13, <1>14, <1>15 DEF SwapInv


\* Every step of a thread.
LEMMA SwapSteps ==
  ASSUME VMInv, VMInv', SwapInv, Leaving = {}, NEW t \in Thread,
         Handler(t) \/ Program(t) \/ Destructor(t)
  PROVE  SwapInv'
<1>1. {SpaceOf[t]} \X Page \subseteq PageId
  BY VirtMemAssumption DEF PageId
<1>2. CASE Handler(t)
  BY <1>1, <1>2, QuietSteps, EvictStartSwap, EvictEndSwap DEF Handler
<1>3. CASE Program(t)
  <2>1. ~Finish(t)
    BY DEF Finish
  <2> QED BY <1>1, <1>3, <2>1, QuietSteps, MmapSwap DEF Program
<1>4. ~Destructor(t)
  BY NoDestructor
<1> QED BY <1>2, <1>3, <1>4

\* A step that changes nothing.
LEMMA NothingSwaps ==
  ASSUME SwapInv, UNCHANGED vars
  PROVE  SwapInv'
<1>1. UNCHANGED <<valid, io, swapped, page_flags, addrDisk, freePageId, disk, victim, pc, space>>
  BY DEF vars, tableVars, bitVars, diskVars, spaceVars, localVars
<1>2. ASSUME NEW p \in PageId PROVE SectorsOf(p)' = SectorsOf(p)
  BY <1>1 DEF SectorsOf
<1>3. SwapAccounted'
  BY <1>1, <1>2 DEF SwapInv, SwapAccounted, Dangling
<1> QED BY <1>1, <1>3 DEF SwapInv, Exists, ToSwap

\* No page has a sector when the system has started.
LEMMA SwapInitially ==
  ASSUME VMInit
  PROVE  SwapInv
<1> USE DEF VMInit
<1>1. ASSUME NEW p \in PageId PROVE SectorsOf(p) = {}
  BY DEF SectorsOf
<1>2. SwapAccounted
  BY <1>1 DEF SwapAccounted
<1>3. addrDisk \in [PageId -> Nat \cup {-1}]
  <2>1. ASSUME NEW p \in PageId PROVE p[2] \in Nat
    BY VirtMemAssumption DEF PageId, Page
  <2>2. -1 \in Nat \cup {-1}
    OBVIOUS
  <2> QED BY <2>1, <2>2
<1>4. freePageId \in [Space -> Nat]
  BY VirtMemAssumption
<1>5. \A t \in Thread : pc[t] = "user" /\ disk[t] = NULL
  OBVIOUS
<1>6. DOMAIN disk = Thread /\ swapped \subseteq PageId /\ page_flags \subseteq Sector
      /\ valid \cup io \cup swapped = {}
  OBVIOUS
<1> HIDE DEF VMInit
<1> QED BY <1>2, <1>3, <1>4, <1>5, <1>6 DEF SwapInv, Evicting

\* As long as no process ends, every step keeps the invariant of the swap
\* area, also when files are mapped.
THEOREM SwapInvariant == Leaving = {} => (VMSpec => []SwapInv)
<1> SUFFICES ASSUME Leaving = {} PROVE VMSpec => []SwapInv
  OBVIOUS
<1>1. VMInit => SwapInv
  BY SwapInitially
<1>2. VMInv /\ VMInv' /\ SwapInv /\ [VMNext]_vars => SwapInv'
  <2> SUFFICES ASSUME VMInv, VMInv', SwapInv, [VMNext]_vars PROVE SwapInv'
    OBVIOUS
  <2>1. CASE \E t \in Thread : Handler(t) \/ Program(t) \/ Destructor(t)
    BY <2>1, SwapSteps
  <2>2. CASE UNCHANGED vars
    BY <2>2, NothingSwaps
  <2> QED BY <2>1, <2>2 DEF VMNext, Quiet
<1>3. VMSpec => []VMInv
  BY VMInvariant
<1> QED BY <1>1, <1>2, <1>3, PTL DEF VMSpec

\* GetFreePage and PutPageSwap (vm/swapManager.cc): two pages never share a
\* sector of the swap area, and a marked sector is the sector of a page, also
\* while EvictPage has it.
THEOREM SwapIsAccounted == Leaving = {} => (VMSpec => []SwapAccounted)
<1> SUFFICES ASSUME Leaving = {} PROVE VMSpec => []SwapAccounted
  OBVIOUS
<1>1. SwapInv => SwapAccounted
  BY DEF SwapInv
<1>2. VMSpec => []SwapInv
  BY SwapInvariant
<1> QED BY <1>1, <1>2, PTL


-----------------------------------------------------------------------------
(* There is always a free sector, if the swap area is large enough *)

\* A page has at most one sector.
LEMMA OneSector ==
  ASSUME VMInv, SwapInv, NEW p \in PageId,
         NEW x \in SectorsOf(p) \ {-1}, NEW y \in SectorsOf(p) \ {-1}
  PROVE  x = y /\ Exists(p)
<1> USE DEF SwapInv
<1>1. SectorsOf(p) = (IF p \in swapped /\ addrDisk[p] >= 0 THEN {addrDisk[p]} ELSE {})
                     \cup {disk[t][2] : t \in {u \in Thread : Carries(u, p)}}
  BY SectorsAs
<1>2. ASSUME NEW t \in Thread, Carries(t, p)
      PROVE  addrDisk[p] = -1 /\ Exists(p) /\ Moves(t, p)
  <2>1. victim[t] = p /\ disk[t] # NULL /\ ToSwap(t)
    BY <1>2 DEF Carries, ToSwap
  <2>2. pc[t] \in Evicting
    BY <2>1, NullIsNothing DEF VMInv, HandlerOK
  <2>3. pc[t] \in {"writing", "written"}
    BY <2>1, <2>2 DEF Evicting
  <2> QED BY <2>1, <2>2, <2>3 DEF Moves
<1>3. CASE \A t \in Thread : ~Carries(t, p)
  BY <1>1, <1>3
<1>4. CASE \E t \in Thread : Carries(t, p)
  <2>1. PICK t \in Thread : Carries(t, p)
    BY <1>4
  <2>2. \A u \in Thread : Carries(u, p) => u = t
    BY <1>2, <2>1 DEF VMInv, HandlersApart
  <2>3. ~(addrDisk[p] >= 0) /\ Exists(p)
    BY <1>2, <2>1
  <2>4. x = disk[t][2] /\ y = disk[t][2]
    BY <1>1, <2>2, <2>3
  <2> QED BY <2>3, <2>4
<1> QED BY <1>3, <1>4

\* When a page needs a new sector there is one: by the pigeonhole principle
\* the other pages cannot have them all.
LEMMA RoomInSwap ==
  ASSUME VMInv, SwapInv, SwapSuffices, freePageId = ProgramPages,
         NEW q \in PageId, Exists(q), SectorsOf(q) = {}
  PROVE  GetFreePage \in Sector \ page_flags
<1> DEFINE E == {p \in PageId : p[2] < ProgramPages[p[1]]}
<1>1. IsFiniteSet(E) /\ Cardinality(E) <= NumSectors /\ q \in E
  <2>1. IsFiniteSet(Page)
    BY VirtMemAssumption, FS_Interval DEF Page
  <2>2. IsFiniteSet(PageId)
    BY <2>1, FS_Product DEF SwapSuffices, PageId
  <2>3. E \in SUBSET PageId
    OBVIOUS
  <2>4. IsFiniteSet(E)
    BY <2>2, <2>3, FS_Subset
  <2>5. Cardinality(E) <= NumSectors /\ q \in E
    BY DEF SwapSuffices, Exists
  <2> QED BY <2>4, <2>5
<1>2. IsFiniteSet(E \ {q}) /\ Cardinality(E \ {q}) = Cardinality(E) - 1
      /\ Cardinality(E) \in Nat
  <2> HIDE DEF E
  <2> QED BY <1>1, FS_RemoveElement, FS_CardinalityType
<1>3. IsFiniteSet(Sector) /\ Cardinality(Sector) = NumSectors
  <2>1. NumSectors \in Nat /\ NumSectors - 1 \in Int
    BY VirtMemAssumption
  <2>2. /\ IsFiniteSet(0..(NumSectors - 1))
        /\ Cardinality(0..(NumSectors - 1)) = IF 0 > NumSectors - 1 THEN 0 ELSE NumSectors - 1 - 0 + 1
    BY <2>1, FS_Interval
  <2> QED BY <2>1, <2>2 DEF Sector
<1>4. ASSUME page_flags = Sector PROVE FALSE
  <2> DEFINE OwnerOf == [s \in Sector |-> CHOOSE p \in E \ {q} : s \in SectorsOf(p) \ {-1}]
  <2>1. ASSUME NEW s \in Sector
        PROVE  \E p \in E \ {q} : s \in SectorsOf(p) \ {-1}
    <3>1. PICK p \in PageId : s \in SectorsOf(p)
      BY <1>4 DEF SwapInv, SwapAccounted
    <3>2. s # -1
      BY SectorsAreNat
    <3>3. Exists(p)
      BY <3>1, <3>2, OneSector
    <3> QED BY <3>1, <3>2, <3>3 DEF Exists
  <2>2. ASSUME NEW s \in Sector
        PROVE  OwnerOf[s] \in E \ {q} /\ s \in SectorsOf(OwnerOf[s]) \ {-1}
    BY <2>1
  <2>3. OwnerOf \in [Sector -> E \ {q}]
    BY <2>2
  <2>4. E \subseteq PageId
    OBVIOUS
  <2> HIDE DEF E, OwnerOf
  <2>5. Cardinality(E \ {q}) < Cardinality(Sector)
    BY <1>1, <1>2, <1>3, VirtMemAssumption
  <2>6. PICK x \in Sector, y \in Sector : x # y /\ OwnerOf[x] = OwnerOf[y]
    BY <1>2, <1>3, <2>3, <2>5, FS_PigeonHole
  <2>7. OwnerOf[x] \in PageId /\ x \in SectorsOf(OwnerOf[x]) \ {-1} /\ y \in SectorsOf(OwnerOf[x]) \ {-1}
    BY <2>2, <2>4, <2>6
  <2> QED BY <2>6, <2>7, OneSector
<1>5. page_flags \subseteq Sector
  BY DEF SwapInv
<1> QED BY <1>4, <1>5, FreeSector

-----------------------------------------------------------------------------
(* What the invariant says of the contents of pages *)

\* Without mapped files a page is in the swap area or in the executable, or
\* is new.
LEMMA SourceAs ==
  ASSUME Unmapped, NEW p \in PageId
  PROVE  /\ Home(p) = NULL /\ \A a \in Space : \A v : findMappedFile(a, v) = NULL
         /\ Source(p) = IF p \in swapped THEN <<"swap", addrDisk[p]>>
                        ELSE IF addrDisk[p] # -1 THEN <<"exec", addrDisk[p]>> ELSE <<"zero">>
<1>1. p[1] \in Space
  BY NullIsNothing
<1>2. \A a \in Space : mapped_files[a] = <<>> /\ Len(mapped_files[a]) = 0 /\ 1..0 = {}
  BY DEF Unmapped
<1>3. ASSUME NEW a \in Space, NEW v PROVE findMappedFile(a, v) = NULL
  BY <1>2 DEF findMappedFile
<1>4. Home(p) = NULL
  BY <1>1, <1>2 DEF Home
<1>5. findMappedFile(p[1], p[2]) = NULL
  BY <1>1, <1>3
<1>6. Source(p) = CASE p \in swapped -> <<"swap", addrDisk[p]>>
                    [] p \notin swapped /\ addrDisk[p] # -1 -> <<"exec", addrDisk[p]>>
                    [] OTHER -> <<"zero">>
  BY <1>5 DEF Source
<1>7. Source(p) = IF p \in swapped THEN <<"swap", addrDisk[p]>>
                  ELSE IF addrDisk[p] # -1 THEN <<"exec", addrDisk[p]>> ELSE <<"zero">>
  BY <1>6
<1> QED BY <1>3, <1>4, <1>7

\* What is read from where a page that is away is stored is what was last
\* written to it.
LEMMA StoredIsLast ==
  ASSUME Unmapped, NEW p \in PageId, StoredOK(p), Exists(p), Away(p)
  PROVE  /\ Stored(Source(p)) = {last[p]} /\ Source(p) # <<"swap", -1>>
         /\ Source(p) = <<"zero">> => last[p] = Zero
<1>1. CASE p \in swapped
  <2>1. Source(p) = <<"swap", addrDisk[p]>> /\ addrDisk[p] \in Sector /\ swap_disk[addrDisk[p]] = last[p]
    BY <1>1, SourceAs DEF StoredOK, InSwap
  <2>2. Source(p) # <<"swap", -1>> /\ Source(p) # <<"zero">>
    BY <2>1, SectorsAreNat
  <2> QED BY <2>1, <2>2 DEF Stored
<1>2. CASE p \notin swapped /\ addrDisk[p] # -1
  <2>1. Source(p) = <<"exec", addrDisk[p]>> /\ last[p] = Image
    BY <1>2, SourceAs DEF StoredOK
  <2> QED BY <2>1 DEF Stored
<1>3. CASE p \notin swapped /\ addrDisk[p] = -1
  <2>1. Source(p) = <<"zero">> /\ last[p] = Zero
    BY <1>3, SourceAs DEF StoredOK
  <2> QED BY <2>1 DEF Stored
<1> QED BY <1>1, <1>2, <1>3

\* The property that the runs check follows from the invariant.
LEMMA DataImplies ==
  ASSUME VMInv, SwapInv, DataInv
  PROVE  PagingIsInvisible
<1> SUFFICES ASSUME NEW p \in PageId PROVE Contents(p) = last[p]
  BY DEF PagingIsInvisible
<1>1. /\ StoredOK(p) /\ Unmapped /\ Home(p) = NULL /\ space[p[1]] = "live"
      /\ Exists(p) <=> ~(p[2] >= freePageId[p[1]])
  <2>1. p[2] \in Int /\ p[1] \in Space
    BY VirtMemAssumption DEF PageId, Page
  <2>2. freePageId[p[1]] \in Int
    BY <2>1 DEF SwapInv
  <2> QED BY <2>1, <2>2, SourceAs DEF DataInv, VMInv, NobodyLeaves, Exists
<1> DEFINE t == CHOOSE u \in Thread : victim[u] = p
           Evicted == \E u \in Thread : victim[u] = p
<1>2. Contents(p) = CASE ~Exists(p) -> NULL
                      [] p \in valid -> mainMemory[physicalPage[p]]
                      [] Evicted -> mainMemory[frame[t]]
                      [] OTHER -> CHOOSE d \in Stored(Source(p)) : TRUE
  BY <1>1 DEF Contents
<1>3. Evicted => t \in Thread /\ victim[t] = p
  OBVIOUS
<1> HIDE DEF t
<1>4. p \in valid => Exists(p) /\ ~Evicted
  BY NullIsNothing DEF SwapInv, VMInv, HandlerOK
<1>5. Evicted => pc[t] \in Evicting /\ Exists(p)
  BY <1>3, NullIsNothing DEF VMInv, HandlerOK, SwapInv
<1>6. CASE ~Exists(p)
  BY <1>1, <1>2, <1>4, <1>5, <1>6 DEF StoredOK
<1>7. CASE p \in valid
  BY <1>1, <1>2, <1>4, <1>7 DEF StoredOK
<1>8. CASE Evicted
  <2>1. Contents(p) = mainMemory[frame[t]]
    BY <1>2, <1>4, <1>5, <1>8
  <2> QED BY <1>3, <1>5, <1>8, <2>1 DEF DataInv, CarriesOK
<1>9. CASE Exists(p) /\ p \notin valid /\ ~Evicted
  <2>1. Stored(Source(p)) = {last[p]}
    BY <1>1, <1>9, StoredIsLast DEF Away
  <2>2. Contents(p) = CHOOSE d \in Stored(Source(p)) : TRUE
    BY <1>2, <1>9
  <2> QED BY <2>1, <2>2
<1> QED BY <1>6, <1>7, <1>8, <1>9


-----------------------------------------------------------------------------
(* Steps and the contents of pages *)

\* What the handler of a thread has, in a step that does not touch it.
LEMMA CarriesKept ==
  ASSUME NEW u \in Thread, CarriesOK(u), UNCHANGED mapped_files,
         pc'[u] = pc[u], buffer'[u] = buffer[u], disk'[u] = disk[u],
         page'[u] = page[u], frame'[u] = frame[u], victim'[u] = victim[u],
         pc[u] = "loading" => /\ addrDisk'[page[u]] = addrDisk[page[u]]
                              /\ page[u] \in swapped' <=> page[u] \in swapped,
         pc[u] \in Faulting => last'[page[u]] = last[page[u]],
         pc[u] \in Evicting => /\ mainMemory'[frame[u]] = mainMemory[frame[u]]
                               /\ last'[victim[u]] = last[victim[u]],
         pc[u] = "written" => \/ ToSwap(u) /\ swap_disk'[disk[u][2]] = swap_disk[disk[u][2]]
                              \/ disk[u] = NULL /\ (victim[u] \in swapped \ modified =>
                                                      victim[u] \in swapped' \ modified')
  PROVE  CarriesOK(u)'
<1>1. PICK p : p = page[u]
  OBVIOUS
<1>2. \A a, v : findMappedFile(a, v)' = findMappedFile(a, v)
  BY DEF findMappedFile
<1>3. ASSUME pc[u] = "loading" PROVE disk'[u] = Source(page[u])'
  <2>1. disk[u] = Source(page[u])
    BY <1>3 DEF CarriesOK
  <2> QED BY <1>2, <1>3, <2>1 DEF Source
<1>4. "victim" \in Evicting /\ "writing" \in Evicting /\ "written" \in Evicting
  BY DEF Evicting
<1>5. CASE pc[u] \notin {"written", "loading"}
  BY <1>4, <1>5 DEF CarriesOK
<1>6. CASE pc[u] = "loading"
  BY <1>3, <1>4, <1>6 DEF CarriesOK, Evicting
<1>7. CASE pc[u] = "written"
  <2>1. /\ \/ disk[u] = NULL /\ victim[u] \in swapped \ modified
           \/ \E s \in Sector : disk[u] = <<"swap", s>> /\ swap_disk[s] = last[victim[u]]
        /\ buffer[u] = last[page[u]] /\ mainMemory[frame[u]] = last[victim[u]]
    BY <1>4, <1>7, Labels DEF CarriesOK
  <2>2. CASE disk[u] = NULL /\ victim[u] \in swapped \ modified
    BY <1>4, <1>7, <2>1, <2>2, Labels DEF CarriesOK, ToSwap
  <2>3. CASE \E s \in Sector : disk[u] = <<"swap", s>> /\ swap_disk[s] = last[victim[u]]
    <3>1. PICK s \in Sector : disk[u] = <<"swap", s>> /\ swap_disk[s] = last[victim[u]]
      BY <2>3
    <3>2. disk'[u] = <<"swap", s>> /\ swap_disk'[s] = last'[victim'[u]]
      BY <1>4, <1>7, <3>1, SectorsAreNat
    <3> QED BY <1>4, <1>7, <2>1, <3>2, Labels DEF CarriesOK
  <2> QED BY <2>1, <2>2, <2>3
<1> QED BY <1>5, <1>6, <1>7

\* Where a page is stored, in a step that does not touch it.
LEMMA StoredKept ==
  ASSUME NEW p \in PageId, StoredOK(p),
         UNCHANGED freePageId, last'[p] = last[p],
         addrDisk'[p] = addrDisk[p], p \in swapped' <=> p \in swapped,
         p \in valid' => /\ p \in valid /\ physicalPage'[p] = physicalPage[p]
                         /\ mainMemory'[physicalPage[p]] = mainMemory[physicalPage[p]],
         p \in modified => p \in modified',
         Away(p)' => Away(p),
         p \in swapped /\ addrDisk[p] \in Sector => swap_disk'[addrDisk[p]] = swap_disk[addrDisk[p]],
         \A u \in Thread : victim[u] = p /\ pc[u] # "victim" /\ disk[u] # NULL =>
                             victim'[u] = p /\ pc'[u] # "victim" /\ disk'[u] # NULL
  PROVE  StoredOK(p)'
<1>1. Exists(p)' <=> Exists(p)
  BY DEF Exists
<1>2. InSwap(p) /\ p \in swapped => InSwap(p)'
  BY DEF InSwap
<1>3. p \in swapped' => addrDisk'[p] \in Sector
                        \/ \E u \in Thread : victim'[u] = p /\ pc'[u] # "victim" /\ disk'[u] # NULL
  BY DEF StoredOK
<1> QED BY <1>1, <1>2, <1>3 DEF StoredOK


\* A page that t faults on is in no frame.
LEMMA FaultsOnAway ==
  ASSUME VMInv, NEW t \in Thread, Turn(t), pc[t] \notin Evicting, NEW p \in PageId, p \notin valid,
         p \notin io \/ Moves(t, p)
  PROVE  Away(p) /\ \A u \in Thread : victim[u] # p
<1> USE DEF VMInv
<1> SUFFICES ASSUME NEW u \in Thread, victim[u] = p PROVE FALSE
  BY DEF Away
<1>1. pc[u] \in Evicting /\ u # t
  BY NullIsNothing DEF HandlerOK
<1>2. pc[u] # "victim"
  BY <1>1, TurnAlone
<1>3. Moves(u, p)
  BY <1>2 DEF Moves
<1>4. p \in io
  BY <1>3, MovesAs
<1> QED BY <1>1, <1>3, <1>4 DEF HandlersApart

\* The threads and pages that a step of t does not touch, and those it does.
LEMMA DataKept ==
  ASSUME DataInv, DataTypeOK', NEW t \in Thread, UNCHANGED <<freePageId, mapped_files>>,
         \A u \in Thread : u # t => CarriesOK(u)',
         CarriesOK(t)',
         \A p \in PageId : StoredOK(p)'
  PROVE  DataInv'
BY DEF DataInv, Unmapped

\* An access to a page in memory.
LEMMA TouchData ==
  ASSUME VMInv, SwapInv, DataInv, NEW t \in Thread, NEW p \in PageId, Touch(t, p)
  PROVE  DataInv'
<1> USE DEF VMInv
<1>1. /\ Turn(t) /\ pc[t] \in {"user", "waitIo"} /\ p \in valid
      /\ buffer[t] = Zero /\ pc \in [Thread -> PC] /\ DOMAIN page = Thread
      /\ DataTypeOK
  BY DEF Touch, At, DataInv, CarriesOK, VMTypeOK
<1>2. PICK f \in Frame : f = physicalPage[p] /\ f \notin locked /\ tpr[f] = p
  BY <1>1 DEF PagesOK
<1>3. /\ pc' = [pc EXCEPT ![t] = "user"] /\ page' = [page EXCEPT ![t] = NULL]
      /\ UNCHANGED <<valid, io, swapped, physicalPage, addrDisk, tpr, page_flags, swap_disk, file,
                     space, freePageId, mapped_files, buffer, frame, victim, disk>>
      /\ modified \subseteq modified' /\ modified' \subseteq modified \cup {p}
  BY DEF Touch, Access, Goto, frameVars, diskVars, spaceVars
<1>4. /\ mainMemory'[f] = last'[p]
      /\ DOMAIN mainMemory' = Frame /\ DOMAIN last' = PageId
      /\ \A g \in Frame : g # f => mainMemory'[g] = mainMemory[g]
      /\ \A q \in PageId : q # p => last'[q] = last[q]
      /\ p \notin modified' => last'[p] = last[p] /\ p \notin modified
  <2>1. mainMemory[f] = last[p]
    BY <1>1, <1>2 DEF DataInv, StoredOK
  <2>2. CASE /\ modified' = modified /\ mainMemory' = [mainMemory EXCEPT ![f] = mainMemory[f]]
             /\ UNCHANGED last
    BY <1>1, <2>1, <2>2 DEF DataTypeOK
  <2>3. ASSUME NEW new \in Value, modified' = modified \cup {p},
               mainMemory' = [mainMemory EXCEPT ![f] = new], last' = [last EXCEPT ![p] = new]
        PROVE  <1>4!1 /\ <1>4!2 /\ <1>4!3 /\ <1>4!4 /\ <1>4!5
    BY <1>1, <2>3 DEF DataTypeOK
  <2> QED BY <1>2, <2>2, <2>3 DEF Touch, Access
<1>5. DataTypeOK'
  BY <1>1, <1>3, <1>4 DEF DataTypeOK
<1>6. ASSUME NEW u \in Thread, u # t PROVE CarriesOK(u)'
  <2>1. pc'[u] = pc[u] /\ page'[u] = page[u]
    BY <1>1, <1>3, <1>6
  <2>2. pc[u] \in Faulting => page[u] \in PageId /\ page[u] # p
    BY <1>1 DEF HandlerOK, PagesOK, VMTypeOK
  <2>3. pc[u] \in Evicting => victim[u] \in PageId /\ victim[u] # p /\ frame[u] \in Frame /\ frame[u] # f
    BY <1>1, <1>2, Labels DEF HandlerOK
  <2>4. "written" \in Evicting
    BY DEF Evicting
  <2>5. pc[u] = "written" => ToSwap(u) \/ disk[u] = NULL
    BY DEF DataInv, CarriesOK, ToSwap
  <2> QED BY <1>3, <1>4, <2>1, <2>2, <2>3, <2>4, <2>5, CarriesKept DEF DataInv
<1>7. CarriesOK(t)'
  BY <1>1, <1>3 DEF CarriesOK, Faulting, Holding, Evicting
<1>8. ASSUME NEW q \in PageId PROVE StoredOK(q)'
  <2>1. CASE q # p
    <3>1. q \in valid => physicalPage[q] \in Frame /\ physicalPage[q] # f
      BY <1>2, <2>1 DEF PagesOK
    <3>2. Away(q)' => Away(q)
      BY <1>3 DEF Away
    <3> QED BY <1>1, <1>3, <1>4, <2>1, <3>1, <3>2, StoredKept DEF DataInv
  <2>2. CASE q = p
    <3>1. StoredOK(p) /\ Exists(p) /\ Exists(p)' /\ ~Away(p)'
      BY <1>1, <1>3 DEF DataInv, SwapInv, Exists, Away
    <3> QED BY <1>1, <1>2, <1>3, <1>4, <2>2, <3>1 DEF StoredOK, InSwap
  <2> QED BY <2>1, <2>2
<1> QED BY <1>3, <1>5, <1>6, <1>7, <1>8, DataKept


\* Steps of t that change nothing but where it is: a wait, a fault up to the
\* disk, the read, a new frame.
LEMMA PositionData ==
  ASSUME VMInv, DataInv, NEW t \in Thread,
         UNCHANGED <<valid, modified, swapped, physicalPage, addrDisk, mainMemory, swap_disk,
                     freePageId, mapped_files, victim, last>>,
         \A u \in Thread : u # t => /\ pc'[u] = pc[u] /\ page'[u] = page[u]
                                    /\ buffer'[u] = buffer[u] /\ frame'[u] = frame[u]
                                    /\ disk'[u] = disk[u],
         DOMAIN buffer' = Thread,
         pc[t] \notin Evicting,
         CarriesOK(t)'
  PROVE  DataInv'
<1>1. DataTypeOK'
  BY DEF DataInv, DataTypeOK
<1>2. ASSUME NEW u \in Thread, u # t PROVE CarriesOK(u)'
  <2>1. pc[u] = "written" => ToSwap(u) \/ disk[u] = NULL
    BY DEF DataInv, CarriesOK, ToSwap
  <2> QED BY <1>2, <2>1, CarriesKept DEF DataInv
<1>3. ASSUME NEW p \in PageId PROVE StoredOK(p)'
  <2>1. Away(p)' => Away(p)
    BY DEF Away
  <2>2. \A u \in Thread : victim[u] = p /\ pc[u] # "victim" => u # t
    BY NullIsNothing DEF VMInv, HandlerOK
  <2> QED BY <2>1, <2>2, StoredKept DEF DataInv
<1> QED BY <1>1, <1>2, <1>3, DataKept

\* A wait for the io bit.
LEMMA AwaitIoData ==
  ASSUME VMInv, DataInv, NEW t \in Thread, NEW p \in PageId, AwaitIo(t, p)
  PROVE  DataInv'
<1>1. /\ pc[t] \in {"user", "waitIo"} /\ pc \in [Thread -> PC] /\ DOMAIN page = Thread
      /\ DOMAIN buffer = Thread /\ buffer[t] = Zero
  BY DEF AwaitIo, At, VMInv, VMTypeOK, DataInv, DataTypeOK, CarriesOK
<1>2. /\ pc' = [pc EXCEPT ![t] = "waitIo"] /\ page' = [page EXCEPT ![t] = p]
      /\ UNCHANGED <<valid, modified, swapped, physicalPage, addrDisk, mainMemory, swap_disk,
                     freePageId, mapped_files, victim, last, buffer, frame, disk>>
  BY DEF AwaitIo, Goto, tableVars, bitVars, diskVars, spaceVars
<1>3. pc[t] \notin Evicting
  BY <1>1 DEF Evicting
<1>4. pc'[t] = "waitIo" /\ \A u \in Thread : u # t => pc'[u] = pc[u] /\ page'[u] = page[u]
  BY <1>1, <1>2
<1>5. CarriesOK(t)'
  BY <1>1, <1>2, <1>4 DEF CarriesOK, Faulting, Holding, Evicting
<1>6. \A u \in Thread : u # t => buffer'[u] = buffer[u] /\ frame'[u] = frame[u] /\ disk'[u] = disk[u]
  BY <1>2
<1>7. DOMAIN buffer' = Thread
  BY <1>1, <1>2
<1> QED BY <1>2, <1>3, <1>4, <1>5, <1>6, <1>7, PositionData

\* A fault: the contents of a page that is not new are read, a new one is zero.
LEMMA BeginFaultData ==
  ASSUME VMInv, SwapInv, DataInv, NEW t \in Thread, NEW p \in PageId, BeginFault(t, p)
  PROVE  DataInv'
<1>1. /\ Turn(t) /\ pc[t] \in {"user", "waitIo"} /\ pc \in [Thread -> PC] /\ DOMAIN page = Thread
      /\ DOMAIN buffer = Thread /\ buffer[t] = Zero /\ DOMAIN disk = Thread
      /\ Exists(p) /\ p \notin valid /\ p \notin io
  BY DEF BeginFault, At, MayLoad, Exists, VMInv, VMTypeOK, SwapInv, DataInv, DataTypeOK, CarriesOK
<1>2. /\ page' = [page EXCEPT ![t] = p]
      /\ UNCHANGED <<valid, modified, swapped, physicalPage, addrDisk, mainMemory, swap_disk,
                     freePageId, mapped_files, victim, last, buffer, frame>>
      /\ \/ pc' = [pc EXCEPT ![t] = "alloc"] /\ disk' = disk /\ Source(p) = <<"zero">>
         \/ pc' = [pc EXCEPT ![t] = "loading"] /\ disk' = [disk EXCEPT ![t] = Source(p)]
  BY DEF BeginFault, Goto, diskVars, spaceVars
<1>3. pc[t] \notin Evicting
  BY <1>1 DEF Evicting
<1>4. \A u \in Thread : u # t => /\ pc'[u] = pc[u] /\ page'[u] = page[u] /\ buffer'[u] = buffer[u]
                                 /\ frame'[u] = frame[u] /\ disk'[u] = disk[u]
  BY <1>1, <1>2
<1>5. CarriesOK(t)'
  <2>1. page'[t] = p
    BY <1>1, <1>2
  <2>2. CASE pc' = [pc EXCEPT ![t] = "alloc"] /\ Source(p) = <<"zero">>
    <3>1. Away(p)
      BY <1>1, <1>3, FaultsOnAway
    <3>2. last[p] = Zero
      BY <1>1, <2>2, <3>1, StoredIsLast DEF DataInv
    <3>3. pc'[t] = "alloc" /\ buffer'[t] = last'[page'[t]]
      BY <1>1, <1>2, <2>1, <2>2, <3>2
    <3> QED BY <3>3 DEF CarriesOK, Evicting
  <2>3. CASE pc' = [pc EXCEPT ![t] = "loading"] /\ disk' = [disk EXCEPT ![t] = Source(p)]
    <3>1. pc'[t] = "loading" /\ disk'[t] = Source(p)
      BY <1>1, <2>3
    <3>2. \A a, v : findMappedFile(a, v)' = findMappedFile(a, v)
      BY <1>2 DEF findMappedFile
    <3>3. disk'[t] = Source(page[t])'
      BY <1>2, <2>1, <3>1, <3>2 DEF Source
    <3> QED BY <3>1, <3>3 DEF CarriesOK, Evicting
  <2> QED BY <1>2, <2>2, <2>3
<1>6. DOMAIN buffer' = Thread
  BY <1>1, <1>2
<1> QED BY <1>2, <1>3, <1>4, <1>5, <1>6, PositionData

\* The disk has what was last written to the page.
LEMMA LoadedData ==
  ASSUME VMInv, SwapInv, DataInv, NEW t \in Thread, Loaded(t)
  PROVE  DataInv'
<1>1. /\ Turn(t) /\ pc[t] = "loading" /\ pc \in [Thread -> PC]
      /\ DOMAIN buffer = Thread /\ DOMAIN disk = Thread
      /\ disk[t] = Source(page[t])
  BY DEF Loaded, VMInv, VMTypeOK, DataInv, DataTypeOK, CarriesOK, SwapInv
<1>2. page[t] \in io /\ page[t] \in PageId /\ page[t] \notin valid
  BY <1>1 DEF VMInv, VMTypeOK, HandlerOK, Faulting, PagesOK
<1>3. PICK p \in PageId : p = page[t]
  BY <1>2
<1>4. pc[t] \notin Evicting
  BY <1>1 DEF Evicting
<1>5. Away(p)
  <2>1. Moves(t, p)
    BY <1>1, <1>3 DEF Moves
  <2> QED BY <1>1, <1>2, <1>3, <1>4, <2>1, FaultsOnAway
<1>6. Stored(Source(p)) = {last[p]}
  <2>1. Exists(p)
    BY <1>2, <1>3 DEF SwapInv
  <2> QED BY <1>5, <2>1, StoredIsLast DEF DataInv
<1>7. /\ pc' = [pc EXCEPT ![t] = "alloc"] /\ disk' = [disk EXCEPT ![t] = NULL]
      /\ UNCHANGED <<valid, modified, swapped, physicalPage, addrDisk, mainMemory, swap_disk,
                     freePageId, mapped_files, victim, last, page, frame>>
      /\ \E d \in Stored(Source(p)) : buffer' = [buffer EXCEPT ![t] = d]
  BY <1>1, <1>3 DEF Loaded, Goto, diskVars, spaceVars, tableVars, bitVars
<1>8. buffer' = [buffer EXCEPT ![t] = last[p]]
  BY <1>6, <1>7
<1>9. /\ pc'[t] = "alloc" /\ buffer'[t] = last'[page'[t]] /\ DOMAIN buffer' = Thread
      /\ \A u \in Thread : u # t => /\ pc'[u] = pc[u] /\ page'[u] = page[u] /\ buffer'[u] = buffer[u]
                                    /\ frame'[u] = frame[u] /\ disk'[u] = disk[u]
  BY <1>1, <1>3, <1>7, <1>8
<1>10. CarriesOK(t)'
  BY <1>9 DEF CarriesOK, Evicting
<1> QED BY <1>4, <1>7, <1>9, <1>10, PositionData

\* A new frame, or the beginning of EvictPage.
LEMMA AllocData ==
  ASSUME VMInv, DataInv, NEW t \in Thread, Alloc(t)
  PROVE  DataInv'
<1>1. /\ pc[t] = "alloc" /\ pc \in [Thread -> PC]
      /\ DOMAIN buffer = Thread /\ DOMAIN frame = Thread
      /\ buffer[t] = last[page[t]]
  BY DEF Alloc, VMInv, VMTypeOK, DataInv, DataTypeOK, CarriesOK, Faulting
<1>2. /\ \E label \in {"install", "clock"} : pc' = [pc EXCEPT ![t] = label]
      /\ \E f : frame' = [frame EXCEPT ![t] = f]
      /\ UNCHANGED <<valid, modified, swapped, physicalPage, addrDisk, mainMemory, swap_disk,
                     freePageId, mapped_files, victim, last, page, buffer, disk>>
  BY DEF Alloc, Goto, diskVars, spaceVars, tableVars, bitVars
<1>3. pc[t] \notin Evicting
  BY <1>1 DEF Evicting
<1>4. pc'[t] \in {"install", "clock"} /\ \A u \in Thread : u # t => pc'[u] = pc[u] /\ frame'[u] = frame[u]
  BY <1>1, <1>2
<1>5. CarriesOK(t)'
  BY <1>1, <1>2, <1>4 DEF CarriesOK, Evicting
<1>6. /\ \A u \in Thread : u # t => page'[u] = page[u] /\ buffer'[u] = buffer[u] /\ disk'[u] = disk[u]
      /\ DOMAIN buffer' = Thread
  BY <1>1, <1>2
<1> QED BY <1>2, <1>3, <1>4, <1>5, <1>6, PositionData


\* The end of a fault: the page is in its frame, and accessed.
LEMMA InstallData ==
  ASSUME VMInv, SwapInv, DataInv, NEW t \in Thread, Install(t)
  PROVE  DataInv'
<1> USE DEF VMInv
<1>1. /\ Turn(t) /\ pc[t] = "install" /\ pc[t] \in Holding /\ pc[t] \in Faulting
      /\ pc[t] \notin Evicting /\ page[t] \in io /\ page[t] \in PageId /\ page[t] \notin valid
      /\ frame[t] \in locked /\ frame[t] \in Frame
      /\ buffer[t] = last[page[t]] /\ pc \in [Thread -> PC] /\ DOMAIN page = Thread
      /\ DOMAIN frame = Thread /\ DataTypeOK /\ DOMAIN physicalPage = PageId
  BY DEF Install, Holding, Evicting, Faulting, HandlerOK, PagesOK, VMTypeOK, DataInv, CarriesOK
<1>2. PICK p \in PageId : p = page[t]
  BY <1>1
<1>3. PICK f \in Frame : f = frame[t]
  BY <1>1
<1>4. Exists(p) /\ Moves(t, p)
  BY <1>1, <1>2 DEF SwapInv, Moves
<1>5. Away(p) /\ \A u \in Thread : victim[u] # p
  BY <1>1, <1>2, <1>4, FaultsOnAway
<1>6. /\ pc' = [pc EXCEPT ![t] = "user"] /\ page' = [page EXCEPT ![t] = NULL]
      /\ buffer' = [buffer EXCEPT ![t] = Zero] /\ frame' = [frame EXCEPT ![t] = NULL]
      /\ physicalPage' = [physicalPage EXCEPT ![p] = f] /\ valid' = valid \cup {p}
      /\ UNCHANGED <<swapped, addrDisk, page_flags, swap_disk, file,
                     space, freePageId, mapped_files, victim, disk>>
      /\ modified \ {p} \subseteq modified' /\ modified' \subseteq modified \cup {p}
  BY <1>2, <1>3 DEF Install, Access, Goto, diskVars, spaceVars
<1>7. /\ mainMemory'[f] = last'[p]
      /\ DOMAIN mainMemory' = Frame /\ DOMAIN last' = PageId
      /\ \A g \in Frame : g # f => mainMemory'[g] = mainMemory[g]
      /\ \A q \in PageId : q # p => last'[q] = last[q]
      /\ p \notin modified' => last'[p] = last[p]
  <2>1. CASE /\ modified' = modified \ {p} /\ mainMemory' = [mainMemory EXCEPT ![f] = buffer[t]]
             /\ UNCHANGED last
    BY <1>1, <1>2, <2>1 DEF DataTypeOK
  <2>2. ASSUME NEW new \in Value, modified' = (modified \ {p}) \cup {p},
               mainMemory' = [mainMemory EXCEPT ![f] = new], last' = [last EXCEPT ![p] = new]
        PROVE  <1>7!1 /\ <1>7!2 /\ <1>7!3 /\ <1>7!4 /\ <1>7!5
    BY <1>1, <2>2 DEF DataTypeOK
  <2> QED BY <1>2, <1>3, <2>1, <2>2 DEF Install, Access
<1>8. DataTypeOK'
  BY <1>1, <1>6, <1>7 DEF DataTypeOK
<1>9. ASSUME NEW u \in Thread, u # t PROVE CarriesOK(u)'
  <2>1. /\ pc'[u] = pc[u] /\ page'[u] = page[u] /\ frame'[u] = frame[u]
        /\ buffer'[u] = buffer[u]
    BY <1>1, <1>6, <1>9 DEF DataTypeOK
  <2>2. pc[u] \in Faulting => page[u] \in PageId /\ page[u] # p
    <3>1. pc[u] \in Faulting /\ page[u] = p => Moves(u, p)
      BY Labels DEF Moves
    <3> QED BY <1>4, <1>9, <3>1 DEF HandlerOK, HandlersApart, VMTypeOK
  <2>3. pc[u] \in Evicting => victim[u] \in PageId /\ victim[u] # p /\ frame[u] \in Frame /\ frame[u] # f
    BY <1>1, <1>3, <1>5, <1>9, Labels DEF HandlerOK, HandlersApart
  <2>4. "written" \in Evicting
    BY DEF Evicting
  <2>5. pc[u] = "written" => ToSwap(u) \/ disk[u] = NULL
    BY DEF DataInv, CarriesOK, ToSwap
  <2>6. pc[u] = "written" => (victim[u] \in swapped \ modified => victim[u] \in swapped' \ modified')
    BY <1>6, <2>3, <2>4
  <2> QED BY <1>6, <1>7, <2>1, <2>2, <2>3, <2>4, <2>5, <2>6, CarriesKept DEF DataInv
<1>10. CarriesOK(t)'
  <2>1. pc'[t] = "user" /\ buffer'[t] = Zero
    BY <1>1, <1>6 DEF DataTypeOK
  <2> QED BY <2>1 DEF CarriesOK, Faulting, Holding, Evicting
<1>11. ASSUME NEW q \in PageId PROVE StoredOK(q)'
  <2>1. CASE q # p
    <3>1. q \in valid => physicalPage[q] \in Frame /\ physicalPage[q] # f
      BY <1>1, <1>3 DEF PagesOK
    <3>2. Away(q)' => Away(q)
      BY <1>6 DEF Away
    <3>3. physicalPage'[q] = physicalPage[q] /\ (q \in valid' <=> q \in valid)
          /\ (q \in modified => q \in modified')
      BY <1>1, <1>6, <2>1
    <3>4. \A u \in Thread : victim[u] = q /\ pc[u] # "victim" /\ disk[u] # NULL =>
                              victim'[u] = q /\ pc'[u] # "victim" /\ disk'[u] # NULL
      BY <1>1, <1>6
    <3> QED BY <1>6, <1>7, <2>1, <3>1, <3>2, <3>3, <3>4, StoredKept DEF DataInv
  <2>2. CASE q = p
    <3>1. StoredOK(p) /\ Exists(p)' /\ ~Away(p)'
      BY <1>4, <1>6 DEF DataInv, Exists, Away
    <3>2. mainMemory'[physicalPage'[p]] = last'[p]
      BY <1>1, <1>6, <1>7
    <3>3. p \in swapped => InSwap(p)
      BY <1>5, <3>1 DEF StoredOK
    <3>4. p \in swapped' => addrDisk'[p] \in Sector
      BY <1>6, <3>3 DEF InSwap
    <3>5. p \in swapped' /\ p \notin modified' => InSwap(p)'
      BY <1>6, <1>7, <3>3 DEF InSwap
    <3> QED BY <2>2, <3>1, <3>2, <3>4, <3>5 DEF StoredOK
  <2> QED BY <2>1, <2>2
<1> QED BY <1>6, <1>8, <1>9, <1>10, <1>11, DataKept

\* A turn of the clock: the victim stays in its frame.
LEMMA ClockData ==
  ASSUME VMInv, SwapInv, DataInv, NEW t \in Thread, Clock(t)
  PROVE  DataInv'
<1> USE DEF VMInv
<1>1. /\ pc[t] = "clock" /\ pc \in [Thread -> PC] /\ DOMAIN frame = Thread
      /\ DOMAIN buffer = Thread /\ DOMAIN victim = Thread /\ victim[t] = NULL /\ disk[t] = NULL
      /\ buffer[t] = last[page[t]]
  BY DEF Clock, VMTypeOK, DataInv, DataTypeOK, CarriesOK, HandlerOK, SwapInv, Evicting, Faulting
<1>2. /\ frame[t] \in Frame /\ tpr[frame[t]] \in PageId
      /\ frame[t] \notin locked => tpr[frame[t]] \in valid /\ physicalPage[tpr[frame[t]]] = frame[t]
  BY <1>1, ClockSeesPage
<1>3. PICK q \in PageId : q = tpr[frame[t]]
  BY <1>2
<1>4. ~Dangling(q)
  BY NoneDangling
<1>5. /\ UNCHANGED <<modified, swapped, physicalPage, addrDisk, mainMemory, swap_disk,
                     freePageId, mapped_files, last, page, buffer, disk>>
      /\ \/ /\ \E k : frame' = [frame EXCEPT ![t] = k]
            /\ UNCHANGED <<valid, victim, pc>>
         \/ /\ pc' = [pc EXCEPT ![t] = "victim"] /\ valid' = valid \ {q}
            /\ victim' = [victim EXCEPT ![t] = q] /\ UNCHANGED frame
            /\ frame[t] \notin locked
  BY <1>3, <1>4 DEF Clock, Busy, Goto, diskVars, spaceVars
<1>6. pc[t] \notin Evicting /\ pc[t] \in Faulting
  BY <1>1 DEF Evicting, Faulting
<1>7. CASE (\E k : frame' = [frame EXCEPT ![t] = k]) /\ UNCHANGED <<valid, victim, pc>>
  <2>1. CarriesOK(t)'
    BY <1>1, <1>5, <1>7 DEF CarriesOK, Evicting
  <2>2. \A u \in Thread : u # t => /\ pc'[u] = pc[u] /\ page'[u] = page[u] /\ buffer'[u] = buffer[u]
                                   /\ frame'[u] = frame[u] /\ disk'[u] = disk[u]
    BY <1>1, <1>5, <1>7
  <2>3. DOMAIN buffer' = Thread
    BY <1>1, <1>5
  <2> QED BY <1>5, <1>6, <1>7, <2>1, <2>2, <2>3, PositionData
<1>8. CASE /\ pc' = [pc EXCEPT ![t] = "victim"] /\ valid' = valid \ {q}
           /\ victim' = [victim EXCEPT ![t] = q] /\ UNCHANGED frame
           /\ frame[t] \notin locked
  <2>1. q \in valid /\ physicalPage[q] = frame[t]
    BY <1>2, <1>3, <1>8
  <2>2. /\ pc'[t] = "victim" /\ victim'[t] = q
        /\ \A u \in Thread : u # t => pc'[u] = pc[u] /\ victim'[u] = victim[u]
    BY <1>1, <1>8
  <2>3. DataTypeOK'
    BY <1>5 DEF DataInv, DataTypeOK
  <2>4. ASSUME NEW u \in Thread, u # t PROVE CarriesOK(u)'
    <3>1. pc[u] = "written" => ToSwap(u) \/ disk[u] = NULL
      BY DEF DataInv, CarriesOK, ToSwap
    <3> QED BY <1>5, <1>8, <2>2, <2>4, <3>1, CarriesKept DEF DataInv
  <2>5. CarriesOK(t)'
    <3>1. mainMemory[frame[t]] = last[q]
      BY <2>1 DEF DataInv, StoredOK
    <3>2. mainMemory'[frame'[t]] = last'[victim'[t]] /\ buffer'[t] = last'[page'[t]]
      BY <1>1, <1>5, <1>8, <2>2, <3>1
    <3> QED BY <2>2, <3>2 DEF CarriesOK
  <2>6. ASSUME NEW p \in PageId PROVE StoredOK(p)'
    <3>1. Away(p)' => Away(p)
      <4>1. CASE p = q
        BY <2>2, <4>1 DEF Away
      <4>2. CASE p # q
        BY <1>1, <1>8, <2>2, <4>2, NullIsNothing DEF Away
      <4> QED BY <4>1, <4>2
    <3>2. \A u \in Thread : victim[u] = p => u # t
      BY <1>1, NullIsNothing
    <3>3. p \in valid' => p \in valid
      BY <1>8
    <3> QED BY <1>5, <2>2, <3>1, <3>2, <3>3, StoredKept DEF DataInv
  <2> QED BY <1>5, <2>3, <2>4, <2>5, <2>6, DataKept
<1> QED BY <1>5, <1>7, <1>8


\* EvictPage takes the old sector of its victim, or a free one; it keeps the
\* sector of a page that has not been written to.
LEMMA EvictStartData ==
  ASSUME VMInv, SwapInv, DataInv, SwapSuffices, NEW t \in Thread, EvictStart(t)
  PROVE  DataInv'
<1> USE DEF VMInv
<1>1. /\ Turn(t) /\ pc[t] = "victim" /\ pc[t] \in Evicting /\ pc[t] \in Faulting
      /\ pc \in [Thread -> PC] /\ disk[t] = NULL /\ DOMAIN disk = Thread
      /\ addrDisk \in [PageId -> Nat \cup {-1}]
      /\ buffer[t] = last[page[t]] /\ mainMemory[frame[t]] = last[victim[t]]
  BY DEF EvictStart, Evicting, Faulting, Holding, VMTypeOK, SwapInv, DataInv, CarriesOK
<1>0. PICK q \in PageId : q = victim[t]
  BY <1>1, VictimAlone
<1>2. /\ q \notin valid /\ q \notin io
      /\ \A u \in Thread : u # t => victim[u] # q /\ (pc[u] \in Faulting => page[u] # q)
  BY <1>0, <1>1, VictimAlone
<1>3. ~Dangling(q) /\ Exists(q) /\ StoredOK(q)
  BY <1>0, <1>1, NoneDangling DEF SwapInv, DataInv
<1>4. findMappedFile(SpaceOf[t], q[2]) = NULL
  BY SourceAs, VirtMemAssumption DEF DataInv
<1>5. /\ UNCHANGED <<valid, modified, swapped, physicalPage, mainMemory, swap_disk,
                     freePageId, mapped_files, last, page, buffer, frame, victim>>
      /\ \/ /\ q \in swapped \ modified
            /\ pc' = [pc EXCEPT ![t] = "written"] /\ UNCHANGED <<disk, addrDisk>>
         \/ /\ q \in swapped /\ q \in modified /\ addrDisk' = [addrDisk EXCEPT ![q] = -1]
            /\ WriteTo(t, <<"swap", addrDisk[q]>>)
         \/ /\ q \notin swapped /\ addrDisk' = [addrDisk EXCEPT ![q] = -1]
            /\ WriteTo(t, <<"swap", GetFreePage>>)
  BY <1>0, <1>2, <1>3, <1>4 DEF EvictStart, NoWrite, Goto, frameVars, spaceVars
<1>6. q \in swapped => addrDisk[q] \in Sector
  BY <1>0, <1>1, <1>2, <1>3 DEF StoredOK
<1>7. q \notin swapped => GetFreePage \in Sector
  <2>1. ASSUME q \notin swapped PROVE SectorsOf(q) = {}
    <3>1. \A u \in Thread : ~Carries(u, q)
      BY <1>1, <1>2 DEF Carries, ToSwap
    <3> QED BY <2>1, <3>1, SectorsAs
  <2> QED BY <1>3, <2>1, RoomInSwap DEF DataInv, Unmapped
<1>8. \/ /\ q \in swapped \ modified
         /\ pc' = [pc EXCEPT ![t] = "written"] /\ UNCHANGED <<disk, addrDisk>>
      \/ /\ addrDisk' = [addrDisk EXCEPT ![q] = -1] /\ pc' = [pc EXCEPT ![t] = "writing"]
         /\ q \in swapped => q \in modified
         /\ \E s \in Sector : disk' = [disk EXCEPT ![t] = <<"swap", s>>]
  <2>1. ASSUME NEW s \in Sector, WriteTo(t, <<"swap", s>>)
        PROVE  pc' = [pc EXCEPT ![t] = "writing"] /\ disk' = [disk EXCEPT ![t] = <<"swap", s>>]
    <3>1. <<"swap", s>> # <<"swap", -1>>
      BY SectorsAreNat
    <3> QED BY <2>1, <3>1 DEF WriteTo, Goto
  <2> QED BY <1>5, <1>6, <1>7, <2>1
<1>9. /\ pc'[t] \in {"writing", "written"}
      /\ \A u \in Thread : u # t => pc'[u] = pc[u] /\ disk'[u] = disk[u]
      /\ \A p \in PageId : p # q => addrDisk'[p] = addrDisk[p]
  BY <1>1, <1>8
<1>10. DataTypeOK'
  BY <1>5 DEF DataInv, DataTypeOK
<1>11. ASSUME NEW u \in Thread, u # t PROVE CarriesOK(u)'
  <2>1. pc[u] = "written" => ToSwap(u) \/ disk[u] = NULL
    BY DEF DataInv, CarriesOK, ToSwap
  <2>2. pc[u] = "loading" => page[u] \in PageId /\ page[u] # q
    BY <1>2, <1>11 DEF Faulting, HandlerOK, VMTypeOK
  <2> QED BY <1>5, <1>9, <1>11, <2>1, <2>2, CarriesKept DEF DataInv
<1>12. CarriesOK(t)'
  <2>1. buffer'[t] = last'[page'[t]] /\ mainMemory'[frame'[t]] = last'[victim'[t]]
    BY <1>1, <1>5
  <2>2. pc'[t] = "writing" => \E s \in Sector : disk'[t] = <<"swap", s>>
    BY <1>1, <1>8
  <2>3. pc'[t] = "written" => disk'[t] = NULL /\ victim'[t] \in swapped' \ modified'
    BY <1>0, <1>1, <1>5, <1>8
  <2> QED BY <1>9, <2>1, <2>2, <2>3 DEF CarriesOK
<1>13. ASSUME NEW p \in PageId PROVE StoredOK(p)'
  <2>1. CASE p # q
    <3>1. Away(p)' => Away(p)
      BY <1>5 DEF Away
    <3>2. \A u \in Thread : victim[u] = p => u # t
      BY <1>0, <2>1
    <3> QED BY <1>5, <1>9, <2>1, <3>1, <3>2, StoredKept DEF DataInv
  <2>2. CASE p = q
    <3>1. ~Away(q)' /\ q \notin valid' /\ Exists(q)'
      BY <1>0, <1>2, <1>3, <1>5 DEF Away, Exists
    <3>2. q \in swapped' /\ q \notin modified' => InSwap(q)'
      BY <1>3, <1>5, <1>8 DEF StoredOK, InSwap
    <3>3. \/ q \in swapped' => addrDisk'[q] \in Sector
          \/ victim'[t] = q /\ pc'[t] # "victim" /\ disk'[t] # NULL
      <4>1. CASE UNCHANGED addrDisk
        BY <1>5, <1>6, <4>1
      <4>2. CASE \E s \in Sector : disk' = [disk EXCEPT ![t] = <<"swap", s>>]
        BY <1>0, <1>1, <1>5, <1>9, <4>2, SectorsAreNat
      <4> QED BY <1>8, <4>1, <4>2
    <3> QED BY <2>2, <3>1, <3>2, <3>3 DEF StoredOK
  <2> QED BY <2>1, <2>2
<1> QED BY <1>5, <1>10, <1>11, <1>12, <1>13, DataKept

\* The write goes to a sector that no other page is in or is written to.
LEMMA WrittenData ==
  ASSUME VMInv, SwapInv, DataInv, NEW t \in Thread, Written(t)
  PROVE  DataInv'
<1> USE DEF VMInv
<1>1. /\ Turn(t) /\ pc[t] = "writing" /\ pc[t] \in Evicting /\ pc[t] \in Faulting
      /\ pc \in [Thread -> PC] /\ DataTypeOK
      /\ buffer[t] = last[page[t]] /\ mainMemory[frame[t]] = last[victim[t]]
  BY DEF Written, Evicting, Faulting, Holding, VMTypeOK, DataInv, CarriesOK
<1>0. PICK q \in PageId : q = victim[t]
  BY <1>1, VictimAlone
<1>2. PICK s \in Sector : disk[t] = <<"swap", s>>
  BY <1>1 DEF DataInv, CarriesOK
<1>3. ToSwap(t) /\ addrDisk[q] = -1 /\ \A u \in Thread : u # t => victim[u] # q
  <2>1. ToSwap(t)
    BY <1>2, SectorsAreNat DEF ToSwap
  <2>2. addrDisk[q] = -1
    BY <1>0, <1>1, <2>1 DEF SwapInv
  <2>3. \A u \in Thread : u # t => victim[u] # q
    BY <1>0, <1>1, VictimAlone
  <2> QED BY <2>1, <2>2, <2>3
<1>4. /\ pc' = [pc EXCEPT ![t] = "written"]
      /\ swap_disk' = [swap_disk EXCEPT ![s] = mainMemory[frame[t]]]
      /\ UNCHANGED <<valid, modified, swapped, physicalPage, addrDisk, mainMemory, freePageId,
                     mapped_files, last, page, buffer, frame, victim, disk>>
  BY <1>2 DEF Written, Store, Goto, tableVars, bitVars, spaceVars, localVars
<1>5. /\ pc'[t] = "written" /\ \A u \in Thread : u # t => pc'[u] = pc[u]
      /\ swap_disk'[s] = last[q] /\ \A r \in Sector : r # s => swap_disk'[r] = swap_disk[r]
      /\ DOMAIN swap_disk' = Sector
  BY <1>0, <1>1, <1>4 DEF DataTypeOK
<1>6. s \in SectorsOf(q) /\ s # -1
  <2>1. Carries(t, q)
    BY <1>0, <1>3 DEF Carries
  <2> QED BY <1>2, <2>1, SectorsAs, SectorsAreNat
<1>7. ASSUME NEW p \in PageId, p # q PROVE s \notin SectorsOf(p)
  BY <1>6, <1>7, NoneDangling DEF SwapInv, SwapAccounted
<1>8. DataTypeOK'
  BY <1>1, <1>4, <1>5 DEF DataTypeOK
<1>9. ASSUME NEW u \in Thread, u # t PROVE CarriesOK(u)'
  <2>1. CASE pc[u] # "written"
    BY <1>4, <1>5, <1>9, <2>1, CarriesKept DEF DataInv
  <2>2. CASE pc[u] = "written"
    <3>1. victim[u] \in PageId
      BY <2>2 DEF HandlerOK, Evicting
    <3>2. PICK r \in PageId : r = victim[u]
      BY <3>1
    <3>3. s \notin SectorsOf(r)
      BY <1>3, <1>7, <1>9, <3>2
    <3>4. ToSwap(u) => disk[u][2] # s
      <4>1. ToSwap(u) => Carries(u, r)
        BY <3>2 DEF Carries
      <4>2. ToSwap(u) => disk[u][2] \in SectorsOf(r)
        BY <4>1, SectorsAs
      <4> QED BY <3>3, <4>2
    <3>5. \/ disk[u] = NULL
          \/ ToSwap(u) /\ disk[u][2] \in Sector
      BY <2>2, SectorsAreNat DEF DataInv, CarriesOK, ToSwap
    <3>6. \/ disk[u] = NULL
          \/ ToSwap(u) /\ swap_disk'[disk[u][2]] = swap_disk[disk[u][2]]
      BY <1>5, <3>4, <3>5
    <3> QED BY <1>4, <1>5, <1>9, <2>2, <3>6, CarriesKept DEF DataInv
  <2> QED BY <2>1, <2>2
<1>10. CarriesOK(t)'
  <2>1. buffer'[t] = last'[page'[t]] /\ mainMemory'[frame'[t]] = last'[victim'[t]]
    BY <1>1, <1>4
  <2>2. disk'[t] = <<"swap", s>> /\ swap_disk'[s] = last'[victim'[t]]
    BY <1>0, <1>2, <1>4, <1>5
  <2> QED BY <1>5, <2>1, <2>2 DEF CarriesOK
<1>11. ASSUME NEW p \in PageId PROVE StoredOK(p)'
  <2>1. Away(p)' => Away(p)
    BY <1>4 DEF Away
  <2>2. p \in swapped /\ addrDisk[p] \in Sector => swap_disk'[addrDisk[p]] = swap_disk[addrDisk[p]]
    <3>1. CASE p = q
      BY <1>3, <3>1, SectorsAreNat
    <3>2. CASE p # q
      <4>1. p \in swapped /\ addrDisk[p] \in Sector => addrDisk[p] \in SectorsOf(p)
        <5>1. \A r \in Sector : r >= 0
          BY VirtMemAssumption DEF Sector
        <5> QED BY <5>1, SectorsAs
      <4> QED BY <1>5, <1>7, <3>2, <4>1
    <3> QED BY <3>1, <3>2
  <2>3. \A u \in Thread : pc[u] # "victim" => pc'[u] # "victim"
    BY <1>5
  <2> QED BY <1>4, <2>1, <2>2, <2>3, StoredKept DEF DataInv
<1> QED BY <1>4, <1>8, <1>9, <1>10, <1>11, DataKept

\* The victim is where its entry says from now on.
LEMMA EvictEndData ==
  ASSUME VMInv, SwapInv, DataInv, NEW t \in Thread, EvictEnd(t)
  PROVE  DataInv'
<1> USE DEF VMInv
<1>1. /\ Turn(t) /\ pc[t] = "written" /\ pc[t] \in Evicting /\ pc[t] \in Faulting
      /\ pc \in [Thread -> PC] /\ DOMAIN disk = Thread /\ DOMAIN victim = Thread
      /\ addrDisk \in [PageId -> Nat \cup {-1}]
      /\ buffer[t] = last[page[t]]
  BY DEF EvictEnd, Evicting, Faulting, Holding, VMTypeOK, SwapInv, DataInv, CarriesOK
<1>0. PICK q \in PageId : q = victim[t]
  BY <1>1, VictimAlone
<1>2. /\ q \notin valid
      /\ \A u \in Thread : u # t => victim[u] # q /\ (pc[u] \in Faulting => page[u] # q)
  BY <1>0, <1>1, VictimAlone
<1>3. ~Dangling(q) /\ Exists(q) /\ StoredOK(q)
  BY <1>0, <1>1, NoneDangling DEF SwapInv, DataInv
<1>4. /\ UNCHANGED <<valid, modified, physicalPage, mainMemory, swap_disk,
                     freePageId, mapped_files, last, page, buffer, frame>>
      /\ pc' = [pc EXCEPT ![t] = "install"] /\ victim' = [victim EXCEPT ![t] = NULL]
      /\ disk' = [disk EXCEPT ![t] = NULL]
      /\ IF disk[t] # NULL /\ disk[t][1] = "swap"
         THEN addrDisk' = [addrDisk EXCEPT ![q] = disk[t][2]] /\ swapped' = swapped \cup {q}
         ELSE UNCHANGED <<addrDisk, swapped>>
  BY <1>0, <1>3 DEF EvictEnd, Goto, diskVars, spaceVars
<1>5. /\ \/ /\ q \in swapped \ modified /\ UNCHANGED <<addrDisk, swapped>>
         \/ \E s \in Sector : /\ swap_disk[s] = last[q]
                              /\ addrDisk' = [addrDisk EXCEPT ![q] = s] /\ swapped' = swapped \cup {q}
  <2>1. CASE disk[t] = NULL /\ victim[t] \in swapped \ modified
    BY <1>0, <1>4, <2>1
  <2>2. CASE \E s \in Sector : disk[t] = <<"swap", s>> /\ swap_disk[s] = last[victim[t]]
    <3>1. PICK s \in Sector : disk[t] = <<"swap", s>> /\ swap_disk[s] = last[victim[t]]
      BY <2>2
    <3>2. disk[t] # NULL /\ disk[t][1] = "swap" /\ disk[t][2] = s
      BY <3>1, SectorsAreNat
    <3> QED BY <1>0, <1>4, <3>1, <3>2
  <2> QED BY <1>1, <2>1, <2>2 DEF DataInv, CarriesOK
<1>6. q \in swapped' /\ InSwap(q)'
  <2>1. CASE q \in swapped \ modified /\ UNCHANGED <<addrDisk, swapped>>
    BY <1>3, <1>4, <2>1 DEF StoredOK, InSwap
  <2>2. CASE \E s \in Sector : /\ swap_disk[s] = last[q]
                               /\ addrDisk' = [addrDisk EXCEPT ![q] = s] /\ swapped' = swapped \cup {q}
    BY <1>1, <1>4, <2>2 DEF InSwap
  <2> QED BY <1>5, <2>1, <2>2
<1>7. /\ pc'[t] = "install" /\ victim'[t] = NULL
      /\ \A u \in Thread : u # t => pc'[u] = pc[u] /\ disk'[u] = disk[u] /\ victim'[u] = victim[u]
      /\ \A p \in PageId : p # q => addrDisk'[p] = addrDisk[p] /\ (p \in swapped' <=> p \in swapped)
      /\ swapped \subseteq swapped'
  BY <1>1, <1>4, <1>5
<1>8. DataTypeOK'
  BY <1>4 DEF DataInv, DataTypeOK
<1>9. ASSUME NEW u \in Thread, u # t PROVE CarriesOK(u)'
  <2>1. pc[u] = "written" => ToSwap(u) \/ disk[u] = NULL
    BY DEF DataInv, CarriesOK, ToSwap
  <2>2. pc[u] = "loading" => page[u] \in PageId /\ page[u] # q
    BY <1>2, <1>9 DEF Faulting, HandlerOK, VMTypeOK
  <2>3. victim[u] \in swapped \ modified => victim[u] \in swapped' \ modified'
    BY <1>4, <1>7
  <2> QED BY <1>4, <1>7, <1>9, <2>1, <2>2, <2>3, CarriesKept DEF DataInv
<1>10. CarriesOK(t)'
  <2>1. buffer'[t] = last'[page'[t]]
    BY <1>1, <1>4
  <2> QED BY <1>7, <2>1 DEF CarriesOK, Evicting
<1>11. ASSUME NEW p \in PageId PROVE StoredOK(p)'
  <2>1. CASE p # q
    <3>1. Away(p)' => Away(p)
      BY <1>0, <1>4, <1>7, <2>1 DEF Away
    <3>2. \A u \in Thread : victim[u] = p => u # t
      BY <1>0, <2>1
    <3> QED BY <1>4, <1>7, <2>1, <3>1, <3>2, StoredKept DEF DataInv
  <2>2. CASE p = q
    <3>1. q \notin valid' /\ Exists(q)'
      BY <1>2, <1>3, <1>4 DEF Exists
    <3>2. addrDisk'[q] \in Sector
      BY <1>6 DEF InSwap
    <3> QED BY <1>6, <2>2, <3>1, <3>2 DEF StoredOK
  <2> QED BY <2>1, <2>2
<1> QED BY <1>4, <1>8, <1>9, <1>10, <1>11, DataKept


\* Every step of a thread.
LEMMA DataSteps ==
  ASSUME VMInv, SwapInv, DataInv, SwapSuffices, Leaving = {}, Mapping = {}, NEW t \in Thread,
         Handler(t) \/ Program(t) \/ Destructor(t)
  PROVE  DataInv'
<1>1. {SpaceOf[t]} \X Page \subseteq PageId
  BY VirtMemAssumption DEF PageId
<1>2. CASE Handler(t)
  BY <1>1, <1>2, LoadedData, AllocData, InstallData, ClockData, EvictStartData, WrittenData,
     EvictEndData, TouchData, BeginFaultData DEF Handler
<1>3. CASE Program(t)
  <2>1. ~Finish(t) /\ \A f \in File : ~Mmap(t, f)
    BY DEF Finish, Mmap
  <2> QED BY <1>1, <1>3, <2>1, TouchData, AwaitIoData, BeginFaultData DEF Program
<1>4. ~Destructor(t)
  BY NoDestructor
<1> QED BY <1>2, <1>3, <1>4

\* A step that changes nothing.
LEMMA NothingMoves ==
  ASSUME DataInv, UNCHANGED vars
  PROVE  DataInv'
<1>1. UNCHANGED <<valid, modified, swapped, physicalPage, addrDisk, mainMemory, swap_disk,
                  freePageId, mapped_files, last, pc, page, buffer, frame, victim, disk>>
  BY DEF vars, tableVars, bitVars, diskVars, spaceVars, localVars
<1>2. ASSUME NEW u \in Thread PROVE CarriesOK(u)'
  <2>1. pc[u] = "written" => ToSwap(u) \/ disk[u] = NULL
    BY DEF DataInv, CarriesOK, ToSwap
  <2> QED BY <1>1, <2>1, CarriesKept DEF DataInv
<1>3. ASSUME NEW p \in PageId PROVE StoredOK(p)'
  <2>1. Away(p)' => Away(p)
    BY <1>1 DEF Away
  <2> QED BY <1>1, <2>1, StoredKept DEF DataInv
<1>4. DataTypeOK' /\ Unmapped'
  BY <1>1 DEF DataInv, DataTypeOK, Unmapped
<1> QED BY <1>2, <1>3, <1>4 DEF DataInv

\* When the system starts, every page is in the executable or new.
LEMMA DataInitially ==
  ASSUME VMInit
  PROVE  DataInv
<1>1. DataTypeOK /\ Unmapped
  BY DEF VMInit, DataTypeOK, Unmapped
<1>2. ASSUME NEW t \in Thread PROVE CarriesOK(t)
  <2>1. pc[t] = "user" /\ buffer[t] = Zero
    BY DEF VMInit
  <2> QED BY <2>1 DEF CarriesOK, Faulting, Holding, Evicting
<1>3. ASSUME NEW p \in PageId PROVE StoredOK(p)
  <2>1. p[2] \in Nat /\ p[1] \in Space
    BY VirtMemAssumption DEF PageId, Page
  <2>2. ProgramPages[p[1]] \in Nat /\ ExecPages \in Nat
    BY <2>1, VirtMemAssumption
  <2>3. /\ p \notin valid /\ p \notin swapped /\ freePageId = ProgramPages
        /\ addrDisk[p] = IF p[2] < ExecPages THEN p[2] ELSE -1
        /\ last[p] = IF p[2] >= ProgramPages[p[1]] THEN NULL
                     ELSE IF p[2] < ExecPages THEN Image ELSE Zero
    BY DEF VMInit
  <2>4. Exists(p) <=> ~(p[2] >= ProgramPages[p[1]])
    BY <2>1, <2>2, <2>3 DEF Exists
  <2>5. Exists(p) => last[p] = IF addrDisk[p] = -1 THEN Zero ELSE Image
    <3>1. CASE p[2] < ExecPages
      BY <2>1, <2>3, <2>4, <3>1
    <3>2. CASE ~(p[2] < ExecPages)
      BY <2>1, <2>3, <2>4, <3>2
    <3> QED BY <3>1, <3>2
  <2>6. ~Exists(p) => last[p] = NULL
    BY <2>3, <2>4
  <2> QED BY <2>3, <2>5, <2>6 DEF StoredOK
<1> QED BY <1>1, <1>2, <1>3 DEF DataInv

\* For programs that map no files and do not end, in a swap area that holds
\* their pages: at every point of PageFault and EvictPage (pagefaultmanager.cc,
\* physMem.cc) somebody has the contents of every page.
THEOREM PagingInvariant ==
  Leaving = {} /\ Mapping = {} /\ SwapSuffices => (VMSpec => []PagingInv)
<1> SUFFICES ASSUME Leaving = {}, Mapping = {}, SwapSuffices
             PROVE  VMSpec => []PagingInv
  OBVIOUS
<1>1. VMInit => DataInv
  BY DataInitially
<1>2. VMInv /\ SwapInv /\ DataInv /\ [VMNext]_vars => DataInv'
  <2> SUFFICES ASSUME VMInv, SwapInv, DataInv, [VMNext]_vars PROVE DataInv'
    OBVIOUS
  <2>1. CASE \E t \in Thread : Handler(t) \/ Program(t) \/ Destructor(t)
    BY <2>1, DataSteps
  <2>2. CASE UNCHANGED vars
    BY <2>2, NothingMoves
  <2> QED BY <2>1, <2>2 DEF VMNext, Quiet
<1>3. VMSpec => []VMInv
  BY VMInvariant
<1>4. VMSpec => []SwapInv
  BY SwapInvariant
<1> QED BY <1>1, <1>2, <1>3, <1>4, PTL DEF VMSpec, PagingInv

\* PageFault, EvictPage and the swap area (swapManager.cc): a thread reads
\* from a page what was last written to it, whatever was loaded, evicted and
\* written in between.
THEOREM PagingDoesNotShow ==
  Leaving = {} /\ Mapping = {} /\ SwapSuffices => (VMSpec => []PagingIsInvisible)
<1> SUFFICES ASSUME Leaving = {}, Mapping = {}, SwapSuffices
             PROVE  VMSpec => []PagingIsInvisible
  OBVIOUS
<1>1. PagingInv => PagingIsInvisible
  BY DataImplies DEF PagingInv
<1>2. VMSpec => []PagingInv
  BY PagingInvariant
<1> QED BY <1>1, <1>2, PTL

=============================================================================
