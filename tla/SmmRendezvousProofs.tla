---------------------- MODULE SmmRendezvousProofs ----------------------
(***************************************************************************)
(* Theorems about SmmRendezvous, for any number of processors.             *)
(*                                                                         *)
(* First, every step keeps the invariant Meeting of SmmRendezvousPlaces,   *)
(* which says where the processors are with regard to each other and what  *)
(* the semaphores hold there; the assertions of BSPHandler, APHandler and  *)
(* SmiRendezvous follow from it.  Second, every step keeps what is known   *)
(* of the calls of the SMI handlers: who holds a token, what it counts and *)
(* which procedures are still to run.                                      *)
(***************************************************************************)
EXTENDS SmmRendezvousPlaces

\* A processor that waits for the BSP.
LEMMA PreFrame ==
  ASSUME NEW pl, Meeting(pl), NEW c \in CPUs, NEW q, NEW pl2, Moves(pl, c, q, pl2), Placed(pl2)',
         IsPre(pl[c]), IsPre(q), counter = LOCKED => q.s \notin {"ask_bsp", "give_up"},
         Types', CpusInv(pl2)',
         counter' = counter, inside' = inside, bspIndex' = bspIndex, config' = config, cpu' = cpu,
         local' = local
  PROVE  Meeting(pl2)'
<1>1. /\ pl \in [CPUs -> Place] /\ pl2 \in [CPUs -> Place] /\ pl2[c] = q /\ q \in Place
      /\ \A x \in CPUs : x # c => pl2[x] = pl[x]
  BY MeetingParts DEF Moves
<1>2. ~IsAp(pl[c]) /\ ~IsAp(q) /\ ~IsAtBsp(pl[c]) /\ ~IsAtBsp(q) /\ pl[c].s \notin LoopStages
      /\ q.s \notin LoopStages /\ ~IsOut(pl[c]) /\ ~IsOut(q)
  BY <1>1, Kinds
<1>3. LateInv(pl2)'
  BY <1>1, MeetingParts DEF LateInv
<1>4. RunOK(pl2, c)'
  BY <1>1, <1>2, MeetingParts DEF RunInv, RunOK
<1>5. cpu'[c].present <=> PresentAt(q)
  BY <1>2, MeetingParts DEF PresentInv, PresentAt
<1>6. QED
  BY <1>1, <1>2, <1>3, <1>4, <1>5, WaiterFrame

\* The timer of APHandler fires.
LEMMA TimerFiresKeeps ==
  ASSUME NEW pl, Meeting(pl), NEW c \in CPUs, TimerFires(c)
  PROVE  KeepsIn(pl, c, {"look"})
<1>1. pl[c].s = "await" /\ Types /\ IsPre(pl[c])
  BY TimerFiresGoes, MeetingParts DEF IsPre, PreStages
<1>2. PICK q, pl2 : /\ q \in Place /\ Moves(pl, c, q, pl2) /\ Placed(pl2)'
                    /\ q = P("look", TopK(config), pl[c].i, FALSE)
  BY TimerFiresGoes DEF Goes
<1>3. q.s = "look" /\ IsPre(q)
  BY <1>2 DEF P, IsPre, PreStages
<1>4. Types'
  BY <1>1 DEF Types, TimerFires
<1>5. CpusInv(pl2)'
  BY <1>1, <1>2, CpusFrame DEF TimerFires
<1>6. Meeting(pl2)'
  BY <1>1, <1>2, <1>3, <1>4, <1>5, PreFrame DEF TimerFires
<1>7. QED
  BY <1>2, <1>3, <1>6 DEF KeepsIn

\* While a processor waits for the BSP, Counter is locked only by a BSP it will see.
LEMMA LockedInside ==
  ASSUME NEW pl, Meeting(pl), NEW c \in CPUs, IsPre(pl[c]), counter = LOCKED
  PROVE  inside
<1>1. Cardinality(Counted(pl)) # LOCKED
  BY CountedFinite, SmmAssumption DEF LOCKED
<1>2. PICK b \in CPUs : IsAtBsp(pl[b]) /\ Locked(config, pl[b])
  BY <1>1, MeetingParts DEF CounterInv
<1>3. Arriving(config, pl[b])
  BY <1>2, MeetingParts DEF ArriveInv
<1>4. pl[b] \in Place /\ Valid(config, pl[b]) /\ config \in Configs
  BY MeetingParts DEF Placed
<1>5. InsideAt(config, pl[b]) /\ pl[b].s # "reset_counter"
  BY <1>2, <1>3, <1>4, Numbers
     DEF Locked, Arriving, InsideAt, Valid
<1>6. bspIndex = b /\ bspIndex # NoBsp
  BY <1>2, <1>5, MeetingParts DEF IndexInv, NoBsp, CPUs
<1>7. QED
  BY <1>2, <1>5, <1>6, MeetingParts DEF InsideInv

\* APHandler looks at InsideSmm again after its timer.
LEMMA LookAgainKeeps ==
  ASSUME NEW pl, Meeting(pl), NEW c \in CPUs, LookAgain(c)
  PROVE  KeepsIn(pl, c, {"ask_bsp", "give_up"})
<1>1. pl[c].s = "look" /\ Types /\ IsPre(pl[c])
  BY LookAgainGoes, MeetingParts DEF IsPre, PreStages
<1>2. PICK q, pl2 : /\ q \in Place /\ Moves(pl, c, q, pl2) /\ Placed(pl2)'
                    /\ \/ q = P("ask_bsp", TopK(config), 0, FALSE)
                       \/ q = P("give_up", TopK(config), 0, FALSE)
  BY LookAgainGoes DEF Goes
<1>3. q.s \in {"ask_bsp", "give_up"} /\ IsPre(q)
  BY <1>2 DEF P, IsPre, PreStages
<1>4. Types'
  BY <1>1 DEF Types, LookAgain
<1>5. CpusInv(pl2)'
  BY <1>1, <1>2, CpusFrame DEF LookAgain
<1>6. counter # LOCKED
  BY <1>1, LockedInside DEF LookAgain
<1>7. Meeting(pl2)'
  BY <1>1, <1>2, <1>3, <1>4, <1>5, <1>6, PreFrame DEF LookAgain
<1>8. QED
  BY <1>2, <1>3, <1>7 DEF KeepsIn

\* APHandler looks whether there is a BSP.
LEMMA AskBspKeeps ==
  ASSUME NEW pl, Meeting(pl), NEW c \in CPUs, AskBsp(c)
  PROVE  KeepsIn(pl, c, {"give_up", "await"})
<1>1. pl[c].s = "ask_bsp" /\ Types /\ IsPre(pl[c])
  BY AskBspGoes, MeetingParts DEF IsPre, PreStages
<1>2. PICK q, pl2 : /\ q \in Place /\ Moves(pl, c, q, pl2) /\ Placed(pl2)'
                    /\ \/ q = P("give_up", TopK(config), 0, FALSE)
                       \/ q = P("await", TopK(config), 2, FALSE)
  BY AskBspGoes DEF Goes
<1>3. q.s \in {"give_up", "await"} /\ IsPre(q)
  BY <1>2 DEF P, IsPre, PreStages
<1>4. platform' = IF bspIndex = NoBsp THEN platform ELSE [platform EXCEPT !.pending[bspIndex] = TRUE]
  BY DEF AskBsp
<1>5. Types'
  <2>1. platform' \in PlatformData
    BY <1>1, <1>4 DEF Types, PlatformData
  <2>2. QED
    BY <1>1, <2>1 DEF Types, AskBsp
<1>6. CpusInv(pl2)'
  <2>1. \A x \in CPUs : platform'.pending[x] => platform.pending[x] \/ x <= config.cpus
    BY <1>1, <1>4, MeetingParts DEF Types, PlatformData, CpusInv
  <2>2. QED
    BY <1>1, <1>2, <2>1, CpusFrame DEF AskBsp
<1>7. counter # LOCKED
  BY <1>1, MeetingParts DEF LateInv
<1>8. Meeting(pl2)'
  BY <1>1, <1>2, <1>3, <1>5, <1>6, <1>7, PreFrame DEF AskBsp
<1>9. QED
  BY <1>2, <1>3, <1>8 DEF KeepsIn

\* An AP that sees InsideSmm finds a BSP that has not gathered the APs yet, or never will.
LEMMA BspSeenKeeps ==
  ASSUME NEW pl, Meeting(pl), NEW c \in CPUs, BspSeen(c)
  PROVE  KeepsIn(pl, c, {"find_bsp"})
<1>1. pl[c].s \in {"await", "look"} /\ Types /\ IsPre(pl[c])
  BY BspSeenGoes, MeetingParts DEF IsPre, PreStages
<1>2. PICK q, pl2 : /\ q \in Place /\ Moves(pl, c, q, pl2) /\ Placed(pl2)'
                    /\ q = P("find_bsp", TopK(config), 0, FALSE)
  BY BspSeenGoes DEF Goes
<1>3. q.s = "find_bsp" /\ q.k = TopK(config) /\ q.s \notin LoopStages
  BY <1>2 DEF P, LoopStages
<1>4. IsAp(q) /\ ~IsPre(q) /\ ~IsOut(q) /\ ~IsAp(pl[c]) /\ pl[c].s \notin LoopStages /\ pl2[c] = q
  BY <1>1, <1>2, <1>3, MeetingParts, Kinds DEF Moves
<1>5. inside /\ inside' = inside /\ counter' = counter /\ bspIndex' = bspIndex /\ config' = config
      /\ cpu' = cpu /\ local' = local /\ platform' = platform
  BY DEF BspSeen
<1>6. Types'
  BY <1>1, <1>5 DEF Types, BspSeen
<1>7. CpusInv(pl2)'
  BY <1>1, <1>2, <1>5, CpusFrame
<1>8. bspIndex # NoBsp /\ bspIndex \in CPUs /\ IsAtBsp(pl[bspIndex]) /\ InsideAt(config, pl[bspIndex])
  BY <1>1, <1>5, MeetingParts DEF InsideInv, Types
<1>9. Arriving(config, pl[bspIndex])
  BY <1>1, <1>8, MeetingParts DEF ArriveInv
<1>10. PairOK(pl2, pl[bspIndex], c)'
  BY <1>3, <1>4, <1>5, <1>8, <1>9 DEF PairOK, InsideAt
<1>11. Left(pl[bspIndex], c) # q.k + 1
  BY <1>3, <1>9, MeetingParts, Numbers DEF Left, Arriving
<1>12. RunOK(pl2, c)'
  BY <1>1, <1>3, <1>4, <1>5, MeetingParts DEF RunInv, RunOK
<1>13. cpu'[c].present <=> PresentAt(q)
  <2>1. ~PresentAt(pl[c]) /\ ~PresentAt(q)
    BY <1>1, <1>2, <1>3, <1>4, MeetingParts, Kinds DEF PresentAt
  <2>2. QED
    BY <2>1, <1>5, MeetingParts DEF PresentInv
<1>14. LateInv(pl2)'
  BY <1>2, <1>3, <1>5, MeetingParts DEF LateInv, Moves
<1>15. Meeting(pl2)'
  BY <1>1, <1>2, <1>4, <1>5, <1>6, <1>7, <1>8, <1>10, <1>11, <1>12, <1>13, <1>14, WaiterFrame
<1>16. QED
  BY <1>2, <1>3, <1>15 DEF KeepsIn

\* A processor that may become BSP finds no BSP, and no AP.
LEMMA NobodyLeads ==
  ASSUME NEW pl, Meeting(pl), NEW c \in CPUs, IsPre(pl[c]), bspIndex = NoBsp \/ bspIndex = c
  PROVE  \A x \in CPUs : ~IsAtBsp(pl[x]) /\ ~IsAp(pl[x])
<1>1. ~IsAtBsp(pl[c]) /\ config \in Configs
  BY MeetingParts, Kinds
<1>2. ASSUME NEW x \in CPUs, IsAtBsp(pl[x]) PROVE FALSE
  <2>1. pl[x].s = "reset_counter"
    BY <1>1, <1>2, MeetingParts DEF IndexInv, NoBsp, CPUs
  <2>2. pl[x].k = 0
    BY <2>1, MeetingParts DEF Placed, Valid
  <2>3. QED
    BY <1>1, <1>2, <2>2, MeetingParts, Numbers DEF ArriveInv, Arriving
<1>3. ASSUME NEW x \in CPUs, IsAp(pl[x]) PROVE FALSE
  BY <1>1, <1>3, MeetingParts DEF PairInv, PairOK
<1>4. QED
  BY <1>2, <1>3

\* The election: the compare-exchange of BspIndex, or the platform, makes one processor the BSP.
LEMMA ElectKeeps ==
  ASSUME NEW pl, Meeting(pl), NEW c \in CPUs, Elect(c)
  PROVE  KeepsIn(pl, c, {"inside", "await"})
<1>1. pl[c].s = "elect" /\ Types /\ IsPre(pl[c]) /\ pl \in [CPUs -> Place]
  BY ElectGoes, MeetingParts DEF IsPre, PreStages
<1>2. CASE bspIndex' # c
  <2>1. PICK q, pl2 : /\ q \in Place /\ Moves(pl, c, q, pl2) /\ Placed(pl2)'
                      /\ q = P("await", TopK(config), 1, FALSE)
    BY <1>2, ElectGoes DEF Goes
  <2>2. q.s = "await" /\ IsPre(q)
    BY <2>1 DEF P, IsPre, PreStages
  <2>3. bspIndex' = bspIndex
    BY <1>2 DEF Elect
  <2>4. Types'
    BY <1>1, <2>3 DEF Types, Elect
  <2>5. CpusInv(pl2)'
    BY <1>1, <2>1, <2>3, CpusFrame DEF Elect
  <2>6. Meeting(pl2)'
    BY <1>1, <2>1, <2>2, <2>3, <2>4, <2>5, PreFrame DEF Elect
  <2>7. QED
    BY <2>1, <2>2, <2>6 DEF KeepsIn
<1>3. CASE bspIndex' = c
  <2>1. PICK q, pl2 : /\ q \in Place /\ Moves(pl, c, q, pl2) /\ Placed(pl2)'
                      /\ q = P("inside", TopK(config), 0, FALSE)
    BY <1>3, ElectGoes DEF Goes
  <2>2. q.s = "inside" /\ q.k = TopK(config)
    BY <2>1 DEF P
  <2>3. pl2[c] = q /\ \A x \in CPUs : x # c => pl2[x] = pl[x]
    BY <2>1 DEF Moves
  <2>4. /\ IsAtBsp(q) /\ ~IsPre(q) /\ ~IsAp(q) /\ ~IsOut(q) /\ q.s \notin LoopStages
        /\ q.s \notin OneStages /\ ~IsOut(pl[c]) /\ ~IsAp(pl[c]) /\ ~IsAtBsp(pl[c])
    <3>1. /\ IsAtBsp(q) /\ ~IsPre(q) /\ ~IsAp(q) /\ ~IsOut(q) /\ q.s \notin LoopStages
          /\ ~IsOut(pl[c]) /\ ~IsAp(pl[c]) /\ ~IsAtBsp(pl[c])
      BY <1>1, <2>1, <2>2, Kinds
    <3>2. q.s \notin OneStages
      BY <2>2 DEF OneStages
    <3>3. QED
      BY <3>1, <3>2
  <2>5. /\ inside' = inside /\ counter' = counter /\ config' = config /\ cpu' = cpu
        /\ local' = local /\ platform' = platform
        /\ bspIndex' = IF config.election /\ bspIndex = NoBsp THEN c ELSE bspIndex
    BY DEF Elect
  <2>6. bspIndex = NoBsp \/ bspIndex = c
    BY <1>3, <2>5
  <2>7. \A x \in CPUs : ~IsAtBsp(pl[x]) /\ ~IsAp(pl[x])
    BY <1>1, <2>6, NobodyLeads
  <2>8. \A x \in CPUs : ~IsAp(pl2[x]) /\ (IsAtBsp(pl2[x]) <=> x = c)
    BY <2>3, <2>4, <2>7
  <2>9. ~Locked(config, q) /\ Arriving(config, q) /\ ~Final(q) /\ q.k # 0 /\ ~InsideAt(config, q)
    BY <2>2, MeetingParts, Numbers DEF Locked, Arriving, Final, InsideAt
  <2>10. Types'
    BY <1>1, <1>3, <2>5 DEF Types, Elect
  <2>11. CpusInv(pl2)'
    BY <1>1, <1>3, <2>1, <2>5, CpusFrame
  <2>12. c # NoBsp
    BY DEF NoBsp, CPUs
  <2>13. IndexInv(pl2)'
    BY <1>3, <2>2, <2>3, <2>4, <2>5, <2>6, <2>8, <2>12, MeetingParts DEF IndexInv
  <2>14. ~inside
    BY <2>6, <2>7, MeetingParts DEF InsideInv
  <2>15. InsideInv(pl2)'
    BY <1>3, <2>3, <2>5, <2>9, <2>14 DEF InsideInv
  <2>16. CounterInv(pl2)'
    <3>1. Counted(pl2) = Counted(pl)
      BY <2>3, <2>4 DEF Counted
    <3>2. counter = Cardinality(Counted(pl))
      BY <2>7, MeetingParts DEF CounterInv
    <3>3. QED
      BY <2>3, <2>5, <2>8, <2>9, <3>1, <3>2 DEF CounterInv
  <2>17. LateInv(pl2)'
    BY <2>2, <2>3, <2>5, MeetingParts DEF LateInv
  <2>18. ArriveInv(pl2)'
    BY <2>3, <2>5, <2>8, <2>9 DEF ArriveInv
  <2>19. PairInv(pl2)'
    BY <2>8 DEF PairInv
  <2>20. RunInv(pl2)'
    <3> SUFFICES ASSUME NEW x \in CPUs
                 PROVE  RunOK(pl2, x)'
      BY DEF RunInv
    <3>1. RunOK(pl, x)
      BY MeetingParts DEF RunInv
    <3>2. CASE x = c
      BY <2>3, <2>4, <3>2 DEF RunOK
    <3>3. CASE x # c
      <4>1. pl2[x] = pl[x] /\ ~IsAp(pl[x]) /\ pl[x].s \notin LoopStages
        BY <1>1, <2>3, <2>7, <3>3, Kinds
      <4>2. QED
        BY <2>5, <3>1, <4>1 DEF RunOK
    <3>4. QED
      BY <3>2, <3>3
  <2>21. GatherInv(pl2)'
    <3>1. cpu[c].run = 0
      BY <1>1, MeetingParts DEF RunInv, RunOK
    <3>2. Signalled(pl2, q) = {}
      BY <2>8 DEF Signalled
    <3>3. Cardinality(Signalled(pl2, q)) = 0
      BY <3>2, FS_EmptySet
    <3>4. QED
      BY <2>3, <2>5, <2>8, <2>9, <3>1, <3>3 DEF GatherInv
  <2>22. PresentInv(pl2)'
    <3>1. ~PresentAt(q) /\ ~PresentAt(pl[c])
      BY <2>2, <2>4 DEF PresentAt
    <3>2. QED
      BY <2>3, <2>5, <3>1, MeetingParts DEF PresentInv
  <2>23. OneInv(pl2)'
    <3>1. \A x \in CPUs : pl2[x].s \notin OneStages
      BY <1>1, <2>3, <2>4, <2>7, Kinds
    <3>2. QED
      BY <3>1 DEF OneInv
  <2>24. Meeting(pl2)'
    BY <2>1, <2>10, <2>11, <2>13, <2>15, <2>16, <2>17, <2>18, <2>19, <2>20, <2>21, <2>22, <2>23
       DEF Meeting
  <2>25. QED
    BY <2>1, <2>2, <2>24 DEF KeepsIn
<1>4. QED
  BY <1>2, <1>3

-----------------------------------------------------------------------------
(***************************************************************************)
(* The APs.                                                                *)
(***************************************************************************)
\* What an AP knows of its BSP.
LEMMA ApFacts ==
  ASSUME NEW pl, Meeting(pl), NEW c \in CPUs, IsAp(pl[c])
  PROVE  /\ bspIndex # NoBsp /\ bspIndex \in CPUs /\ bspIndex # c
         /\ pl[bspIndex] \in Place /\ Valid(config, pl[bspIndex]) /\ IsAtBsp(pl[bspIndex])
         /\ pl[bspIndex].s # "reset_counter" /\ pl[bspIndex].k # 0
         /\ PairOK(pl, pl[bspIndex], c) /\ RunOK(pl, c) /\ (cpu[c].present <=> PresentAt(pl[c]))
         /\ pl[c] \in Place /\ Valid(config, pl[c]) /\ ~IsPre(pl[c]) /\ ~IsOut(pl[c])
            /\ ~IsAtBsp(pl[c])
<1>1. /\ bspIndex # NoBsp /\ bspIndex \in CPUs /\ PairOK(pl, pl[bspIndex], c)
      /\ RunOK(pl, c) /\ (cpu[c].present <=> PresentAt(pl[c]))
  BY MeetingParts DEF Types, PairInv, RunInv, PresentInv
<1>2. IsAtBsp(pl[bspIndex])
  BY <1>1 DEF PairOK
<1>3. /\ pl[c] \in Place /\ Valid(config, pl[c]) /\ pl[bspIndex] \in Place
      /\ Valid(config, pl[bspIndex])
  BY <1>1, MeetingParts DEF Placed
<1>4. ~IsPre(pl[c]) /\ ~IsOut(pl[c]) /\ ~IsAtBsp(pl[c])
  BY <1>3, Kinds
<1>5. pl[bspIndex].k # 0
  BY <1>1, <1>2, MeetingParts DEF GatherInv, Aps
<1>6. pl[bspIndex].s # "reset_counter"
  BY <1>3, <1>5 DEF Valid
<1>7. QED
  BY <1>1, <1>2, <1>3, <1>4, <1>5, <1>6

\* An AP is not among those that wait for the BSP.
LEMMA ApLateFrame ==
  ASSUME NEW pl, Meeting(pl), NEW c \in CPUs, NEW q, NEW pl2, Moves(pl, c, q, pl2), IsAp(q),
         counter' = counter
  PROVE  LateInv(pl2)'
<1>1. q \in Place
  BY DEF Moves
<1>2. q.s \notin {"ask_bsp", "give_up"}
  BY <1>1, Kinds
<1>3. QED
  BY <1>2, MeetingParts DEF LateInv, Moves

\* The AP reads BspIndex.
LEMMA FindBspKeeps ==
  ASSUME NEW pl, Meeting(pl), NEW c \in CPUs, FindBsp(c)
  PROVE  KeepsIn(pl, c, {"ap_present"})
<1>1. pl[c].s = "find_bsp" /\ InSmm(c) /\ IsAp(pl[c]) /\ Types /\ config \in Configs
  BY StageOf, MeetingParts DEF FindBsp, ApOps, IsAp, ApStages, LoopStages
<1>2. Goes(pl, c, Succ(config, pl[c]))
  BY <1>1, MeetingParts, DonePlace DEF FindBsp
<1>3. PICK q, pl2 : q \in Place /\ q = Succ(config, pl[c]) /\ Moves(pl, c, q, pl2) /\ Placed(pl2)'
  BY <1>2 DEF Goes
<1>4. q.s = "ap_present" /\ q.k = TopK(config) /\ q.s \notin LoopStages /\ pl[c].s \notin LoopStages
  BY <1>1, <1>3 DEF Succ, ApSucc, OutStages, PreStages, ApStages, LoopStages, P
<1>5. IsAp(q) /\ ~IsPre(q) /\ ~IsOut(q) /\ pl2[c] = q
  BY <1>3, <1>4, Kinds DEF Moves
<1>6. /\ local' = [local EXCEPT ![c].bsp = bspIndex] /\ cpu' = cpu /\ counter' = counter
      /\ inside' = inside /\ bspIndex' = bspIndex /\ config' = config /\ platform' = platform
  BY DEF FindBsp
<1>7. Types' /\ local'[c].bsp = bspIndex /\ \A x \in CPUs : x # c => local'[x] = local[x]
  <2>1. local' \in LocalData
    BY <1>1, <1>6 DEF Types, LocalData
  <2>2. local'[c].bsp = bspIndex /\ \A x \in CPUs : x # c => local'[x] = local[x]
    BY <1>1, <1>6 DEF Types, LocalData
  <2>3. QED
    BY <1>1, <1>6, <2>1, <2>2 DEF Types, FindBsp
<1>8. CpusInv(pl2)' /\ LateInv(pl2)'
  BY <1>1, <1>3, <1>5, <1>6, CpusFrame, ApLateFrame
<1>9. PairOK(pl2, pl[bspIndex], c)'
  BY <1>1, <1>4, <1>5, <1>6, <1>7, ApFacts DEF PairOK
<1>10. RunOK(pl2, c)'
  BY <1>1, <1>4, <1>5, <1>6, ApFacts DEF RunOK
<1>11. cpu'[c].present <=> PresentAt(q)
  BY <1>1, <1>4, <1>6, ApFacts DEF PresentAt, IsAtBsp, BspStages, OneStages, AllStages
<1>12. pl[c].k = q.k
  BY <1>1, <1>4, ApFacts DEF Valid
<1>13. Meeting(pl2)'
  BY <1>1, <1>3, <1>4, <1>5, <1>6, <1>7, <1>8, <1>9, <1>10, <1>11, <1>12, ApFacts, WaiterFrame
<1>14. QED
  BY <1>3, <1>4, <1>13 DEF KeepsIn

\* The AP marks itself present.
LEMMA MarkApKeeps ==
  ASSUME NEW pl, Meeting(pl), NEW c \in CPUs, MarkAp(c)
  PROVE  KeepsIn(pl, c, {"signal", "idle"})
<1>1. pl[c].s = "ap_present" /\ InSmm(c) /\ IsAp(pl[c]) /\ Types /\ config \in Configs
  BY StageOf, MeetingParts DEF MarkAp, ApOps, IsAp, ApStages, LoopStages
<1>2. Goes(pl, c, Succ(config, pl[c]))
  BY <1>1, MeetingParts, DonePlace DEF MarkAp
<1>3. PICK q, pl2 : q \in Place /\ q = Succ(config, pl[c]) /\ Moves(pl, c, q, pl2) /\ Placed(pl2)'
  BY <1>2 DEF Goes
<1>4. /\ q.k = TopK(config) /\ pl[c].k = TopK(config) /\ pl[c].s \notin LoopStages
      /\ \/ q.s = "signal" /\ q.k \in Odd /\ q.k # 1 /\ q.s \notin LoopStages
         \/ q.s = "idle" /\ ~Gathers(config) /\ q.k = LoopK(config) /\ q.k \notin Odd
            /\ q.s \in LoopStages
  <2>1. pl[c].k = TopK(config)
    BY <1>1, ApFacts DEF Valid
  <2>2. QED
    BY <1>1, <1>3, <2>1, Numbers DEF Succ, ApSucc, OutStages, PreStages, ApStages, LoopStages, P, Odd
<1>5. IsAp(q) /\ ~IsPre(q) /\ ~IsOut(q) /\ ~IsAtBsp(q) /\ pl2[c] = q
  BY <1>3, <1>4, Kinds DEF Moves
<1>6. /\ SetData(c, "present", TRUE) /\ counter' = counter /\ local' = local
      /\ inside' = inside /\ bspIndex' = bspIndex /\ config' = config /\ platform' = platform
  BY DEF MarkAp
<1>7. Others(c) /\ cpu'[c].present /\ cpu'[c].run = cpu[c].run /\ cpu'[c].busy = cpu[c].busy
  BY <1>1, <1>6, SetPresent
<1>8. Types'
  BY <1>1, <1>6, <1>7 DEF Types, MarkAp, Others
<1>9. CpusInv(pl2)' /\ LateInv(pl2)'
  BY <1>1, <1>3, <1>5, <1>6, CpusFrame, ApLateFrame
<1>10. Arriving(config, pl[bspIndex]) /\ local[c].bsp = bspIndex /\ pl[bspIndex].s # "inside"
  BY <1>1, ApFacts DEF PairOK
<1>11. Left(pl[bspIndex], c) = TopK(config)
  BY <1>10 DEF Left, Arriving
<1>12. PairOK(pl2, pl[bspIndex], c)'
  BY <1>1, <1>4, <1>5, <1>6, <1>10, <1>11, ApFacts, Numbers DEF PairOK
<1>13. cpu[c].run = 0 /\ ~cpu[c].busy
  BY <1>1, <1>4, ApFacts DEF RunOK
<1>14. q.s = "idle" => ~Loading(pl[bspIndex], c)
  <2> SUFFICES ASSUME q.s = "idle" PROVE ~Loading(pl[bspIndex], c)
    OBVIOUS
  <2>1. ~Gathers(config)
    BY <1>4
  <2>2. pl[bspIndex].s \notin AllStages
    BY <1>1, <2>1, ApFacts DEF Valid
  <2>3. pl[bspIndex].s \in OneStages => pl[bspIndex].i # c
    BY <1>1, <1>4, ApFacts, MeetingParts DEF OneInv
  <2>4. QED
    BY <2>2, <2>3 DEF Loading, AllStages, OneStages
<1>15. RunOK(pl2, c)'
  <2>1. pl2[bspIndex] = pl[bspIndex]
    BY <1>1, <1>3, ApFacts DEF Moves
  <2>2. CASE q.s = "signal"
    BY <1>4, <1>5, <1>7, <1>13, <2>2 DEF RunOK
  <2>3. CASE q.s = "idle"
    <3>1. LoopOK(pl2, pl[bspIndex], c)'
      BY <1>1, <1>4, <1>5, <1>6, <1>7, <1>11, <1>13, <1>14, <2>3, Numbers DEF LoopOK
    <3>2. QED
      BY <1>4, <1>5, <1>6, <2>1, <2>3, <3>1 DEF RunOK
  <2>4. QED
    BY <1>4, <2>2, <2>3
<1>16. cpu'[c].present <=> PresentAt(q)
  BY <1>4, <1>5, <1>7 DEF PresentAt
<1>17. Meeting(pl2)'
  BY <1>1, <1>3, <1>4, <1>5, <1>6, <1>7, <1>8, <1>9, <1>12, <1>15, <1>16, ApFacts, WaiterFrame
     DEF Others
<1>18. QED
  BY <1>3, <1>4, <1>17 DEF KeepsIn

\* The AP is released by the BSP from one of the waits for its Run.
LEMMA WaitKeeps ==
  ASSUME NEW pl, Meeting(pl), NEW c \in CPUs, WaitForRun(c), pl[c].s = "wait"
  PROVE  KeepsIn(pl, c, {"signal", "ap_absent"})
<1>1. pl[c].s = "wait" /\ IsAp(pl[c]) /\ Types /\ config \in Configs /\ pl[c].s \notin LoopStages
  BY MeetingParts DEF IsAp, ApStages, LoopStages
<1>2. Goes(pl, c, Succ(config, pl[c]))
  BY <1>1, WaitForRunGoes
<1>3. PICK q, pl2 : q \in Place /\ q = Succ(config, pl[c]) /\ Moves(pl, c, q, pl2) /\ Placed(pl2)'
  BY <1>2 DEF Goes
<1>4. pl[c].k \in Even
  BY <1>1, ApFacts DEF Valid
<1>5. /\ q.k = pl[c].k - 1 /\ q.s \notin LoopStages
      /\ \/ q.s = "signal" /\ q.k # 1
         \/ q.s = "ap_absent" /\ q.k = 1
  BY <1>1, <1>3, <1>4 DEF Succ, ApSucc, OutStages, PreStages, ApStages, LoopStages, P, Even
<1>6. IsAp(q) /\ ~IsPre(q) /\ ~IsOut(q) /\ ~IsAtBsp(q) /\ pl2[c] = q
  BY <1>3, <1>5, Kinds DEF Moves
<1>7. /\ SetData(c, "run", cpu[c].run - 1) /\ cpu[c].run > 0 /\ counter' = counter /\ local' = local
      /\ inside' = inside /\ bspIndex' = bspIndex /\ config' = config /\ platform' = platform
  BY DEF WaitForRun
<1>8. cpu[c].run = 1 /\ Left(pl[bspIndex], c) = pl[c].k - 1 /\ ~cpu[c].busy
  BY <1>1, <1>7, ApFacts DEF RunOK
<1>9. Others(c) /\ cpu'[c].run = 0 /\ cpu'[c].present = cpu[c].present /\ cpu'[c].busy = cpu[c].busy
  <2>1. SetData(c, "run", 0)
    BY <1>7, <1>8
  <2>2. QED
    BY <1>1, <2>1, SetRun
<1>10. Types'
  BY <1>1, <1>7, <1>9 DEF Types, WaitForRun, Others
<1>11. CpusInv(pl2)' /\ LateInv(pl2)'
  BY <1>1, <1>3, <1>6, <1>7, CpusFrame, ApLateFrame
<1>12. q.k \in Odd
  BY <1>4, <1>5 DEF Even, Odd
<1>13. PairOK(pl2, pl[bspIndex], c)'
  BY <1>1, <1>5, <1>6, <1>7, <1>8, <1>12, ApFacts DEF PairOK
<1>14. RunOK(pl2, c)'
  BY <1>5, <1>6, <1>8, <1>9 DEF RunOK
<1>15. cpu'[c].present <=> PresentAt(q)
  <2>1. PresentAt(pl[c])
    BY <1>1 DEF PresentAt
  <2>2. QED
    BY <1>1, <1>5, <1>6, <1>9, <2>1, ApFacts DEF PresentAt
<1>16. Left(pl[bspIndex], c) # pl[c].k + 1 /\ Left(pl[bspIndex], c) # q.k + 1
  BY <1>4, <1>5, <1>8 DEF Even
<1>17. Meeting(pl2)'
  BY <1>1, <1>3, <1>5, <1>6, <1>7, <1>9, <1>10, <1>11, <1>13, <1>14, <1>15, <1>16, ApFacts,
     WaiterFrame DEF Others
<1>18. QED
  BY <1>3, <1>5, <1>17 DEF KeepsIn

\* The AP clears its Present.
LEMMA ApAbsentKeeps ==
  ASSUME NEW pl, Meeting(pl), NEW c \in CPUs, ClearPresent(c), pl[c].s = "ap_absent"
  PROVE  KeepsIn(pl, c, {"signal"})
<1>1. pl[c].s = "ap_absent" /\ IsAp(pl[c]) /\ Types /\ config \in Configs
      /\ pl[c].s \notin LoopStages /\ InSmm(c)
  BY MeetingParts, StageOf DEF IsAp, ApStages, LoopStages
<1>2. Goes(pl, c, Succ(config, pl[c]))
  BY <1>1, MeetingParts, DonePlace DEF ClearPresent
<1>3. PICK q, pl2 : q \in Place /\ q = Succ(config, pl[c]) /\ Moves(pl, c, q, pl2) /\ Placed(pl2)'
  BY <1>2 DEF Goes
<1>4. pl[c].k = 1
  BY <1>1, ApFacts DEF Valid
<1>5. q.k = 1 /\ q.s = "signal" /\ q.s \notin LoopStages
  BY <1>1, <1>3 DEF Succ, ApSucc, OutStages, PreStages, ApStages, LoopStages, P
<1>6. IsAp(q) /\ ~IsPre(q) /\ ~IsOut(q) /\ ~IsAtBsp(q) /\ pl2[c] = q
  BY <1>3, <1>5, Kinds DEF Moves
<1>7. /\ SetData(c, "present", FALSE) /\ counter' = counter /\ local' = local
      /\ inside' = inside /\ bspIndex' = bspIndex /\ config' = config /\ platform' = platform
  BY DEF ClearPresent
<1>8. cpu[c].run = 0 /\ ~cpu[c].busy
  BY <1>1, ApFacts DEF RunOK
<1>9. Others(c) /\ cpu'[c].run = 0 /\ ~cpu'[c].present /\ ~cpu'[c].busy
  BY <1>1, <1>7, <1>8, SetPresent
<1>10. Types'
  BY <1>1, <1>7, <1>9 DEF Types, ClearPresent, Others
<1>11. CpusInv(pl2)' /\ LateInv(pl2)'
  BY <1>1, <1>3, <1>6, <1>7, CpusFrame, ApLateFrame
<1>12. PairOK(pl2, pl[bspIndex], c)'
  BY <1>1, <1>4, <1>5, <1>6, <1>7, ApFacts DEF PairOK
<1>13. RunOK(pl2, c)'
  BY <1>5, <1>6, <1>9 DEF RunOK
<1>14. cpu'[c].present <=> PresentAt(q)
  BY <1>5, <1>6, <1>9 DEF PresentAt
<1>15. Meeting(pl2)'
  BY <1>1, <1>3, <1>4, <1>5, <1>6, <1>7, <1>9, <1>10, <1>11, <1>12, <1>13, <1>14, ApFacts,
     WaiterFrame DEF Others
<1>16. QED
  BY <1>3, <1>5, <1>15 DEF KeepsIn

\* An AP in the loop for something to do.
LEMMA LoopApFrame ==
  ASSUME NEW pl, Meeting(pl), NEW c \in CPUs, NEW q, NEW pl2, Moves(pl, c, q, pl2), Placed(pl2)',
         pl[c].s \in LoopStages, q.s \in LoopStages, q.k = LoopK(config), Types',
         LoopOK(pl2, pl[bspIndex], c)', cpu'[c].present = cpu[c].present,
         counter' = counter, inside' = inside, bspIndex' = bspIndex, config' = config,
         platform' = platform, local' = local, \A x \in CPUs : x # c => cpu'[x] = cpu[x]
  PROVE  Meeting(pl2)'
<1>1. /\ pl2[c] = q /\ q \in Place /\ pl[c] \in Place /\ IsAp(pl[c]) /\ IsAp(q)
      /\ ~IsPre(q) /\ ~IsOut(q) /\ ~IsAtBsp(q)
  BY MeetingParts, Kinds DEF Moves
<1>2. pl[c].k = LoopK(config) /\ pl[c].s # "out" /\ config \in Configs
  BY <1>1, ApFacts, MeetingParts DEF Valid, LoopStages
<1>3. /\ pl[c].s \notin {"find_bsp", "ap_present", "signal"}
      /\ q.s \notin {"find_bsp", "ap_present", "signal"}
  BY DEF LoopStages
<1>4. CpusInv(pl2)' /\ LateInv(pl2)'
  BY <1>1, <1>2, CpusFrame, ApLateFrame
<1>5. PairOK(pl2, pl[bspIndex], c)'
  BY <1>1, <1>2, <1>3, ApFacts DEF PairOK
<1>6. RunOK(pl2, c)'
  <2>1. pl2[bspIndex] = pl[bspIndex]
    BY <1>1, ApFacts DEF Moves
  <2>2. QED
    BY <1>1, <2>1 DEF RunOK
<1>7. cpu'[c].present <=> PresentAt(q)
  BY <1>1, <1>3, ApFacts DEF PresentAt
<1>8. QED
  BY <1>1, <1>2, <1>4, <1>5, <1>6, <1>7, ApFacts, WaiterFrame

\* The AP is woken in its loop.
LEMMA IdleKeeps ==
  ASSUME NEW pl, Meeting(pl), NEW c \in CPUs, WaitForRun(c), pl[c].s = "idle"
  PROVE  Keeps(pl, c, P("test_exit", LoopK(config), 0, FALSE))
<1>1. PICK q, pl2 : /\ q \in Place /\ q = P("test_exit", LoopK(config), 0, FALSE)
                    /\ Moves(pl, c, q, pl2) /\ Placed(pl2)'
  BY WaitForRunGoes DEF Goes
<1>2. q.s = "test_exit" /\ q.k = LoopK(config) /\ q.s \in LoopStages /\ pl[c].s \in LoopStages
      /\ pl2[c] = q
  BY <1>1 DEF P, LoopStages, Moves
<1>3. Types /\ IsAp(pl[c])
  BY <1>2, MeetingParts, Kinds
<1>4. /\ SetData(c, "run", cpu[c].run - 1) /\ cpu[c].run > 0 /\ counter' = counter /\ local' = local
      /\ inside' = inside /\ bspIndex' = bspIndex /\ config' = config /\ platform' = platform
  BY DEF WaitForRun
<1>5. LoopOK(pl, pl[bspIndex], c)
  BY <1>2, <1>3, ApFacts DEF RunOK
<1>6. cpu[c].run = 1
  BY <1>4, <1>5 DEF LoopOK
<1>7. Others(c) /\ cpu'[c].run = 0 /\ cpu'[c].present = cpu[c].present /\ cpu'[c].busy = cpu[c].busy
  <2>1. SetData(c, "run", 0)
    BY <1>4, <1>6
  <2>2. QED
    BY <1>3, <2>1, SetRun
<1>8. Types'
  BY <1>3, <1>4, <1>7 DEF Types, WaitForRun, Others
<1>9. LoopOK(pl2, pl[bspIndex], c)'
  BY <1>2, <1>4, <1>5, <1>6, <1>7 DEF LoopOK
<1>10. Meeting(pl2)'
  BY <1>1, <1>2, <1>4, <1>7, <1>8, <1>9, LoopApFrame DEF Others
<1>11. QED
  BY <1>1, <1>10 DEF Keeps

\* An AP that is woken leaves the loop just when the BSP has called for it.
LEMMA ExitCalled ==
  ASSUME NEW pl, Meeting(pl), NEW c \in CPUs, pl[c].s = "test_exit"
  PROVE  /\ inside => Left(pl[bspIndex], c) >= LoopK(config)
         /\ ~inside => /\ Left(pl[bspIndex], c) = LoopK(config) - 1
                       /\ \A x \in CPUs : pl[x].s \notin OneStages
<1>1. pl[c].s \in LoopStages /\ config \in Configs
  BY MeetingParts DEF LoopStages
<1>2. IsAp(pl[c])
  BY <1>1, MeetingParts, Kinds
<1>3. PICK q : q = pl[bspIndex]
  OBVIOUS
<1>4. /\ q \in Place /\ Valid(config, q) /\ IsAtBsp(q) /\ q.s # "reset_counter"
      /\ LoopOK(pl, q, c) /\ PairOK(pl, q, c) /\ pl[c].k = LoopK(config)
  BY <1>1, <1>2, <1>3, ApFacts DEF RunOK, Valid
<1>5. inside <=> InsideAt(config, q)
  BY <1>2, <1>3, ApFacts, MeetingParts DEF InsideInv
<1>6. inside => Left(q, c) >= LoopK(config)
  BY <1>1, <1>4, <1>5, Numbers DEF InsideAt, Left, Place
<1>7. ASSUME ~inside PROVE Left(q, c) = LoopK(config) - 1
  <2>1. q.s # "inside" /\ Left(q, c) \in LoopK(config) - 1 .. LoopK(config) + 1
    BY <1>1, <1>4, Numbers DEF PairOK, Odd
  <2>2. q.k < LoopK(config) \/ (q.k = LoopK(config) /\ q.s = "release")
    BY <1>1, <1>4, <1>5, <1>7, <2>1, Numbers DEF InsideAt, Place
  <2>3. CASE Left(q, c) >= LoopK(config)
    <3>1. Quiet(config, q, c)
      BY <2>2 DEF Quiet
    <3>2. QED
      BY <1>4, <2>3, <3>1, <1>1, <2>1, Numbers DEF LoopOK
  <2>4. QED
    BY <1>1, <2>1, <2>3, Numbers
<1>8. ASSUME ~inside, NEW x \in CPUs, pl[x].s \in OneStages PROVE FALSE
  <2>1. pl[x] \in Place /\ Valid(config, pl[x]) /\ pl[x].s \in ServiceStages /\ IsAtBsp(pl[x])
    BY <1>8, MeetingParts, Kinds DEF Placed
  <2>2. pl[x].s \notin {"reset_counter", "inside", "release"}
    BY <1>8 DEF OneStages
  <2>3. bspIndex = x
    BY <2>1, <2>2, MeetingParts DEF IndexInv
  <2>4. q.k = LoopK(config)
    BY <1>3, <2>1, <2>3 DEF Valid
  <2>5. QED
    BY <1>3, <1>5, <1>8, <2>2, <2>3, <2>4 DEF InsideAt
<1>9. QED
  BY <1>3, <1>6, <1>7, <1>8

\* The AP looks whether it was woken to exit.
LEMMA TestExitKeeps ==
  ASSUME NEW pl, Meeting(pl), NEW c \in CPUs, TestExit(c)
  PROVE  /\ inside => Keeps(pl, c, P("procedure", LoopK(config), 0, FALSE))
         /\ ~inside => Keeps(pl, c, P("signal", LoopK(config) - 1, 0, FALSE))
<1>1. pl[c].s = "test_exit" /\ Types /\ config \in Configs
  BY TestExitGoes, MeetingParts
<1>2. pl[c].s \in LoopStages
  BY <1>1 DEF LoopStages
<1>3. IsAp(pl[c])
  BY <1>2, MeetingParts, Kinds
<1>4. /\ counter' = counter /\ local' = local /\ cpu' = cpu
      /\ inside' = inside /\ bspIndex' = bspIndex /\ config' = config /\ platform' = platform
  BY DEF TestExit
<1>5. Types'
  BY <1>1, <1>4 DEF Types, TestExit
<1>6. LoopOK(pl, pl[bspIndex], c) /\ pl[c].k = LoopK(config)
  BY <1>2, <1>3, ApFacts DEF RunOK, Valid
<1>7. LoopK(config) \in Int /\ Left(pl[bspIndex], c) \in Int
  BY <1>1, <1>3, Numbers, ApFacts DEF Left, Place
<1>8. ASSUME inside PROVE Keeps(pl, c, P("procedure", LoopK(config), 0, FALSE))
  <2>1. PICK q, pl2 : /\ q \in Place /\ q = P("procedure", LoopK(config), 0, FALSE)
                      /\ Moves(pl, c, q, pl2) /\ Placed(pl2)'
    BY <1>8, TestExitGoes DEF Goes
  <2>2. q.s = "procedure" /\ q.k = LoopK(config) /\ q.s \in LoopStages /\ pl2[c] = q
    BY <2>1 DEF P, LoopStages, Moves
  <2>3. Left(pl[bspIndex], c) >= LoopK(config)
    BY <1>1, <1>8, ExitCalled
  <2>4. LoopOK(pl2, pl[bspIndex], c)'
    BY <1>1, <1>4, <1>6, <1>7, <2>2, <2>3 DEF LoopOK
  <2>5. Meeting(pl2)'
    BY <1>2, <1>4, <1>5, <2>1, <2>2, <2>4, LoopApFrame
  <2>6. QED
    BY <2>1, <2>5 DEF Keeps
<1>9. ASSUME ~inside PROVE Keeps(pl, c, P("signal", LoopK(config) - 1, 0, FALSE))
  <2>1. PICK q, pl2 : /\ q \in Place /\ q = P("signal", LoopK(config) - 1, 0, FALSE)
                      /\ Moves(pl, c, q, pl2) /\ Placed(pl2)'
    BY <1>9, TestExitGoes DEF Goes
  <2>2. /\ q.s = "signal" /\ q.k = LoopK(config) - 1 /\ q.k \in Odd /\ q.k # 1
        /\ q.s \notin LoopStages /\ pl2[c] = q
    BY <1>1, <2>1, Numbers DEF P, LoopStages, Moves, Odd
  <2>3. IsAp(q) /\ ~IsPre(q) /\ ~IsOut(q) /\ ~IsAtBsp(q)
    BY <2>1, <2>2, Kinds
  <2>4. Left(pl[bspIndex], c) = LoopK(config) - 1 /\ \A x \in CPUs : pl[x].s \notin OneStages
    BY <1>1, <1>9, ExitCalled
  <2>5. ~cpu[c].busy /\ cpu[c].run = 0
    BY <1>1, <1>6, <1>7, <2>4 DEF LoopOK
  <2>6. CpusInv(pl2)' /\ LateInv(pl2)'
    BY <1>1, <1>4, <2>1, <2>3, CpusFrame, ApLateFrame
  <2>7. pl[c].s \notin {"find_bsp", "ap_present", "signal"}
    BY <1>1
  <2>8. PairOK(pl2, pl[bspIndex], c)'
    BY <1>3, <1>4, <2>2, <2>4, <2>7, ApFacts DEF PairOK
  <2>9. RunOK(pl2, c)'
    BY <1>4, <2>2, <2>3, <2>5 DEF RunOK
  <2>10. cpu'[c].present <=> PresentAt(q)
    <3>1. PresentAt(pl[c])
      BY <1>1, <1>3 DEF PresentAt
    <3>2. QED
      BY <1>3, <1>4, <2>2, <2>3, <3>1, ApFacts DEF PresentAt
  <2>11. Left(pl[bspIndex], c) # pl[c].k + 1 /\ Left(pl[bspIndex], c) # q.k + 1
    BY <1>6, <1>7, <2>2, <2>4
  <2>12. Meeting(pl2)'
    BY <1>3, <1>4, <1>5, <2>1, <2>2, <2>3, <2>4, <2>6, <2>8, <2>9, <2>10, <2>11, ApFacts, WaiterFrame
  <2>13. QED
    BY <2>1, <2>12 DEF Keeps
<1>10. QED
  BY <1>8, <1>9

\* The AP runs its procedure.
LEMMA RunProcedureKeeps ==
  ASSUME NEW pl, Meeting(pl), NEW c \in CPUs, RunProcedure(c)
  PROVE  /\ cpu[c].token # NoCall => Keeps(pl, c, P("token", LoopK(config), 0, FALSE))
         /\ cpu[c].token = NoCall => Keeps(pl, c, P("free", LoopK(config), 0, FALSE))
<1>1. pl[c].s = "procedure" /\ Types /\ InSmm(c)
  BY StageOf, MeetingParts DEF RunProcedure, ApOps
<1>2. PICK q, pl2 : /\ q \in Place
      /\ ((q = P("token", LoopK(config), 0, FALSE) /\ cpu[c].token # NoCall)
                        \/ (q = P("free", LoopK(config), 0, FALSE) /\ cpu[c].token = NoCall))
                    /\ Moves(pl, c, q, pl2) /\ Placed(pl2)'
  BY <1>1, RunProcedureGoes DEF Goes, RunProcedure
<1>3. q.s \in {"token", "free"} /\ q.k = LoopK(config) /\ pl2[c] = q
      /\ q.s \in LoopStages /\ pl[c].s \in LoopStages
  BY <1>1, <1>2 DEF Succ, ApSucc, OutStages, PreStages, ApStages, LoopStages, P, Moves
<1>4. IsAp(pl[c])
  BY <1>3, MeetingParts, Kinds
<1>5. /\ counter' = counter /\ local' = local /\ inside' = inside /\ bspIndex' = bspIndex
      /\ config' = config /\ platform' = platform
  BY DEF RunProcedure
<1>6. LoopOK(pl, pl[bspIndex], c)
  BY <1>3, <1>4, ApFacts DEF RunOK
<1>7. cpu' = cpu
  BY DEF RunProcedure
<1>8. Types'
  <2>1. calls' = [calls EXCEPT !.owed = @ \ {<<Callee(c), c>>}]
    BY DEF RunProcedure
  <2>2. calls' \in CallData
    BY <1>1, <2>1 DEF Types, CallData
  <2>3. QED
    BY <1>1, <1>5, <1>7, <2>2 DEF Types, RunProcedure
<1>9. LoopOK(pl2, pl[bspIndex], c)'
  BY <1>1, <1>3, <1>5, <1>6, <1>7 DEF LoopOK
<1>10. Meeting(pl2)'
  BY <1>2, <1>3, <1>5, <1>7, <1>8, <1>9, LoopApFrame DEF Others
<1>11. QED
  BY <1>2, <1>3, <1>10 DEF Keeps, KeepsIn

\* One processor less for the token of a call.
LEMMA CountDown ==
  ASSUME calls \in CallData, NEW k, calls' = [calls EXCEPT !.running[k] = @ - 1]
  PROVE  /\ calls' \in CallData /\ calls'.made = calls.made /\ calls'.proc = calls.proc
         /\ calls'.token = calls.token /\ calls'.wrapper = calls.wrapper /\ calls'.owed = calls.owed
         /\ \A j \in 1 .. MaxCalls :
              calls'.running[j] = IF j = k THEN calls.running[j] - 1 ELSE calls.running[j]
<1> DEFINE old == calls.running
<1>1. old \in [1 .. MaxCalls -> Int]
  BY DEF CallData
<1>2. /\ calls'.made = calls.made /\ calls'.proc = calls.proc /\ calls'.token = calls.token
      /\ calls'.wrapper = calls.wrapper /\ calls'.owed = calls.owed
      /\ calls'.running = [old EXCEPT ![k] = @ - 1]
      /\ calls' = [made |-> calls'.made, proc |-> calls'.proc, token |-> calls'.token,
                   wrapper |-> calls'.wrapper, running |-> calls'.running, owed |-> calls'.owed]
  BY DEF CallData
<1> HIDE DEF old
<1>3. PICK r : r = [old EXCEPT ![k] = @ - 1]
  OBVIOUS
<1>4. r = [j \in 1 .. MaxCalls |-> IF j = k THEN old[j] - 1 ELSE old[j]]
  BY <1>1, <1>3
<1>5. \A j \in 1 .. MaxCalls : old[j] \in Int
  BY <1>1
<1>6. r \in [1 .. MaxCalls -> Int]
  BY <1>4, <1>5
<1>7. calls' \in CallData
  <2>1. /\ calls.made \in 0 .. MaxCalls /\ calls.proc \in {WRAPPER} \cup 0 .. MaxCalls
        /\ calls.token \in 0 .. MaxCalls /\ calls.wrapper \in [CPUs -> 0 .. MaxCalls]
        /\ calls.owed \in SUBSET ((0 .. MaxCalls) \X CPUs)
    BY DEF CallData
  <2>2. QED
    BY <1>2, <1>3, <1>6, <2>1 DEF CallData
<1>8. \A j \in 1 .. MaxCalls : calls'.running[j] = IF j = k THEN old[j] - 1 ELSE old[j]
  BY <1>2, <1>3, <1>4
<1>9. QED
  BY <1>2, <1>7, <1>8 DEF old

\* The AP releases the token of its call.
LEMMA ReleaseTokenKeeps ==
  ASSUME NEW pl, Meeting(pl), NEW c \in CPUs, ReleaseToken(c)
  PROVE  Keeps(pl, c, Succ(config, pl[c]))
<1>1. pl[c].s = "token" /\ Types /\ InSmm(c)
  BY StageOf, MeetingParts DEF ReleaseToken, ApOps
<1>2. PICK q, pl2 : /\ q \in Place /\ q = Succ(config, pl[c])
                    /\ Moves(pl, c, q, pl2) /\ Placed(pl2)'
  BY <1>1, MeetingParts, DonePlace DEF Goes, ReleaseToken
<1>3. q.s = "free" /\ q.k = LoopK(config) /\ pl2[c] = q
      /\ q.s \in LoopStages /\ pl[c].s \in LoopStages
  BY <1>1, <1>2 DEF Succ, ApSucc, OutStages, PreStages, ApStages, LoopStages, P, Moves
<1>4. IsAp(pl[c])
  BY <1>3, MeetingParts, Kinds
<1>5. /\ counter' = counter /\ local' = local /\ inside' = inside /\ bspIndex' = bspIndex
      /\ config' = config /\ platform' = platform
  BY DEF ReleaseToken
<1>6. LoopOK(pl, pl[bspIndex], c)
  BY <1>3, <1>4, ApFacts DEF RunOK
<1>7. Others(c) /\ cpu'[c].run = cpu[c].run /\ cpu'[c].present = cpu[c].present
      /\ cpu'[c].busy = cpu[c].busy
  <2>1. SetData(c, "token", NoCall) /\ NoCall \in 0 .. MaxCalls
    BY SmmAssumption DEF ReleaseToken, NoCall
  <2>2. QED
    BY <1>1, <2>1, SetToken
<1>8. Types'
  <2>1. calls' = [calls EXCEPT !.running[cpu[c].token] = @ - 1]
    BY DEF ReleaseToken
  <2>2. calls' \in CallData
    BY <1>1, <2>1, CountDown DEF Types
  <2>3. QED
    BY <1>1, <1>5, <1>7, <2>2 DEF Types, ReleaseToken, Others
<1>9. LoopOK(pl2, pl[bspIndex], c)'
  BY <1>1, <1>3, <1>5, <1>6, <1>7 DEF LoopOK
<1>10. Meeting(pl2)'
  BY <1>2, <1>3, <1>5, <1>7, <1>8, <1>9, LoopApFrame DEF Others
<1>11. QED
  BY <1>2, <1>3, <1>10 DEF Keeps, KeepsIn

\* The AP releases its Busy.
LEMMA FreeBusyKeeps ==
  ASSUME NEW pl, Meeting(pl), NEW c \in CPUs, FreeBusy(c)
  PROVE  Keeps(pl, c, P("idle", LoopK(config), 0, FALSE))
<1>1. pl[c].s = "free" /\ Types /\ InSmm(c)
  BY StageOf, MeetingParts DEF FreeBusy, ApOps
<1>2. PICK q, pl2 : /\ q \in Place /\ q = P("idle", LoopK(config), 0, FALSE)
                    /\ Moves(pl, c, q, pl2) /\ Placed(pl2)'
  BY <1>1, FreeBusyGoes DEF Goes, FreeBusy
<1>3. q.s = "idle" /\ q.k = LoopK(config) /\ pl2[c] = q
      /\ q.s \in LoopStages /\ pl[c].s \in LoopStages
  BY <1>1, <1>2 DEF Succ, ApSucc, OutStages, PreStages, ApStages, LoopStages, P, Moves
<1>4. IsAp(pl[c])
  BY <1>3, MeetingParts, Kinds
<1>5. /\ counter' = counter /\ local' = local /\ inside' = inside /\ bspIndex' = bspIndex
      /\ config' = config /\ platform' = platform
  BY DEF FreeBusy
<1>6. LoopOK(pl, pl[bspIndex], c)
  BY <1>3, <1>4, ApFacts DEF RunOK
<1>7. Others(c) /\ cpu'[c].run = cpu[c].run /\ cpu'[c].present = cpu[c].present /\ ~cpu'[c].busy
  <2>1. SetData(c, "busy", FALSE)
    BY DEF FreeBusy
  <2>2. QED
    BY <1>1, <2>1, SetBusy
<1>8. Types'
  BY <1>1, <1>5, <1>7 DEF Types, FreeBusy, Others
<1>9. LoopOK(pl2, pl[bspIndex], c)'
  BY <1>1, <1>3, <1>5, <1>6, <1>7 DEF LoopOK
<1>10. Meeting(pl2)'
  BY <1>2, <1>3, <1>5, <1>7, <1>8, <1>9, LoopApFrame DEF Others
<1>11. QED
  BY <1>2, <1>3, <1>10 DEF Keeps, KeepsIn

(***************************************************************************)
(* The BSP.                                                                *)
(***************************************************************************)
\* What the BSP knows of itself.
LEMMA BspFacts ==
  ASSUME NEW pl, Meeting(pl), NEW c \in CPUs, IsAtBsp(pl[c]), pl[c].s # "reset_counter"
  PROVE  /\ bspIndex = c /\ c # NoBsp /\ \A x \in CPUs : IsAtBsp(pl[x]) => x = c
         /\ pl[c] \in Place /\ Valid(config, pl[c]) /\ config \in Configs /\ Types
         /\ inside <=> InsideAt(config, pl[c])
         /\ cpu[c].present <=> PresentAt(pl[c])
         /\ ~Arriving(config, pl[c]) => AllArrived(pl)
<1>1. /\ bspIndex = c /\ c # NoBsp /\ \A x \in CPUs : IsAtBsp(pl[x]) => x = c
      /\ pl[c] \in Place /\ Valid(config, pl[c]) /\ config \in Configs /\ Types
  <2>1. bspIndex = c /\ \A x \in CPUs : IsAtBsp(pl[x]) => x = c
    BY MeetingParts DEF IndexInv
  <2>2. c # NoBsp
    BY DEF NoBsp, CPUs
  <2>3. QED
    BY <2>1, <2>2, MeetingParts DEF Placed
<1>2. /\ inside <=> InsideAt(config, pl[c])
      /\ cpu[c].present <=> PresentAt(pl[c])
  BY <1>1, MeetingParts DEF InsideInv, PresentInv
<1>3. ASSUME ~Arriving(config, pl[c]), NEW x \in CPUs
      PROVE  ~IsPre(pl[x]) /\ pl[x].s \notin {"find_bsp", "ap_present"}
  <2>1. ~IsPre(pl[x])
    BY <1>3, MeetingParts DEF ArriveInv
  <2>2. pl[x].s \in {"find_bsp", "ap_present"} => IsAp(pl[x])
    BY MeetingParts, Kinds
  <2>3. QED
    BY <1>1, <1>3, <2>1, <2>2, MeetingParts DEF PairInv, PairOK
<1>4. QED
  BY <1>1, <1>2, <1>3 DEF AllArrived

\* In the SMI handlers, and until it calls for the exit, the BSP sees just the APs in the loop.
LEMMA PresentInLoop ==
  ASSUME NEW pl, Meeting(pl), NEW c \in CPUs, IsAtBsp(pl[c]), pl[c].k = LoopK(config),
         pl[c].s # "release", NEW x \in CPUs, x # c
  PROVE  cpu[x].present <=> pl[x].s \in LoopStages
<1>1. config \in Configs /\ pl[x] \in Place /\ Valid(config, pl[x]) /\ pl[c] \in Place
      /\ (cpu[x].present <=> PresentAt(pl[x]))
  BY MeetingParts DEF Placed, PresentInv
<1>2. pl[c].s # "reset_counter"
  <2>1. Valid(config, pl[c])
    BY MeetingParts DEF Placed
  <2>2. QED
    BY <1>1, <2>1, Numbers DEF Valid
<1>3. bspIndex = c /\ ~IsAtBsp(pl[x])
  BY <1>2, BspFacts
<1>4. pl[x].s \in LoopStages => PresentAt(pl[x])
  BY <1>1, Kinds DEF PresentAt, LoopStages
<1>5. ASSUME PresentAt(pl[x]) PROVE pl[x].s \in LoopStages
  <2>1. IsAp(pl[x]) /\ pl[x].s \notin {"find_bsp", "ap_present"}
    BY <1>3, <1>5 DEF PresentAt
  <2>2. PairOK(pl, pl[c], x) /\ Left(pl[c], x) = LoopK(config)
    BY <1>3, <2>1, MeetingParts DEF PairInv, Left
  <2>3. pl[x].k = LoopK(config)
    BY <1>1, <2>1, <2>2, Numbers DEF PairOK, Odd, Place
  <2>4. pl[x].s \notin {"wait", "signal", "ap_absent"}
    BY <1>1, <2>3, Numbers DEF Valid, Odd
  <2>5. QED
    BY <2>1, <2>4 DEF IsAp, ApStages
<1>6. QED
  BY <1>1, <1>4, <1>5

\* A step of the BSP leaves AP x where it is.
SameFor(pl, p, q, x) ==
  /\ cpu'[x].run = cpu[x].run /\ cpu'[x].busy = cpu[x].busy
  /\ pl[x].s \in LoopStages =>
       (Loading(q, x) <=> Loading(p, x)) /\ (Quiet(config, q, x) => Quiet(config, p, x))

\* The BSP moves within a round: what is left to show, by processor.
LEMMA BspStepFrame ==
  ASSUME NEW pl, Meeting(pl), NEW c \in CPUs, NEW q, NEW pl2, Moves(pl, c, q, pl2), Placed(pl2)',
         IsAtBsp(pl[c]), pl[c].s # "reset_counter", IsAtBsp(q), q.s # "reset_counter",
         SameRound(config, pl[c], q), AllArrived(pl) \/ Arriving(config, q),
         Types', CpusInv(pl2)', inside' <=> InsideAt(config, q),
         \A x \in CPUs : x # c => SameFor(pl, pl[c], q, x) \/ RunOK(pl2, x)',
         cpu'[c].present <=> PresentAt(q),
         \A x \in CPUs : x # c => cpu'[x].present = cpu[x].present,
         q.s \in OneStages => q.i \in CPUs \ {c} /\ pl[q.i].s \in LoopStages,
         counter' = counter, bspIndex' = bspIndex, config' = config,
         cpu'[c].run = cpu[c].run, local' = local
  PROVE  Meeting(pl2)'
<1>1. /\ pl \in [CPUs -> Place] /\ pl2 \in [CPUs -> Place] /\ pl2[c] = q /\ q \in Place
      /\ \A x \in CPUs : x # c => pl2[x] = pl[x]
  BY MeetingParts DEF Moves
<1>2. bspIndex = c /\ c # NoBsp /\ \A x \in CPUs : IsAtBsp(pl[x]) => x = c
  BY BspFacts
<1>3. ~IsPre(q) /\ ~IsAp(q) /\ ~IsOut(q) /\ q.s \notin LoopStages
  BY <1>1, Kinds
<1>4. RunInv(pl2)'
  <2> SUFFICES ASSUME NEW x \in CPUs
               PROVE  RunOK(pl2, x)'
    BY DEF RunInv
  <2>1. CASE x = c
    BY <1>1, <1>3, <2>1 DEF RunOK
  <2>2. CASE x # c /\ SameFor(pl, pl[c], q, x)
    <3>1. pl2[x] = pl[x] /\ RunOK(pl, x) /\ pl2[bspIndex'] = q /\ Left(q, x) = Left(pl[c], x)
      BY <1>1, <1>2, <2>2, MeetingParts DEF RunInv, SameRound
    <3>2. cpu'[x].run = cpu[x].run /\ cpu'[x].busy = cpu[x].busy
      BY <2>2 DEF SameFor
    <3>3. pl[x].s \in LoopStages => LoopOK(pl2, q, x)'
      <4>1. pl[x].s \in LoopStages => LoopOK(pl, pl[c], x)
        BY <1>2, <3>1 DEF RunOK
      <4>2. QED
        BY <2>2, <3>1, <3>2, <4>1 DEF LoopOK, SameFor
    <3>4. QED
      BY <1>2, <3>1, <3>2, <3>3 DEF RunOK
  <2>3. QED
    BY <2>1, <2>2
<1>5. InsideInv(pl2)'
  BY <1>1, <1>2 DEF InsideInv
<1>6. PresentInv(pl2)'
  BY <1>1, MeetingParts DEF PresentInv
<1>7. OneInv(pl2)'
  <2>1. \A x \in CPUs : pl2[x].s \in OneStages => x = c
    BY <1>1, <1>2, Kinds
  <2>2. QED
    BY <1>1, <2>1 DEF OneInv
<1>8. QED
  BY <1>4, <1>5, <1>6, <1>7, BspFrame

\* The BSP goes on in the same round, as visible as it was.
Steady(g, p, q) ==
  /\ IsAtBsp(p) /\ p.s # "reset_counter" /\ IsAtBsp(q) /\ q.s # "reset_counter"
  /\ SameRound(g, p, q) /\ (Arriving(g, p) => Arriving(g, q))
  /\ (InsideAt(g, q) <=> InsideAt(g, p)) /\ (PresentAt(q) <=> PresentAt(p))

\* The same for a steady step.
LEMMA SteadyFrame ==
  ASSUME NEW pl, Meeting(pl), NEW c \in CPUs, NEW q, NEW pl2, Moves(pl, c, q, pl2), Placed(pl2)',
         Steady(config, pl[c], q), Types', CpusInv(pl2)',
         \A x \in CPUs : x # c => SameFor(pl, pl[c], q, x) \/ RunOK(pl2, x)',
         \A x \in CPUs : cpu'[x].present = cpu[x].present,
         q.s \in OneStages => q.i \in CPUs \ {c} /\ pl[q.i].s \in LoopStages,
         counter' = counter, bspIndex' = bspIndex, config' = config, inside' = inside,
         cpu'[c].run = cpu[c].run, local' = local
  PROVE  Meeting(pl2)'
<1>1. /\ IsAtBsp(pl[c]) /\ pl[c].s # "reset_counter" /\ IsAtBsp(q) /\ q.s # "reset_counter"
      /\ SameRound(config, pl[c], q) /\ (Arriving(config, pl[c]) => Arriving(config, q))
      /\ (InsideAt(config, q) <=> InsideAt(config, pl[c])) /\ (PresentAt(q) <=> PresentAt(pl[c]))
  BY DEF Steady
<1>2. /\ inside' <=> InsideAt(config, q)
      /\ cpu'[c].present <=> PresentAt(q)
      /\ AllArrived(pl) \/ Arriving(config, q)
  BY <1>1, BspFacts
<1>3. QED
  BY <1>1, <1>2, BspStepFrame

\* What makes a step steady, for a place of a known stage.
LEMMA SteadyIs ==
  ASSUME NEW g \in Configs, NEW p \in Place, NEW q \in Place, p.k = q.k, p.k # 0,
         p.s \in BspStages \ {"inside", "present", "gather", "release", "absent", "outside",
                              "all_present", "lockdown", "reset_bsp", "reset_counter"},
         q.s \in BspStages \ {"inside", "present", "gather", "release", "absent",
                              "all_present", "reset_bsp", "reset_counter"},
         q.s = "outside" => p.k < TopK(g)
  PROVE  Steady(g, p, q)
<1>1. IsAtBsp(p) /\ IsAtBsp(q) /\ ~IsAp(p) /\ ~IsAp(q)
  BY Kinds DEF IsAtBsp
<1>2. SameRound(g, p, q)
  BY DEF SameRound, Left, Locked, Final
<1>3. Arriving(g, p) => Arriving(g, q)
  BY Numbers DEF Arriving
<1>4. InsideAt(g, q) <=> InsideAt(g, p)
  BY DEF InsideAt
<1>5. PresentAt(q) <=> PresentAt(p)
  BY <1>1 DEF PresentAt
<1>6. QED
  BY <1>1, <1>2, <1>3, <1>4, <1>5 DEF Steady

\* The BSP waits for the APs until all have arrived or its time is over.
LEMMA AwaitApsKeeps ==
  ASSUME NEW pl, Meeting(pl), NEW c \in CPUs, AwaitAps(c)
  PROVE  Keeps(pl, c, Succ(config, pl[c]))
<1>1. pl[c].s = "arrive" /\ InSmm(c) /\ Types /\ config \in Configs /\ pl[c] \in Place
      /\ Valid(config, pl[c])
  BY StageOf, MeetingParts DEF AwaitAps
<1>2. PICK q, pl2 : q \in Place /\ q = Succ(config, pl[c]) /\ Moves(pl, c, q, pl2) /\ Placed(pl2)'
  BY <1>1, MeetingParts, DonePlace DEF Goes, AwaitAps
<1>3. q.s = "send_ipi" /\ q.k = TopK(config)
  BY <1>1, <1>2 DEF Succ, BspSucc, Valid, OutStages, PreStages, ApStages, LoopStages, OneStages,
                    AllStages, ServiceStages, P
<1>4. pl[c].k = q.k /\ pl[c].k = TopK(config)
  BY <1>1, <1>3 DEF Valid, PreStages
<1>5. Steady(config, pl[c], q)
  <2>1. pl[c].k # 0
    BY <1>1, <1>4, Numbers
  <2>2. QED
    BY <1>1, <1>2, <1>3, <1>4, <2>1, SteadyIs, Numbers DEF BspStages
<1>6. \A x \in CPUs : (Loading(q, x) <=> Loading(pl[c], x))
      /\ (Quiet(config, q, x) => Quiet(config, pl[c], x))
  BY <1>1, <1>3, <1>4, Numbers DEF Loading, Quiet, CPUs
<1>7. /\ counter' = counter /\ bspIndex' = bspIndex /\ config' = config /\ inside' = inside
      /\ local' = local /\ cpu' = cpu /\ platform' = platform
  BY DEF AwaitAps
<1>8. Types'
  BY <1>1, <1>7 DEF Types, AwaitAps
<1>9. CpusInv(pl2)'
  BY <1>1, <1>2, <1>7, CpusFrame
<1>10. Meeting(pl2)'
  <2>1. q.s \notin OneStages
    BY <1>3 DEF OneStages
  <2>2. QED
    BY <1>2, <1>5, <1>6, <1>7, <1>8, <1>9, <2>1, SteadyFrame DEF SameFor, Others
<1>11. QED
  BY <1>2, <1>10 DEF Keeps

\* The BSP sends an SMI to the processors that have not arrived, and waits again.
LEMMA SendSmiIpisKeeps ==
  ASSUME NEW pl, Meeting(pl), NEW c \in CPUs, SendSmiIpis(c)
  PROVE  Keeps(pl, c, Succ(config, pl[c]))
<1>1. pl[c].s = "send_ipi" /\ InSmm(c) /\ Types /\ config \in Configs /\ pl[c] \in Place
      /\ Valid(config, pl[c])
  BY StageOf, MeetingParts DEF SendSmiIpis
<1>2. PICK q, pl2 : q \in Place /\ q = Succ(config, pl[c]) /\ Moves(pl, c, q, pl2) /\ Placed(pl2)'
  BY <1>1, MeetingParts, DonePlace DEF Goes, SendSmiIpis
<1>3. q.s = "sync" /\ q.k = TopK(config)
  BY <1>1, <1>2 DEF Succ, BspSucc, Valid, OutStages, PreStages, ApStages, LoopStages, OneStages,
                    AllStages, ServiceStages, P
<1>4. pl[c].k = q.k /\ pl[c].k = TopK(config)
  BY <1>1, <1>3 DEF Valid, PreStages
<1>5. Steady(config, pl[c], q)
  <2>1. pl[c].k # 0
    BY <1>1, <1>4, Numbers
  <2>2. QED
    BY <1>1, <1>2, <1>3, <1>4, <2>1, SteadyIs, Numbers DEF BspStages
<1>6. \A x \in CPUs : (Loading(q, x) <=> Loading(pl[c], x))
      /\ (Quiet(config, q, x) => Quiet(config, pl[c], x))
  BY <1>1, <1>3, <1>4, Numbers DEF Loading, Quiet, CPUs, Valid
<1>7. /\ counter' = counter /\ bspIndex' = bspIndex /\ config' = config /\ inside' = inside
      /\ local' = local /\ cpu' = cpu
  BY DEF SendSmiIpis
<1>8. Types' /\ \A x \in CPUs : platform'.pending[x] => platform.pending[x] \/ x <= config.cpus
  <2>1. platform' = IF counter = config.cpus THEN platform
                   ELSE [platform EXCEPT !.pending =
                          [i \in CPUs |-> @[i] \/ (i <= config.cpus /\ ~cpu[i].present)]]
    BY DEF SendSmiIpis
  <2>2. /\ platform' \in PlatformData
        /\ \A x \in CPUs : platform'.pending[x] => platform.pending[x] \/ x <= config.cpus
    <3>1. platform \in PlatformData
      BY <1>1 DEF Types
    <3>2. CASE counter = config.cpus
      BY <2>1, <3>1, <3>2
    <3>3. CASE counter # config.cpus
      <4>1. PICK f : f = [i \in CPUs |-> platform.pending[i] \/ (i <= config.cpus /\ ~cpu[i].present)]
        OBVIOUS
      <4>2. f \in [CPUs -> BOOLEAN] /\ \A x \in CPUs : f[x] => platform.pending[x] \/ x <= config.cpus
        BY <4>1
      <4>3. platform' = [status |-> platform.status, pending |-> f, smis |-> platform.smis]
        BY <2>1, <3>1, <3>3, <4>1 DEF PlatformData
      <4>4. QED
        BY <3>1, <4>2, <4>3 DEF PlatformData
    <3>4. QED
      BY <3>2, <3>3
  <2>3. QED
    BY <1>1, <1>7, <2>2 DEF Types, SendSmiIpis
<1>9. CpusInv(pl2)'
  BY <1>1, <1>2, <1>7, <1>8, CpusFrame
<1>10. Meeting(pl2)'
  <2>1. q.s \notin OneStages
    BY <1>3 DEF OneStages
  <2>2. QED
    BY <1>2, <1>5, <1>6, <1>7, <1>8, <1>9, <2>1, SteadyFrame DEF SameFor, Others
<1>11. QED
  BY <1>2, <1>10 DEF Keeps

\* The BSP sets AllCpusInSync.
LEMMA SetAllCpusInSyncKeeps ==
  ASSUME NEW pl, Meeting(pl), NEW c \in CPUs, SetAllCpusInSync(c)
  PROVE  Keeps(pl, c, Succ(config, pl[c]))
<1>1. pl[c].s = "sync" /\ InSmm(c) /\ Types /\ config \in Configs /\ pl[c] \in Place
      /\ Valid(config, pl[c])
  BY StageOf, MeetingParts DEF SetAllCpusInSync
<1>2. PICK q, pl2 : q \in Place /\ q = Succ(config, pl[c]) /\ Moves(pl, c, q, pl2) /\ Placed(pl2)'
  BY <1>1, MeetingParts, DonePlace DEF Goes, SetAllCpusInSync
<1>3. q.s = "lockdown" /\ q.k = TopK(config)
  BY <1>1, <1>2 DEF Succ, BspSucc, Valid, OutStages, PreStages, ApStages, LoopStages, OneStages,
                    AllStages, ServiceStages, P
<1>4. pl[c].k = q.k /\ pl[c].k = TopK(config)
  BY <1>1, <1>3 DEF Valid, PreStages
<1>5. Steady(config, pl[c], q)
  <2>1. pl[c].k # 0
    BY <1>1, <1>4, Numbers
  <2>2. QED
    BY <1>1, <1>2, <1>3, <1>4, <2>1, SteadyIs, Numbers DEF BspStages
<1>6. \A x \in CPUs : (Loading(q, x) <=> Loading(pl[c], x))
      /\ (Quiet(config, q, x) => Quiet(config, pl[c], x))
  BY <1>1, <1>3, <1>4, Numbers DEF Loading, Quiet, CPUs
<1>7. /\ counter' = counter /\ bspIndex' = bspIndex /\ config' = config /\ inside' = inside
      /\ local' = local /\ cpu' = cpu /\ platform' = platform
  BY DEF SetAllCpusInSync
<1>8. Types'
  BY <1>1, <1>7 DEF Types, SetAllCpusInSync
<1>9. CpusInv(pl2)'
  BY <1>1, <1>2, <1>7, CpusFrame
<1>10. Meeting(pl2)'
  <2>1. q.s \notin OneStages
    BY <1>3 DEF OneStages
  <2>2. QED
    BY <1>2, <1>5, <1>6, <1>7, <1>8, <1>9, <2>1, SteadyFrame DEF SameFor, Others
<1>11. QED
  BY <1>2, <1>10 DEF Keeps

\* The SMI handlers return.
LEMMA EndHandlersKeeps ==
  ASSUME NEW pl, Meeting(pl), NEW c \in CPUs, EndHandlers(c)
  PROVE  Keeps(pl, c, Succ(config, pl[c]))
<1>1. pl[c].s = "handlers" /\ InSmm(c) /\ Types /\ config \in Configs /\ pl[c] \in Place
      /\ Valid(config, pl[c])
  BY StageOf, MeetingParts DEF EndHandlers
<1>2. PICK q, pl2 : q \in Place /\ q = Succ(config, pl[c]) /\ Moves(pl, c, q, pl2) /\ Placed(pl2)'
  BY <1>1, MeetingParts, DonePlace DEF Goes, EndHandlers
<1>3. q.s = "not_busy" /\ q.k = LoopK(config) /\ q.i = 1
  BY <1>1, <1>2 DEF Succ, BspSucc, Valid, OutStages, PreStages, ApStages, LoopStages, OneStages,
                    AllStages, ServiceStages, P
<1>4. pl[c].k = q.k /\ pl[c].k = LoopK(config)
  BY <1>1, <1>3 DEF Valid, PreStages
<1>5. Steady(config, pl[c], q)
  <2>1. pl[c].k # 0
    BY <1>1, <1>4, Numbers
  <2>2. QED
    BY <1>1, <1>2, <1>3, <1>4, <2>1, SteadyIs, Numbers DEF BspStages
<1>6. \A x \in CPUs : (Loading(q, x) <=> Loading(pl[c], x))
      /\ (Quiet(config, q, x) => Quiet(config, pl[c], x))
  BY <1>1, <1>3, <1>4, Numbers DEF Loading, Quiet, CPUs
<1>7. /\ counter' = counter /\ bspIndex' = bspIndex /\ config' = config /\ inside' = inside
      /\ local' = local /\ cpu' = cpu /\ platform' = platform
  BY DEF EndHandlers
<1>8. Types'
  BY <1>1, <1>7 DEF Types, EndHandlers
<1>9. CpusInv(pl2)'
  BY <1>1, <1>2, <1>7, CpusFrame
<1>10. Meeting(pl2)'
  <2>1. q.s \notin OneStages
    BY <1>3 DEF OneStages
  <2>2. QED
    BY <1>2, <1>5, <1>6, <1>7, <1>8, <1>9, <2>1, SteadyFrame DEF SameFor, Others
<1>11. QED
  BY <1>2, <1>10 DEF Keeps

\* The BSP takes its own Busy.
LEMMA AcquireOwnBusyKeeps ==
  ASSUME NEW pl, Meeting(pl), NEW c \in CPUs, AcquireOwnBusy(c)
  PROVE  Keeps(pl, c, Succ(config, pl[c]))
<1>1. pl[c].s = "busy" /\ InSmm(c) /\ Types /\ config \in Configs /\ pl[c] \in Place
      /\ Valid(config, pl[c])
  BY StageOf, MeetingParts DEF AcquireOwnBusy
<1>2. PICK q, pl2 : q \in Place /\ q = Succ(config, pl[c]) /\ Moves(pl, c, q, pl2) /\ Placed(pl2)'
  BY <1>1, MeetingParts, DonePlace DEF Goes, AcquireOwnBusy
<1>3. q.s = "handlers" /\ q.k = LoopK(config)
  BY <1>1, <1>2 DEF Succ, BspSucc, Valid, OutStages, PreStages, ApStages, LoopStages, OneStages,
                    AllStages, ServiceStages, P
<1>4. pl[c].k = q.k /\ pl[c].k = LoopK(config)
  BY <1>1, <1>3 DEF Valid, PreStages
<1>5. Steady(config, pl[c], q)
  <2>1. pl[c].k # 0
    BY <1>1, <1>4, Numbers
  <2>2. QED
    BY <1>1, <1>2, <1>3, <1>4, <2>1, SteadyIs, Numbers DEF BspStages
<1>6. \A x \in CPUs : (Loading(q, x) <=> Loading(pl[c], x))
      /\ (Quiet(config, q, x) => Quiet(config, pl[c], x))
  BY <1>1, <1>3, <1>4, Numbers DEF Loading, Quiet, CPUs
<1>7. /\ counter' = counter /\ bspIndex' = bspIndex /\ config' = config /\ inside' = inside
      /\ local' = local /\ platform' = platform /\ SetData(c, "busy", TRUE)
  BY DEF AcquireOwnBusy
<1>8. Types' /\ Others(c) /\ cpu'[c].run = cpu[c].run /\ cpu'[c].present = cpu[c].present
  <2>1. Others(c) /\ cpu'[c].run = cpu[c].run /\ cpu'[c].present = cpu[c].present
    BY <1>1, <1>7, SetBusy
  <2>2. QED
    BY <1>1, <1>7, <2>1 DEF Types, AcquireOwnBusy, Others
<1>9. CpusInv(pl2)'
  BY <1>1, <1>2, <1>7, CpusFrame
<1>10. Meeting(pl2)'
  <2>1. q.s \notin OneStages
    BY <1>3 DEF OneStages
  <2>2. QED
    BY <1>2, <1>5, <1>6, <1>7, <1>8, <1>9, <2>1, SteadyFrame DEF SameFor, Others
<1>11. QED
  BY <1>2, <1>10 DEF Keeps

\* The BSP sets InsideSmm.
LEMMA FlagBspKeeps ==
  ASSUME NEW pl, Meeting(pl), NEW c \in CPUs, FlagBsp(c)
  PROVE  Keeps(pl, c, Succ(config, pl[c]))
<1>1. pl[c].s = "inside" /\ InSmm(c) /\ Types /\ config \in Configs /\ pl[c] \in Place
      /\ Valid(config, pl[c])
  BY StageOf, MeetingParts DEF FlagBsp
<1>2. PICK q, pl2 : q \in Place /\ q = Succ(config, pl[c]) /\ Moves(pl, c, q, pl2) /\ Placed(pl2)'
  BY <1>1, MeetingParts, DonePlace DEF Goes, FlagBsp
<1>3. q.s = "present" /\ q.k = TopK(config)
  BY <1>1, <1>2 DEF Succ, BspSucc, RoundSucc, Valid, OutStages, PreStages, ApStages, LoopStages,
     OneStages,
                    AllStages, ServiceStages, P
<1>4. /\ IsAtBsp(pl[c]) /\ IsAtBsp(q) /\ ~IsAp(pl[c]) /\ ~IsAp(q) /\ q.s \notin OneStages
      /\ pl[c].s # "reset_counter" /\ q.s # "reset_counter"
  <2>1. IsAtBsp(pl[c]) /\ IsAtBsp(q) /\ q.s \notin OneStages
    BY <1>1, <1>3 DEF IsAtBsp, BspStages, OneStages
  <2>2. QED
    BY <1>1, <1>2, <1>3, <2>1, Kinds
<1>5. SameRound(config, pl[c], q) /\ (PresentAt(pl[c]) <=> FALSE) /\ (PresentAt(q) <=> FALSE)
  <2>1. SameRound(config, pl[c], q)
    BY <1>1, <1>3, Numbers DEF SameRound, Left, Locked, Final, Valid, PreStages, CPUs
  <2>2. (PresentAt(pl[c]) <=> FALSE) /\ (PresentAt(q) <=> FALSE)
    BY <1>1, <1>3, <1>4, Numbers DEF PresentAt, Valid
  <2>3. QED
    BY <2>1, <2>2
<1>6. \A x \in CPUs : (Loading(q, x) <=> Loading(pl[c], x))
      /\ (Quiet(config, q, x) => Quiet(config, pl[c], x))
  BY <1>1, <1>3, Numbers DEF Loading, Quiet, CPUs, Valid, PreStages
<1>7. /\ counter' = counter /\ bspIndex' = bspIndex /\ config' = config
      /\ local' = local /\ cpu' = cpu /\ platform' = platform /\ inside' = TRUE
  BY DEF FlagBsp
<1>8. Types'
  BY <1>1, <1>7 DEF Types, FlagBsp
<1>9. CpusInv(pl2)'
  BY <1>1, <1>2, <1>7, CpusFrame
<1>10. AllArrived(pl) \/ Arriving(config, q)
  BY <1>3, <1>1, Numbers DEF Arriving, Valid
<1>11. inside' <=> InsideAt(config, q)
  BY <1>1, <1>3, <1>7, Numbers DEF InsideAt
<1>12. Meeting(pl2)'
  BY <1>2, <1>4, <1>5, <1>6, <1>7, <1>8, <1>9, <1>10, <1>11, BspFacts, BspStepFrame DEF SameFor,
     Others
<1>13. QED
  BY <1>2, <1>12 DEF Keeps

\* The BSP marks itself present.
LEMMA MarkBspKeeps ==
  ASSUME NEW pl, Meeting(pl), NEW c \in CPUs, MarkBsp(c)
  PROVE  Keeps(pl, c, Succ(config, pl[c]))
<1>1. pl[c].s = "present" /\ InSmm(c) /\ Types /\ config \in Configs /\ pl[c] \in Place
      /\ Valid(config, pl[c])
  BY StageOf, MeetingParts DEF MarkBsp
<1>2. PICK q, pl2 : q \in Place /\ q = Succ(config, pl[c]) /\ Moves(pl, c, q, pl2) /\ Placed(pl2)'
  BY <1>1, MeetingParts, DonePlace DEF Goes, MarkBsp
<1>3. \/ q.s = "arrive" /\ q.k = TopK(config)
      \/ q.s = "busy" /\ q.k = LoopK(config) /\ ~Gathers(config)
  BY <1>1, <1>2 DEF Succ, BspSucc, RoundSucc, Valid, OutStages, PreStages, ApStages, LoopStages,
     OneStages,
                    AllStages, ServiceStages, P
<1>4. /\ IsAtBsp(pl[c]) /\ IsAtBsp(q) /\ ~IsAp(pl[c]) /\ ~IsAp(q) /\ q.s \notin OneStages
      /\ pl[c].s # "reset_counter" /\ q.s # "reset_counter"
  <2>1. IsAtBsp(pl[c]) /\ IsAtBsp(q) /\ q.s \notin OneStages
    BY <1>1, <1>3 DEF IsAtBsp, BspStages, OneStages
  <2>2. QED
    BY <1>1, <1>2, <1>3, <2>1, Kinds
<1>5. SameRound(config, pl[c], q) /\ (PresentAt(pl[c]) <=> FALSE) /\ (PresentAt(q) <=> TRUE)
  <2>1. SameRound(config, pl[c], q)
    BY <1>1, <1>3, Numbers DEF SameRound, Left, Locked, Final, Valid, PreStages, CPUs
  <2>2. (PresentAt(pl[c]) <=> FALSE) /\ (PresentAt(q) <=> TRUE)
    BY <1>1, <1>3, <1>4, Numbers DEF PresentAt, Valid
  <2>3. QED
    BY <2>1, <2>2
<1>6. \A x \in CPUs : (Loading(q, x) <=> Loading(pl[c], x))
      /\ (Quiet(config, q, x) => Quiet(config, pl[c], x))
  BY <1>1, <1>3, Numbers DEF Loading, Quiet, CPUs, Valid, PreStages
<1>7. /\ counter' = counter /\ bspIndex' = bspIndex /\ config' = config
      /\ local' = local /\ inside' = inside /\ SetData(c, "present", TRUE)
         /\ platform' = [platform EXCEPT !.status = FALSE]
  BY DEF MarkBsp
<1>8. /\ Types' /\ Others(c) /\ cpu'[c].run = cpu[c].run /\ cpu'[c].present
      /\ platform'.pending = platform.pending
  <2>1. Others(c) /\ cpu'[c].run = cpu[c].run /\ cpu'[c].present
    BY <1>1, <1>7, SetPresent
  <2>2. platform' \in PlatformData /\ platform'.pending = platform.pending
    BY <1>1, <1>7 DEF Types, PlatformData
  <2>3. QED
    BY <1>1, <1>7, <2>1, <2>2 DEF Types, MarkBsp, Others
<1>9. CpusInv(pl2)'
  BY <1>1, <1>2, <1>7, <1>8, CpusFrame
<1>10. AllArrived(pl) \/ Arriving(config, q)
  BY <1>3, <1>1, Numbers DEF Arriving, Valid
<1>11. inside' <=> InsideAt(config, q)
  BY <1>1, <1>3, <1>4, <1>7, Numbers, BspFacts DEF InsideAt, Valid
<1>12. Meeting(pl2)'
  BY <1>2, <1>4, <1>5, <1>6, <1>7, <1>8, <1>9, <1>10, <1>11, BspFacts, BspStepFrame DEF SameFor,
     Others
<1>13. QED
  BY <1>2, <1>12 DEF Keeps

\* The BSP clears InsideSmm.
LEMMA NotifyExitKeeps ==
  ASSUME NEW pl, Meeting(pl), NEW c \in CPUs, NotifyExit(c)
  PROVE  Keeps(pl, c, Succ(config, pl[c]))
<1>1. pl[c].s = "outside" /\ InSmm(c) /\ Types /\ config \in Configs /\ pl[c] \in Place
      /\ Valid(config, pl[c])
  BY StageOf, MeetingParts DEF NotifyExit
<1>2. PICK q, pl2 : q \in Place /\ q = Succ(config, pl[c]) /\ Moves(pl, c, q, pl2) /\ Placed(pl2)'
  BY <1>1, MeetingParts, DonePlace DEF Goes, NotifyExit
<1>3. q.s = "release" /\ q.k = LoopK(config) /\ q.i = 1
  BY <1>1, <1>2 DEF Succ, BspSucc, RoundSucc, Valid, OutStages, PreStages, ApStages, LoopStages,
     OneStages,
                    AllStages, ServiceStages, P
<1>4. /\ IsAtBsp(pl[c]) /\ IsAtBsp(q) /\ ~IsAp(pl[c]) /\ ~IsAp(q) /\ q.s \notin OneStages
      /\ pl[c].s # "reset_counter" /\ q.s # "reset_counter"
  <2>1. IsAtBsp(pl[c]) /\ IsAtBsp(q) /\ q.s \notin OneStages
    BY <1>1, <1>3 DEF IsAtBsp, BspStages, OneStages
  <2>2. QED
    BY <1>1, <1>2, <1>3, <2>1, Kinds
<1>5. SameRound(config, pl[c], q) /\ (PresentAt(pl[c]) <=> TRUE) /\ (PresentAt(q) <=> TRUE)
  <2>1. SameRound(config, pl[c], q)
    BY <1>1, <1>3, Numbers DEF SameRound, Left, Locked, Final, Valid, PreStages, CPUs
  <2>2. (PresentAt(pl[c]) <=> TRUE) /\ (PresentAt(q) <=> TRUE)
    BY <1>1, <1>3, <1>4, Numbers DEF PresentAt, Valid
  <2>3. QED
    BY <2>1, <2>2
<1>6. \A x \in CPUs : (Loading(q, x) <=> Loading(pl[c], x))
      /\ (Quiet(config, q, x) => Quiet(config, pl[c], x))
  BY <1>1, <1>3, Numbers DEF Loading, Quiet, CPUs, Valid, PreStages
<1>7. /\ counter' = counter /\ bspIndex' = bspIndex /\ config' = config
      /\ local' = local /\ cpu' = cpu /\ platform' = platform /\ inside' = FALSE
  BY DEF NotifyExit
<1>8. Types'
  BY <1>1, <1>7 DEF Types, NotifyExit
<1>9. CpusInv(pl2)'
  BY <1>1, <1>2, <1>7, CpusFrame
<1>10. AllArrived(pl) \/ Arriving(config, q)
  BY <1>1, <1>4, BspFacts DEF Arriving
<1>11. inside' <=> InsideAt(config, q)
  BY <1>1, <1>3, <1>7, Numbers DEF InsideAt
<1>12. Meeting(pl2)'
  BY <1>2, <1>4, <1>5, <1>6, <1>7, <1>8, <1>9, <1>10, <1>11, BspFacts, BspStepFrame DEF SameFor,
     Others
<1>13. QED
  BY <1>2, <1>12 DEF Keeps

\* The BSP clears its Present.
LEMMA BspAbsentKeeps ==
  ASSUME NEW pl, Meeting(pl), NEW c \in CPUs, ClearPresent(c), pl[c].s = "absent"
  PROVE  Keeps(pl, c, Succ(config, pl[c]))
<1>1. pl[c].s = "absent" /\ InSmm(c) /\ Types /\ config \in Configs /\ pl[c] \in Place
      /\ Valid(config, pl[c])
  BY StageOf, MeetingParts DEF ClearPresent
<1>2. PICK q, pl2 : q \in Place /\ q = Succ(config, pl[c]) /\ Moves(pl, c, q, pl2) /\ Placed(pl2)'
  BY <1>1, MeetingParts, DonePlace DEF Goes, ClearPresent
<1>3. q.s = "gather" /\ q.k = 1
  BY <1>1, <1>2 DEF Succ, BspSucc, RoundSucc, Valid, OutStages, PreStages, ApStages, LoopStages,
     OneStages,
                    AllStages, ServiceStages, P
<1>4. /\ IsAtBsp(pl[c]) /\ IsAtBsp(q) /\ ~IsAp(pl[c]) /\ ~IsAp(q) /\ q.s \notin OneStages
      /\ pl[c].s # "reset_counter" /\ q.s # "reset_counter"
  <2>1. IsAtBsp(pl[c]) /\ IsAtBsp(q) /\ q.s \notin OneStages
    BY <1>1, <1>3 DEF IsAtBsp, BspStages, OneStages
  <2>2. QED
    BY <1>1, <1>2, <1>3, <2>1, Kinds
<1>5. SameRound(config, pl[c], q) /\ (PresentAt(pl[c]) <=> TRUE) /\ (PresentAt(q) <=> FALSE)
  <2>1. SameRound(config, pl[c], q)
    BY <1>1, <1>3, Numbers DEF SameRound, Left, Locked, Final, Valid, PreStages, CPUs
  <2>2. (PresentAt(pl[c]) <=> TRUE) /\ (PresentAt(q) <=> FALSE)
    BY <1>1, <1>3, <1>4, Numbers DEF PresentAt, Valid
  <2>3. QED
    BY <2>1, <2>2
<1>6. \A x \in CPUs : (Loading(q, x) <=> Loading(pl[c], x))
      /\ (Quiet(config, q, x) => Quiet(config, pl[c], x))
  BY <1>1, <1>3, Numbers DEF Loading, Quiet, CPUs, Valid, PreStages
<1>7. /\ counter' = counter /\ bspIndex' = bspIndex /\ config' = config
      /\ local' = local /\ platform' = platform /\ inside' = inside /\ SetData(c, "present", FALSE)
  BY DEF ClearPresent
<1>8. /\ Types' /\ Others(c) /\ cpu'[c].run = cpu[c].run /\ ~cpu'[c].present
  <2>1. Others(c) /\ cpu'[c].run = cpu[c].run /\ ~cpu'[c].present
    BY <1>1, <1>7, SetPresent
  <2>2. QED
    BY <1>1, <1>7, <2>1 DEF Types, ClearPresent, Others
<1>9. CpusInv(pl2)'
  BY <1>1, <1>2, <1>7, CpusFrame
<1>10. AllArrived(pl) \/ Arriving(config, q)
  BY <1>1, <1>4, BspFacts, Numbers DEF Arriving, Valid
<1>11. inside' <=> InsideAt(config, q)
  BY <1>1, <1>3, <1>4, <1>7, Numbers, BspFacts DEF InsideAt, Valid
<1>12. Meeting(pl2)'
  BY <1>2, <1>4, <1>5, <1>6, <1>7, <1>8, <1>9, <1>10, <1>11, BspFacts, BspStepFrame DEF SameFor,
     Others
<1>13. QED
  BY <1>2, <1>12 DEF Keeps

\* The BSP has locked Counter after the handlers and waits for the APs that were still to come.
LEMMA AllPresentKeeps ==
  ASSUME NEW pl, Meeting(pl), NEW c \in CPUs, AllPresent(c)
  PROVE  Keeps(pl, c, Succ(config, pl[c]))
<1>1. pl[c].s = "all_present" /\ InSmm(c) /\ Types /\ config \in Configs /\ pl[c] \in Place
      /\ Valid(config, pl[c])
  BY StageOf, MeetingParts DEF AllPresent
<1>2. PICK q, pl2 : q \in Place /\ q = Succ(config, pl[c]) /\ Moves(pl, c, q, pl2) /\ Placed(pl2)'
  BY <1>1, MeetingParts, DonePlace DEF Goes, AllPresent
<1>3. q.s = "outside" /\ q.k = LoopK(config)
  BY <1>1, <1>2 DEF Succ, BspSucc, RoundSucc, Valid, OutStages, PreStages, ApStages, LoopStages,
     OneStages,
                    AllStages, ServiceStages, P
<1>4. /\ IsAtBsp(pl[c]) /\ IsAtBsp(q) /\ ~IsAp(pl[c]) /\ ~IsAp(q) /\ q.s \notin OneStages
      /\ pl[c].s # "reset_counter" /\ q.s # "reset_counter"
  <2>1. IsAtBsp(pl[c]) /\ IsAtBsp(q) /\ q.s \notin OneStages
    BY <1>1, <1>3 DEF IsAtBsp, BspStages, OneStages
  <2>2. QED
    BY <1>1, <1>2, <1>3, <2>1, Kinds
<1>5. SameRound(config, pl[c], q) /\ (PresentAt(pl[c]) <=> TRUE) /\ (PresentAt(q) <=> TRUE)
  <2>1. SameRound(config, pl[c], q)
    BY <1>1, <1>3, Numbers DEF SameRound, Left, Locked, Final, Valid, PreStages, CPUs
  <2>2. (PresentAt(pl[c]) <=> TRUE) /\ (PresentAt(q) <=> TRUE)
    BY <1>1, <1>3, <1>4, Numbers DEF PresentAt, Valid
  <2>3. QED
    BY <2>1, <2>2
<1>6. \A x \in CPUs : (Loading(q, x) <=> Loading(pl[c], x))
      /\ (Quiet(config, q, x) => Quiet(config, pl[c], x))
  BY <1>1, <1>3, Numbers DEF Loading, Quiet, CPUs, Valid, PreStages
<1>7. /\ counter' = counter /\ bspIndex' = bspIndex /\ config' = config
      /\ local' = local /\ cpu' = cpu /\ platform' = platform /\ inside' = inside
  BY DEF AllPresent
<1>8. Types'
  BY <1>1, <1>7 DEF Types, AllPresent
<1>9. CpusInv(pl2)'
  BY <1>1, <1>2, <1>7, CpusFrame
<1>10. AllArrived(pl) \/ Arriving(config, q)
  <2>1. pl[c].k # 0 /\ ~Final(pl[c]) /\ Locked(config, pl[c])
    BY <1>1, Numbers DEF Valid, Final, Locked
  <2>2. local[c].apCount = Cardinality(Aps(pl))
    BY <1>4, <2>1, MeetingParts DEF GatherInv
  <2> DEFINE S == {i \in CPUs : cpu[i].present}
             T == Aps(pl) \cup {c}
  <2>3. Cardinality(S) > Cardinality(Aps(pl))
    BY <2>2 DEF AllPresent
  <2>4. c \notin Aps(pl) /\ IsFiniteSet(T) /\ Cardinality(T) = Cardinality(Aps(pl)) + 1
    <3>1. c \notin Aps(pl)
      BY <1>1, <1>4, Kinds DEF Aps
    <3>2. QED
      BY <3>1, CountedFinite, FS_AddElement
  <2>5. S \in SUBSET T
    <3> SUFFICES ASSUME NEW x \in CPUs, cpu[x].present PROVE x \in T
      OBVIOUS
    <3>1. PresentAt(pl[x])
      BY MeetingParts DEF PresentInv
    <3>2. QED
      BY <1>4, <3>1, BspFacts DEF PresentAt, Aps
  <2>6. IsFiniteSet(S) /\ Cardinality(S) <= Cardinality(T)
        /\ (Cardinality(T) = Cardinality(S) => T = S)
    BY <2>4, <2>5, FS_Subset
  <2>7. Cardinality(S) \in Nat /\ Cardinality(T) \in Nat /\ Cardinality(Aps(pl)) \in Nat
    BY <2>4, <2>6, FS_CardinalityType, CountedFinite
  <2> HIDE DEF S, T
  <2>8. T = S
    BY <2>3, <2>4, <2>6, <2>7
  <2>9. ASSUME NEW x \in CPUs PROVE ~IsPre(pl[x]) /\ pl[x].s \notin {"find_bsp", "ap_present"}
    <3>1. pl[x] \in Place
      BY MeetingParts
    <3>2. x \in Aps(pl) => PresentAt(pl[x])
      BY <2>8, MeetingParts DEF S, T, PresentInv
    <3>3. PresentAt(pl[x]) /\ x \in Aps(pl) => IsAp(pl[x])
          /\ pl[x].s \notin {"find_bsp", "ap_present"}
      BY <3>1, Kinds DEF PresentAt, Aps
    <3>4. x \notin Aps(pl) => ~IsPre(pl[x]) /\ ~IsAp(pl[x])
      BY DEF Aps
    <3>5. QED
      BY <3>1, <3>2, <3>3, <3>4, Kinds
  <2>10. QED
    BY <2>9 DEF AllArrived
<1>11. inside' <=> InsideAt(config, q)
  BY <1>1, <1>3, <1>4, <1>7, Numbers, BspFacts DEF InsideAt, Valid
<1>12. Meeting(pl2)'
  BY <1>2, <1>4, <1>5, <1>6, <1>7, <1>8, <1>9, <1>10, <1>11, BspFacts, BspStepFrame DEF SameFor,
     Others
<1>13. QED
  BY <1>2, <1>12 DEF Keeps

-----------------------------------------------------------------------------
(***************************************************************************)
(* The services of the SMI handlers.                                       *)
(***************************************************************************)
\* What NewCall leaves in calls has the right type.
LEMMA NewCallIs ==
  ASSUME Types, NEW service, NEW blocking \in BOOLEAN, NEW running \in Int,
         NewCall(service, blocking, running)
  PROVE  /\ calls' \in CallData /\ calls'.made = calls.made + 1 /\ calls'.made \in 1 .. MaxCalls
         /\ calls'.made <= config.calls /\ service \in config.services
         /\ calls'.proc = IF service = "SmmStartupThisAp" THEN WRAPPER ELSE calls'.made
         /\ calls'.token = IF blocking THEN NoCall ELSE calls'.made
         /\ calls'.wrapper = calls.wrapper /\ calls'.owed = calls.owed
         /\ \A j \in 1 .. MaxCalls :
              calls'.running[j] = IF j = calls.made + 1 THEN (IF blocking THEN 0 ELSE running)
                                  ELSE calls.running[j]
<1> DEFINE k == calls.made + 1
           old == calls.running
           v == IF blocking THEN 0 ELSE running
           pr == IF service = "SmmStartupThisAp" THEN WRAPPER ELSE k
           t == IF blocking THEN NoCall ELSE k
<1>1. /\ service \in config.services /\ k <= config.calls
      /\ calls' = [calls EXCEPT !.made = k, !.proc = pr, !.token = t, !.running[k] = v]
  BY DEF NewCall
<1>2. /\ calls \in CallData /\ old \in [1 .. MaxCalls -> Int] /\ calls.made \in 0 .. MaxCalls
      /\ calls.wrapper \in [CPUs -> 0 .. MaxCalls] /\ calls.owed \in SUBSET ((0 .. MaxCalls) \X CPUs)
  BY DEF Types, CallData
<1>3. k \in 1 .. MaxCalls /\ v \in Int
  BY <1>1, <1>2, SmmAssumption DEF Types
<1>4. pr \in {WRAPPER} \cup 0 .. MaxCalls /\ t \in 0 .. MaxCalls
  BY <1>3, SmmAssumption DEF NoCall
<1> HIDE DEF k, old, v, pr, t
<1>5. /\ calls'.made = k /\ calls'.proc = pr /\ calls'.token = t
      /\ calls'.wrapper = calls.wrapper /\ calls'.owed = calls.owed
      /\ calls'.running = [calls.running EXCEPT ![k] = v]
      /\ calls' = [made |-> calls'.made, proc |-> calls'.proc, token |-> calls'.token,
                   wrapper |-> calls'.wrapper, running |-> calls'.running, owed |-> calls'.owed]
  BY <1>1, <1>2 DEF CallData
<1>6. PICK r : r = [old EXCEPT ![k] = v]
  OBVIOUS
<1>7. r \in [1 .. MaxCalls -> Int] /\ \A j \in 1 .. MaxCalls : r[j] = IF j = k THEN v ELSE old[j]
  BY <1>2, <1>3, <1>6
<1>8. calls' \in CallData
  <2>1. k \in 0 .. MaxCalls /\ calls'.running = r
    BY <1>3, <1>5, <1>6 DEF old
  <2>2. QED
    BY <1>2, <1>4, <1>5, <1>7, <2>1 DEF CallData
<1>9. \A j \in 1 .. MaxCalls : calls'.running[j] = IF j = k THEN v ELSE calls.running[j]
  BY <1>5, <1>6, <1>7 DEF old
<1>10. QED
  BY <1>1, <1>3, <1>5, <1>8, <1>9 DEF k, v, pr, t

\* A step of the BSP in the SMI handlers does nothing to CPU x.
Untouched(pl, p, q, x) ==
  /\ cpu'[x].run = cpu[x].run /\ cpu'[x].busy = cpu[x].busy
  /\ pl[x].s \in LoopStages => (Loading(q, x) <=> Loading(p, x))

\* The BSP goes from one stage of the SMI handlers to another one.
HandlerStages == {"handlers"} \cup ServiceStages

\* The BSP moves within the SMI handlers: what is left to show, by AP.
LEMMA HandlerFrame ==
  ASSUME NEW pl, Meeting(pl), NEW c \in CPUs, NEW q, NEW pl2, Moves(pl, c, q, pl2), Placed(pl2)',
         pl[c].s \in HandlerStages, q.s \in HandlerStages, Types',
         \A x \in CPUs : x # c =>
           Untouched(pl, pl[c], q, x) \/ (pl[x].s \in LoopStages /\ LoopOK(pl2, q, x)'),
         \A x \in CPUs : cpu'[x].present = cpu[x].present,
         q.s \in OneStages => q.i \in CPUs \ {c} /\ pl[q.i].s \in LoopStages,
         counter' = counter, bspIndex' = bspIndex, config' = config, inside' = inside,
         cpu'[c].run = cpu[c].run, local' = local, platform' = platform
  PROVE  Meeting(pl2)'
<1>1. /\ pl[c] \in Place /\ Valid(config, pl[c]) /\ q \in Place /\ Valid(config, q)
         /\ config \in Configs
      /\ pl2[c] = q /\ \A x \in CPUs : x # c => pl2[x] = pl[x]
  BY MeetingParts DEF Moves, Placed
<1>2. pl[c].k = LoopK(config) /\ q.k = LoopK(config) /\ LoopK(config) # 0
  BY <1>1, Numbers DEF Valid, HandlerStages
<1>3. Steady(config, pl[c], q)
  <2>1. /\ pl[c].s \in BspStages \ {"inside", "present", "gather", "release", "absent", "outside",
                              "all_present", "lockdown", "reset_bsp", "reset_counter"}
        /\ q.s \in BspStages \ {"inside", "present", "gather", "release", "absent",
                              "all_present", "reset_bsp", "reset_counter"}
        /\ q.s # "outside"
    BY DEF HandlerStages, ServiceStages, BspStages, OneStages, AllStages
  <2>2. QED
    BY <1>1, <1>2, <2>1, SteadyIs
<1>4. CpusInv(pl2)'
  <2>1. pl[c].s # "out"
    BY DEF HandlerStages, ServiceStages, OneStages, AllStages
  <2>2. QED
    BY <2>1, CpusFrame
<1>5. ASSUME NEW x \in CPUs, x # c, pl[x].s \in LoopStages, LoopOK(pl2, q, x)' PROVE RunOK(pl2, x)'
  <2>1. pl2[x] = pl[x] /\ pl2[bspIndex'] = q /\ pl[x] \in Place
    <3>1. bspIndex = c
      BY <1>3, BspFacts DEF Steady
    <3>2. QED
      BY <1>1, <1>5, <3>1, MeetingParts
  <2>2. IsAp(pl[x]) /\ ~IsPre(pl[x]) /\ ~IsOut(pl[x])
    BY <1>5, <2>1, Kinds
  <2>3. QED
    BY <1>5, <2>1, <2>2 DEF RunOK
<1>6. ASSUME NEW x \in CPUs, Untouched(pl, pl[c], q, x) PROVE SameFor(pl, pl[c], q, x)
  <2>1. ~Quiet(config, q, x)
    BY <1>1, <1>2, Numbers DEF Quiet, HandlerStages, ServiceStages, OneStages, AllStages
  <2>2. QED
    BY <1>6, <2>1 DEF Untouched, SameFor
<1>7. QED
  BY <1>3, <1>4, <1>5, <1>6, SteadyFrame

\* What the BSP knows of CPU i in the SMI handlers.
LEMMA HandlerSees ==
  ASSUME NEW pl, Meeting(pl), NEW c \in CPUs, pl[c].s \in HandlerStages, NEW i \in CPUs, i # c
  PROVE  /\ cpu[i].present <=> pl[i].s \in LoopStages
         /\ pl[i].s \in LoopStages => LoopOK(pl, pl[c], i)
         /\ Left(pl[c], i) = LoopK(config) /\ ~Quiet(config, pl[c], i) /\ LoopK(config) \in Int
<1>1. pl[c] \in Place /\ Valid(config, pl[c]) /\ config \in Configs /\ LoopK(config) \in Int
  BY MeetingParts, Numbers DEF Placed
<1>2. /\ pl[c].k = LoopK(config) /\ IsAtBsp(pl[c])
      /\ pl[c].s \notin {"release", "reset_counter", "not_busy", "sync", "lockdown", "all_present", "outside"}
  BY <1>1 DEF Valid, HandlerStages, ServiceStages, IsAtBsp, BspStages, OneStages, AllStages
<1>3. cpu[i].present <=> pl[i].s \in LoopStages
  BY <1>2, PresentInLoop
<1>4. bspIndex = c
  BY <1>2, BspFacts
<1>5. pl[i].s \in LoopStages => LoopOK(pl, pl[c], i)
  BY <1>4, MeetingParts DEF RunInv, RunOK
<1>6. Left(pl[c], i) = LoopK(config) /\ ~Quiet(config, pl[c], i)
  BY <1>1, <1>2 DEF Left, Quiet
<1>7. QED
  BY <1>1, <1>3, <1>5, <1>6

\* DispatchProcedure is called.
LEMMA DispatchKeeps ==
  ASSUME NEW pl, Meeting(pl), NEW c \in CPUs, NEW i \in CPUs, NEW blocking \in BOOLEAN,
         DispatchProcedure(c, i, blocking)
  PROVE  Keeps(pl, c, P("acquire", LoopK(config), i, blocking))
<1>1. pl[c].s = "handlers" /\ Types
  BY DispatchGoes, MeetingParts
<1>2. PICK q, pl2 : /\ q \in Place /\ q = P("acquire", LoopK(config), i, blocking)
                    /\ Moves(pl, c, q, pl2) /\ Placed(pl2)'
  BY DispatchGoes DEF Goes
<1>3. q.s = "acquire" /\ q.i = i /\ q.s \in HandlerStages /\ pl[c].s \in HandlerStages
  BY <1>1, <1>2 DEF P, HandlerStages, ServiceStages, OneStages
<1>4. i # c /\ cpu[i].present
  BY DEF DispatchProcedure, IsPresentAp
<1>5. pl[i].s \in LoopStages
  BY <1>3, <1>4, HandlerSees
<1>6. calls' \in CallData
  BY <1>1, NewCallIs DEF DispatchProcedure
<1>7. /\ counter' = counter /\ bspIndex' = bspIndex /\ config' = config /\ inside' = inside
      /\ local' = local /\ cpu' = cpu /\ platform' = platform /\ allInSync' = allInSync
  BY DEF DispatchProcedure
<1>8. Types'
  BY <1>1, <1>6, <1>7 DEF Types
<1>9. \A x \in CPUs : Untouched(pl, pl[c], q, x)
  BY <1>1, <1>3, <1>7 DEF Untouched, Loading
<1>10. Meeting(pl2)'
  BY <1>2, <1>3, <1>4, <1>5, <1>7, <1>8, <1>9, HandlerFrame
<1>11. QED
  BY <1>2, <1>10 DEF Keeps

\* SmmStartupThisAp is called.
LEMMA StartupKeeps ==
  ASSUME NEW pl, Meeting(pl), NEW c \in CPUs, NEW i \in CPUs, SmmStartupThisAp(c, i)
  PROVE  Keeps(pl, c, P("wrap", LoopK(config), i, FALSE))
<1>1. pl[c].s = "handlers" /\ Types
  BY StartupGoes, MeetingParts
<1>2. PICK q, pl2 : /\ q \in Place /\ q = P("wrap", LoopK(config), i, FALSE)
                    /\ Moves(pl, c, q, pl2) /\ Placed(pl2)'
  BY StartupGoes DEF Goes
<1>3. q.s = "wrap" /\ q.i = i /\ q.s \in HandlerStages /\ pl[c].s \in HandlerStages
      /\ q.s \notin OneStages
  BY <1>1, <1>2 DEF P, HandlerStages, ServiceStages, OneStages
<1>4. calls' \in CallData
  <2>1. PICK blocking \in BOOLEAN : blocking = FALSE
    OBVIOUS
  <2>2. NewCall("SmmStartupThisAp", blocking, 0) /\ 0 \in Int
    BY <2>1 DEF SmmStartupThisAp, NewCall
  <2>3. QED
    BY <1>1, <2>2, NewCallIs
<1>5. /\ counter' = counter /\ bspIndex' = bspIndex /\ config' = config /\ inside' = inside
      /\ local' = local /\ cpu' = cpu /\ platform' = platform /\ allInSync' = allInSync
  BY DEF SmmStartupThisAp
<1>6. Types'
  BY <1>1, <1>4, <1>5 DEF Types
<1>7. \A x \in CPUs : Untouched(pl, pl[c], q, x)
  BY <1>1, <1>3, <1>5 DEF Untouched, Loading
<1>8. Meeting(pl2)'
  BY <1>2, <1>3, <1>5, <1>6, <1>7, HandlerFrame
<1>9. QED
  BY <1>2, <1>8 DEF Keeps

\* BroadcastProcedure is called, where the BSP has gathered the APs.
LEMMA BroadcastKeeps ==
  ASSUME NEW pl, Meeting(pl), NEW c \in CPUs, NEW blocking \in BOOLEAN, Gathers(config),
         BroadcastProcedure(c, blocking)
  PROVE  Keeps(pl, c, P("acquire_present", LoopK(config), 1, blocking))
<1>1. pl[c].s = "handlers" /\ Types
  BY BroadcastGoes, MeetingParts
<1>2. PICK q, pl2 : /\ q \in Place /\ q = P("acquire_present", LoopK(config), 1, blocking)
                    /\ Moves(pl, c, q, pl2) /\ Placed(pl2)'
  BY BroadcastGoes DEF Goes
<1>3. /\ q.s = "acquire_present" /\ q.i = 1 /\ q.s \in HandlerStages /\ pl[c].s \in HandlerStages
      /\ q.s \notin OneStages
  BY <1>1, <1>2 DEF P, HandlerStages, ServiceStages, OneStages, AllStages
<1>4. calls' \in CallData
  BY <1>1, NewCallIs, SmmAssumption DEF BroadcastProcedure
<1>5. /\ counter' = counter /\ bspIndex' = bspIndex /\ config' = config /\ inside' = inside
      /\ local' = local /\ cpu' = cpu /\ platform' = platform /\ allInSync' = allInSync
  BY DEF BroadcastProcedure
<1>6. Types'
  BY <1>1, <1>4, <1>5 DEF Types
<1>7. \A x \in CPUs : Untouched(pl, pl[c], q, x)
  BY <1>1, <1>3, <1>5 DEF Untouched, Loading, CPUs
<1>8. Meeting(pl2)'
  BY <1>2, <1>3, <1>5, <1>6, <1>7, HandlerFrame
<1>9. QED
  BY <1>2, <1>8 DEF Keeps

\* The write of ApWrapperFunc, and the new token.
LEMMA WrapIs ==
  ASSUME calls \in CallData, NEW i \in CPUs, NEW v \in Int,
         calls' = [calls EXCEPT !.wrapper[i] = calls.made, !.running[calls.made] = v]
  PROVE  /\ calls' \in CallData /\ calls'.made = calls.made /\ calls'.proc = calls.proc
         /\ calls'.token = calls.token /\ calls'.owed = calls.owed
         /\ \A x \in CPUs : calls'.wrapper[x] = IF x = i THEN calls.made ELSE calls.wrapper[x]
         /\ \A j \in 1 .. MaxCalls :
              calls'.running[j] = IF j = calls.made THEN v ELSE calls.running[j]
<1>1. /\ calls.wrapper \in [CPUs -> 0 .. MaxCalls] /\ calls.made \in 0 .. MaxCalls
      /\ calls.running \in [1 .. MaxCalls -> Int]
  BY DEF CallData
<1>2. PICK r, n : r = [calls.wrapper EXCEPT ![i] = calls.made]
                  /\ n = [calls.running EXCEPT ![calls.made] = v]
  OBVIOUS
<1>3. /\ r \in [CPUs -> 0 .. MaxCalls]
      /\ \A x \in CPUs : r[x] = IF x = i THEN calls.made ELSE calls.wrapper[x]
  BY <1>1, <1>2
<1>4. /\ n \in [1 .. MaxCalls -> Int]
      /\ \A j \in 1 .. MaxCalls : n[j] = IF j = calls.made THEN v ELSE calls.running[j]
  BY <1>1, <1>2
<1>5. calls' = [made |-> calls.made, proc |-> calls.proc, token |-> calls.token,
                wrapper |-> r, running |-> n, owed |-> calls.owed]
  BY <1>2 DEF CallData
<1>6. /\ calls'.made = calls.made /\ calls'.proc = calls.proc /\ calls'.token = calls.token
      /\ calls'.owed = calls.owed /\ calls'.wrapper = r /\ calls'.running = n
  BY <1>2 DEF CallData
<1>7. calls' \in CallData
  BY <1>3, <1>4, <1>5 DEF CallData
<1>8. QED
  BY <1>3, <1>4, <1>6, <1>7, ZenonT(60)

\* SmmStartupThisAp writes the wrapper of the AP.
LEMMA WrapKeeps ==
  ASSUME NEW pl, Meeting(pl), NEW c \in CPUs, Wrap(c)
  PROVE  /\ IsPresentAp(c, pl[c].i) => Keeps(pl, c, P("acquire", LoopK(config), pl[c].i, FALSE))
         /\ ~IsPresentAp(c, pl[c].i) => Keeps(pl, c, P("handlers", LoopK(config), 0, FALSE))
<1>1. pl[c].s = "wrap" /\ Types /\ pl[c].i \in CPUs
  <2>1. pl[c].s = "wrap" /\ Types /\ Valid(config, pl[c])
    BY WrapGoes, MeetingParts DEF Placed
  <2>2. QED
    BY <2>1 DEF Valid, ServiceStages
<1>2. PICK q, pl2 :
        /\ q \in Place /\ Moves(pl, c, q, pl2) /\ Placed(pl2)'
        /\ \/ q = P("acquire", LoopK(config), pl[c].i, FALSE) /\ IsPresentAp(c, pl[c].i)
           \/ q = P("handlers", LoopK(config), 0, FALSE) /\ ~IsPresentAp(c, pl[c].i)
  BY WrapGoes DEF Goes
<1>3. /\ q.s \in {"acquire", "handlers"} /\ q.s \in HandlerStages /\ pl[c].s \in HandlerStages
      /\ q.s = "acquire" => q.i = pl[c].i /\ IsPresentAp(c, pl[c].i)
  BY <1>1, <1>2 DEF P, HandlerStages, ServiceStages, OneStages
<1>4. q.s \in OneStages => q.i \in CPUs \ {c} /\ pl[q.i].s \in LoopStages
  <2>1. q.s \in OneStages => q.s = "acquire"
    BY <1>3 DEF OneStages
  <2>2. QED
    BY <1>1, <1>3, <2>1, HandlerSees DEF IsPresentAp
<1>5. /\ counter' = counter /\ bspIndex' = bspIndex /\ config' = config /\ inside' = inside
      /\ local' = local /\ cpu' = cpu /\ platform' = platform /\ allInSync' = allInSync
  BY DEF Wrap
<1>6. Types'
  <2>1. PICK v \in Int :
          calls' = [calls EXCEPT !.wrapper[pl[c].i] = calls.made, !.running[calls.made] = v]
    <3>1. Index(c) = pl[c].i
      BY <1>1, StageOf
    <3>2. PICK v : v = IF IsPresentAp(c, pl[c].i) THEN 1 ELSE 0
      OBVIOUS
    <3>3. v \in Int
      BY <3>2
    <3>4. QED
      BY <3>1, <3>2, <3>3 DEF Wrap
  <2>2. calls' \in CallData
    BY <1>1, <2>1, WrapIs DEF Types
  <2>3. QED
    BY <1>1, <1>5, <2>2 DEF Types
<1>7. \A x \in CPUs : Untouched(pl, pl[c], q, x)
  BY <1>1, <1>3, <1>5 DEF Untouched, Loading
<1>8. Meeting(pl2)'
  BY <1>2, <1>3, <1>4, <1>5, <1>6, <1>7, HandlerFrame
<1>9. QED
  BY <1>2, <1>8 DEF Keeps

\* Where the steps of a service lead.
LEMMA ServiceNext ==
  ASSUME NEW pl, Meeting(pl), NEW c \in CPUs, pl[c].s \in ServiceStages \ {"wrap"}, NEW q,
         q = Succ(config, pl[c])
  PROVE  /\ pl[c].i \in CPUs /\ pl[c].i \in Int /\ N \in Int /\ pl[c].i <= N /\ Index(c) = pl[c].i
         /\ q.s \in HandlerStages
         /\ pl[c].s = "acquire" => q.s = "schedule" /\ q.i = pl[c].i /\ q.b = pl[c].b
         /\ pl[c].s = "schedule" => q.s = "release_run" /\ q.i = pl[c].i /\ q.b = pl[c].b
         /\ pl[c].s = "release_run" =>
              \/ q.s = "wait_one" /\ q.i = pl[c].i /\ q.b = pl[c].b /\ pl[c].b
              \/ q.s = "handlers" /\ ~pl[c].b
         /\ pl[c].s = "wait_one" => q.s = "handlers"
         /\ pl[c].s = "acquire_present" =>
              \/ q.s = "acquire_present" /\ q.i = pl[c].i + 1 /\ pl[c].i < N /\ q.b = pl[c].b
              \/ q.s = "schedule_present" /\ q.i = 1 /\ pl[c].i = N /\ q.b = pl[c].b
         /\ pl[c].s = "schedule_present" =>
              \/ q.s = "schedule_present" /\ q.i = pl[c].i + 1 /\ pl[c].i < N /\ q.b = pl[c].b
              \/ q.s = "bcast" /\ q.i = 1 /\ pl[c].i = N /\ q.b = pl[c].b
         /\ pl[c].s = "bcast" =>
              \/ q.s = "bcast" /\ q.i = pl[c].i + 1 /\ pl[c].i < N /\ q.b = pl[c].b
              \/ q.s = "wait_all" /\ q.i = 1 /\ pl[c].i = N /\ q.b = pl[c].b /\ pl[c].b
              \/ q.s = "handlers" /\ pl[c].i = N /\ ~pl[c].b
         /\ pl[c].s = "wait_all" =>
              \/ q.s = "wait_all" /\ q.i = pl[c].i + 1 /\ pl[c].i < N /\ q.b = pl[c].b
              \/ q.s = "handlers" /\ pl[c].i = N
<1>1. pl[c] \in Place /\ Valid(config, pl[c]) /\ pl[c].s # "out" /\ N \in Int
  BY MeetingParts, SmmAssumption DEF Placed, ServiceStages, OneStages, AllStages
<1>2. pl[c].i \in CPUs /\ Index(c) = pl[c].i
  BY <1>1, StageOf DEF Valid
<1>3. pl[c].i \in Int /\ pl[c].i <= N /\ (~(pl[c].i < N) => pl[c].i = N)
  BY <1>1, <1>2 DEF CPUs
<1>4. q = ServiceSucc(config, pl[c])
  BY DEF Succ, OutStages, PreStages, ApStages, LoopStages, ServiceStages, OneStages, AllStages
<1>5. pl[c].s \in {"acquire", "schedule", "release_run", "wait_one", "acquire_present", "schedule_present",
                   "bcast", "wait_all"} /\ pl[c].b \in BOOLEAN
  BY <1>1 DEF ServiceStages, OneStages, AllStages, Place

<1>6. CASE pl[c].s = "acquire"
  BY <1>1, <1>2, <1>3, <1>4, <1>6 DEF ServiceSucc, P, HandlerStages, ServiceStages, OneStages,
     AllStages
<1>7. CASE pl[c].s = "schedule"
  BY <1>1, <1>2, <1>3, <1>4, <1>7 DEF ServiceSucc, P, HandlerStages, ServiceStages, OneStages,
     AllStages
<1>8. CASE pl[c].s = "release_run"
  <2>1. CASE pl[c].b /\ pl[c].i < N
    BY <1>1, <1>2, <1>3, <1>4, <1>8, <2>1 DEF ServiceSucc, P, HandlerStages, ServiceStages,
       OneStages, AllStages
  <2>2. CASE ~pl[c].b /\ pl[c].i < N
    BY <1>1, <1>2, <1>3, <1>4, <1>8, <2>2 DEF ServiceSucc, P, HandlerStages, ServiceStages,
       OneStages, AllStages
  <2>3. CASE pl[c].b /\ pl[c].i = N
    BY <1>1, <1>2, <1>3, <1>4, <1>8, <2>3 DEF ServiceSucc, P, HandlerStages, ServiceStages,
       OneStages, AllStages
  <2>4. CASE ~pl[c].b /\ pl[c].i = N
    <3>1. ~(pl[c].i < N)
      BY <1>1, <2>4
    <3>2. q = P("handlers", LoopK(config), 0, FALSE) \/ pl[c].s = "release_run"
      BY <1>4, <1>8, <2>4, <3>1 DEF ServiceSucc
    <3>3. QED
      BY <1>1, <1>2, <1>3, <1>4, <1>8, <2>4, <3>1, <3>2 DEF ServiceSucc, P, HandlerStages,
         ServiceStages, OneStages, AllStages
  <2>5. QED
    BY <1>3, <2>1, <2>2, <2>3, <2>4
<1>9. CASE pl[c].s = "wait_one"
  BY <1>1, <1>2, <1>3, <1>4, <1>9 DEF ServiceSucc, P, HandlerStages, ServiceStages, OneStages,
     AllStages
<1>10. CASE pl[c].s = "acquire_present"
  BY <1>1, <1>2, <1>3, <1>4, <1>10 DEF ServiceSucc, P, HandlerStages, ServiceStages, OneStages,
     AllStages
<1>11. CASE pl[c].s = "schedule_present"
  BY <1>1, <1>2, <1>3, <1>4, <1>11 DEF ServiceSucc, P, HandlerStages, ServiceStages, OneStages,
     AllStages
<1>12. CASE pl[c].s = "bcast"
  <2>1. CASE pl[c].b /\ pl[c].i < N
    BY <1>1, <1>2, <1>3, <1>4, <1>12, <2>1 DEF ServiceSucc, P, HandlerStages, ServiceStages,
       OneStages, AllStages
  <2>2. CASE ~pl[c].b /\ pl[c].i < N
    BY <1>1, <1>2, <1>3, <1>4, <1>12, <2>2 DEF ServiceSucc, P, HandlerStages, ServiceStages,
       OneStages, AllStages
  <2>3. CASE pl[c].b /\ pl[c].i = N
    BY <1>1, <1>2, <1>3, <1>4, <1>12, <2>3 DEF ServiceSucc, P, HandlerStages, ServiceStages,
       OneStages, AllStages
  <2>4. CASE ~pl[c].b /\ pl[c].i = N
    <3>1. ~(pl[c].i < N)
      BY <1>1, <2>4
    <3>2. q = P("handlers", LoopK(config), 0, FALSE) \/ pl[c].s = "release_run"
      BY <1>4, <1>12, <2>4, <3>1 DEF ServiceSucc
    <3>3. QED
      BY <1>1, <1>2, <1>3, <1>4, <1>12, <2>4, <3>1, <3>2 DEF ServiceSucc, P, HandlerStages,
         ServiceStages, OneStages, AllStages
  <2>5. QED
    BY <1>3, <2>1, <2>2, <2>3, <2>4
<1>13. CASE pl[c].s = "wait_all"
  <2>1. CASE pl[c].b /\ pl[c].i < N
    BY <1>1, <1>2, <1>3, <1>4, <1>13, <2>1 DEF ServiceSucc, P, HandlerStages, ServiceStages,
       OneStages, AllStages
  <2>2. CASE ~pl[c].b /\ pl[c].i < N
    BY <1>1, <1>2, <1>3, <1>4, <1>13, <2>2 DEF ServiceSucc, P, HandlerStages, ServiceStages,
       OneStages, AllStages
  <2>3. CASE pl[c].b /\ pl[c].i = N
    BY <1>1, <1>2, <1>3, <1>4, <1>13, <2>3 DEF ServiceSucc, P, HandlerStages, ServiceStages,
       OneStages, AllStages
  <2>4. CASE ~pl[c].b /\ pl[c].i = N
    <3>1. ~(pl[c].i < N)
      BY <1>1, <2>4
    <3>2. q = P("handlers", LoopK(config), 0, FALSE) \/ pl[c].s = "release_run"
      BY <1>4, <1>13, <2>4, <3>1 DEF ServiceSucc
    <3>3. QED
      BY <1>1, <1>2, <1>3, <1>4, <1>13, <2>4, <3>1, <3>2 DEF ServiceSucc, P, HandlerStages,
         ServiceStages, OneStages, AllStages
  <2>5. QED
    BY <1>3, <2>1, <2>2, <2>3, <2>4
<1>14. QED
  BY <1>5, <1>6, <1>7, <1>8, <1>9, <1>10, <1>11, <1>12, <1>13

\* Writes of the procedure and of the token in the data of CPU i.
PutProc(f, i, v, g)  == g = [f EXCEPT ![i].proc = v]
PutToken(f, i, v, g) == g = [f EXCEPT ![i].token = v]

\* The write of Procedure changes nothing else.
LEMMA PutProcIs ==
  ASSUME NEW f \in CpuData, NEW i \in CPUs, NEW v \in {WRAPPER} \cup 0 .. MaxCalls, NEW g,
         PutProc(f, i, v, g)
  PROVE  /\ g \in CpuData /\ g[i].run = f[i].run /\ g[i].present = f[i].present
         /\ g[i].busy = f[i].busy /\ g[i].proc = v /\ g[i].token = f[i].token
         /\ \A x \in CPUs : x # i => g[x] = f[x]
<1>1. f[i] = [run |-> f[i].run, present |-> f[i].present, busy |-> f[i].busy,
              proc |-> f[i].proc, token |-> f[i].token]
  BY DEF CpuData
<1>2. PICK r : r = [f[i] EXCEPT !.proc = v]
  OBVIOUS
<1>3. r = [run |-> f[i].run, present |-> f[i].present, busy |-> f[i].busy,
           proc |-> v, token |-> f[i].token]
  BY <1>1, <1>2
<1>4. g = [f EXCEPT ![i] = r]
  BY <1>2 DEF PutProc
<1>5. r \in [run : Nat, present : BOOLEAN, busy : BOOLEAN,
             proc : {WRAPPER} \cup 0 .. MaxCalls, token : 0 .. MaxCalls]
  BY <1>3 DEF CpuData
<1>6. g \in CpuData /\ g[i] = r /\ \A x \in CPUs : x # i => g[x] = f[x]
  BY <1>4, <1>5 DEF CpuData
<1>7. QED
  BY <1>3, <1>6

\* The write of Token changes nothing else.
LEMMA PutTokenIs ==
  ASSUME NEW f \in CpuData, NEW i \in CPUs, NEW v \in 0 .. MaxCalls, NEW g, PutToken(f, i, v, g)
  PROVE  /\ g \in CpuData /\ g[i].run = f[i].run /\ g[i].present = f[i].present
         /\ g[i].busy = f[i].busy /\ g[i].proc = f[i].proc /\ g[i].token = v
         /\ \A x \in CPUs : x # i => g[x] = f[x]
<1>1. f[i] = [run |-> f[i].run, present |-> f[i].present, busy |-> f[i].busy,
              proc |-> f[i].proc, token |-> f[i].token]
  BY DEF CpuData
<1>2. PICK r : r = [f[i] EXCEPT !.token = v]
  OBVIOUS
<1>3. r = [run |-> f[i].run, present |-> f[i].present, busy |-> f[i].busy,
           proc |-> f[i].proc, token |-> v]
  BY <1>1, <1>2
<1>4. g = [f EXCEPT ![i] = r]
  BY <1>2 DEF PutToken
<1>5. r \in [run : Nat, present : BOOLEAN, busy : BOOLEAN,
             proc : {WRAPPER} \cup 0 .. MaxCalls, token : 0 .. MaxCalls]
  BY <1>3 DEF CpuData
<1>6. g \in CpuData /\ g[i] = r /\ \A x \in CPUs : x # i => g[x] = f[x]
  BY <1>4, <1>5 DEF CpuData
<1>7. QED
  BY <1>3, <1>6

\* What an AP is given: the procedure and, if the call has one, the token.
LEMMA ScheduleIs ==
  ASSUME Types, NEW i \in CPUs,
         cpu' = [cpu EXCEPT ![i].proc = calls.proc,
                            ![i].token = IF calls.token = NoCall THEN @ ELSE calls.token]
  PROVE  /\ Others(i) /\ cpu'[i].run = cpu[i].run /\ cpu'[i].present = cpu[i].present
         /\ cpu'[i].busy = cpu[i].busy /\ cpu'[i].proc = calls.proc
         /\ cpu'[i].token = IF calls.token = NoCall THEN cpu[i].token ELSE calls.token
<1>1. calls.proc \in {WRAPPER} \cup 0 .. MaxCalls /\ calls.token \in 0 .. MaxCalls
  BY DEF Types, CallData
<1>2. PICK t : t = IF calls.token = NoCall THEN cpu[i].token ELSE calls.token
  OBVIOUS
<1>3. t \in 0 .. MaxCalls
  BY <1>1, <1>2 DEF Types, CpuData
<1>4. PICK m : m = [cpu EXCEPT ![i].proc = calls.proc]
  OBVIOUS
<1>5. /\ m \in CpuData /\ m[i].run = cpu[i].run /\ m[i].present = cpu[i].present
      /\ m[i].busy = cpu[i].busy /\ m[i].proc = calls.proc /\ m[i].token = cpu[i].token
      /\ \A x \in CPUs : x # i => m[x] = cpu[x]
  <2>1. PutProc(cpu, i, calls.proc, m) /\ cpu \in CpuData
    BY <1>4 DEF PutProc, Types
  <2>2. QED
    BY <1>1, <2>1, PutProcIs
<1>6. PutToken(m, i, t, cpu')
  BY <1>2, <1>4, <1>5 DEF Types, CpuData, PutToken
<1>7. /\ cpu' \in CpuData /\ cpu'[i].run = m[i].run /\ cpu'[i].present = m[i].present
      /\ cpu'[i].busy = m[i].busy /\ cpu'[i].proc = m[i].proc /\ cpu'[i].token = t
      /\ \A x \in CPUs : x # i => cpu'[x] = m[x]
  <2>1. PICK g : g = cpu'
    OBVIOUS
  <2>2. PutToken(m, i, t, g) /\ m \in CpuData
    BY <1>5, <1>6, <2>1
  <2>3. /\ g \in CpuData /\ g[i].run = m[i].run /\ g[i].present = m[i].present
        /\ g[i].busy = m[i].busy /\ g[i].proc = m[i].proc /\ g[i].token = t
        /\ \A x \in CPUs : x # i => g[x] = m[x]
    BY ONLY i \in CPUs, <1>3, <2>2, PutTokenIs
  <2>4. QED
    BY <2>1, <2>3
<1>8. QED
  BY <1>2, <1>5, <1>7 DEF Others

\* A procedure is owed from when the AP is given it.
LEMMA OweIs ==
  ASSUME calls \in CallData, NEW i \in CPUs,
         calls' = [calls EXCEPT !.owed = @ \cup {<<calls.made, i>>}]
  PROVE  /\ calls' \in CallData /\ calls'.made = calls.made /\ calls'.proc = calls.proc
         /\ calls'.token = calls.token /\ calls'.running = calls.running
         /\ calls'.wrapper = calls.wrapper /\ calls'.owed = calls.owed \cup {<<calls.made, i>>}
<1>1. calls.owed \in SUBSET ((0 .. MaxCalls) \X CPUs) /\ calls.made \in 0 .. MaxCalls
  BY DEF CallData
<1>2. PICK r : r = calls.owed \cup {<<calls.made, i>>}
  OBVIOUS
<1>3. r \in SUBSET ((0 .. MaxCalls) \X CPUs)
  BY <1>1, <1>2
<1>4. calls' = [made |-> calls.made, proc |-> calls.proc, token |-> calls.token,
                wrapper |-> calls.wrapper, running |-> calls.running, owed |-> r]
  BY <1>2 DEF CallData
<1>5. QED
  BY <1>2, <1>3, <1>4 DEF CallData

\* What Schedule does, by the stage and by whether the AP is there.
LEMMA ScheduleDoes ==
  ASSUME NEW pl, Meeting(pl), NEW c \in CPUs, Schedule(c)
  PROVE  /\ pl[c].s \in {"schedule", "schedule_present"} /\ pl[c].i \in CPUs /\ InSmm(c)
         /\ calls' \in CallData /\ cpu' \in CpuData
         /\ \A x \in CPUs : /\ cpu'[x].run = cpu[x].run /\ cpu'[x].present = cpu[x].present
                            /\ cpu'[x].busy = cpu[x].busy
         /\ pl[c].s = "schedule" \/ IsPresentAp(c, pl[c].i) =>
              /\ cpu' = [cpu EXCEPT ![pl[c].i].proc = calls.proc,
                                    ![pl[c].i].token = IF calls.token = NoCall THEN @ ELSE calls.token]
              /\ calls' = [calls EXCEPT !.owed = @ \cup {<<calls.made, pl[c].i>>}]
         /\ ~(pl[c].s = "schedule" \/ IsPresentAp(c, pl[c].i)) =>
              /\ cpu' = cpu
              /\ calls' = IF calls.token = NoCall THEN calls
                          ELSE [calls EXCEPT !.running[calls.token] = @ - 1]
<1>1. pl[c].s \in {"schedule", "schedule_present"} /\ InSmm(c) /\ Types
      /\ (At(c, "schedule") <=> pl[c].s = "schedule")
  BY StageOf, MeetingParts DEF Schedule
<1>2. pl[c].i \in CPUs /\ Index(c) = pl[c].i
  BY <1>1, ServiceNext DEF ServiceStages, OneStages, AllStages
<1>3. /\ pl[c].s = "schedule" \/ IsPresentAp(c, pl[c].i) =>
              /\ cpu' = [cpu EXCEPT ![pl[c].i].proc = calls.proc,
                                    ![pl[c].i].token = IF calls.token = NoCall THEN @ ELSE calls.token]
              /\ calls' = [calls EXCEPT !.owed = @ \cup {<<calls.made, pl[c].i>>}]
      /\ ~(pl[c].s = "schedule" \/ IsPresentAp(c, pl[c].i)) =>
              /\ cpu' = cpu
              /\ calls' = IF calls.token = NoCall THEN calls
                          ELSE [calls EXCEPT !.running[calls.token] = @ - 1]
  BY <1>1, <1>2 DEF Schedule
<1>4. /\ cpu' \in CpuData
      /\ \A x \in CPUs : /\ cpu'[x].run = cpu[x].run /\ cpu'[x].present = cpu[x].present
                         /\ cpu'[x].busy = cpu[x].busy
  BY <1>1, <1>2, <1>3, ScheduleIs DEF Others, Types
<1>5. calls' \in CallData
  BY <1>1, <1>2, <1>3, OweIs, CountDown DEF Types
<1>6. QED
  BY <1>1, <1>2, <1>3, <1>4, <1>5

\* The BSP gives an AP its procedure, or skips an absent one.
LEMMA ScheduleKeeps ==
  ASSUME NEW pl, Meeting(pl), NEW c \in CPUs, Schedule(c)
  PROVE  Keeps(pl, c, Succ(config, pl[c]))
<1>1. /\ pl[c].s \in {"schedule", "schedule_present"} /\ pl[c].s \in ServiceStages \ {"wrap"}
      /\ pl[c].s \in HandlerStages /\ InSmm(c) /\ Types
  BY ScheduleDoes, MeetingParts DEF HandlerStages, ServiceStages, OneStages, AllStages
<1>2. PICK q, pl2 : q \in Place /\ q = Succ(config, pl[c]) /\ Moves(pl, c, q, pl2) /\ Placed(pl2)'
  BY <1>1, MeetingParts, DonePlace DEF Goes, Schedule
<1>3. /\ counter' = counter /\ bspIndex' = bspIndex /\ config' = config /\ inside' = inside
      /\ local' = local /\ platform' = platform /\ allInSync' = allInSync
  BY DEF Schedule
<1>4. Types'
  BY <1>1, <1>3, ScheduleDoes DEF Types
<1>5. q.s \in OneStages => q.i \in CPUs \ {c} /\ pl[q.i].s \in LoopStages
  <2>1. q.s \in OneStages => pl[c].s \in OneStages /\ q.i = pl[c].i
    BY <1>1, <1>2, ServiceNext DEF OneStages
  <2>2. QED
    BY <2>1, MeetingParts DEF OneInv
<1>6. \A x \in CPUs : Untouched(pl, pl[c], q, x)
  <2>1. \A x \in CPUs : Loading(q, x) <=> Loading(pl[c], x)
    BY <1>1, <1>2, ServiceNext DEF Loading, CPUs
  <2>2. QED
    BY <2>1, ScheduleDoes DEF Untouched
<1>7. q.s \in HandlerStages
  BY <1>1, <1>2, ServiceNext
<1>8. Meeting(pl2)'
  BY <1>1, <1>2, <1>3, <1>4, <1>5, <1>6, <1>7, ScheduleDoes, HandlerFrame
<1>9. QED
  BY <1>2, <1>8 DEF Keeps

\* The AP that the BSP has come to in the loop of a service.
LEMMA ServedAp ==
  ASSUME NEW pl, Meeting(pl), NEW c \in CPUs, pl[c].s \in ServiceStages \ {"wrap"}
  PROVE  /\ pl[c].s \in OneStages => pl[c].i # c /\ pl[pl[c].i].s \in LoopStages
         /\ pl[c].i # c => (cpu[pl[c].i].present <=> pl[pl[c].i].s \in LoopStages)
         /\ IsPresentAp(c, pl[c].i) <=> pl[c].i # c /\ pl[pl[c].i].s \in LoopStages
         /\ pl[c].i # c /\ pl[pl[c].i].s \in LoopStages =>
              /\ LoopOK(pl, pl[c], pl[c].i) /\ Left(pl[c], pl[c].i) = LoopK(config)
              /\ ~Quiet(config, pl[c], pl[c].i) /\ LoopK(config) \in Int
<1>1. pl[c].i \in CPUs /\ pl[c].s \in HandlerStages
  BY ServiceNext DEF HandlerStages
<1>2. pl[c].s \in OneStages => pl[c].i # c /\ pl[pl[c].i].s \in LoopStages
  BY MeetingParts DEF OneInv
<1>3. pl[c].i # c => (cpu[pl[c].i].present <=> pl[pl[c].i].s \in LoopStages)
  BY <1>1, HandlerSees
<1>4. pl[c].i # c /\ pl[pl[c].i].s \in LoopStages =>
              /\ LoopOK(pl, pl[c], pl[c].i) /\ Left(pl[c], pl[c].i) = LoopK(config)
              /\ ~Quiet(config, pl[c], pl[c].i) /\ LoopK(config) \in Int
  BY <1>1, HandlerSees
<1>5. QED
  BY <1>2, <1>3, <1>4 DEF IsPresentAp

\* A step of a service that leads from the AP it is about to the next one.
LEMMA ServiceFrame ==
  ASSUME NEW pl, Meeting(pl), NEW c \in CPUs, pl[c].s \in ServiceStages \ {"wrap"}, NEW q, NEW pl2,
         q = Succ(config, pl[c]), Moves(pl, c, q, pl2), Placed(pl2)', Types',
         \A x \in CPUs : x # c /\ x # pl[c].i => cpu'[x] = cpu[x],
         \A x \in CPUs : cpu'[x].present = cpu[x].present, cpu'[c].run = cpu[c].run,
         \/ \A x \in CPUs : cpu'[x].run = cpu[x].run /\ cpu'[x].busy = cpu[x].busy
         \/ pl[c].i # c /\ pl[pl[c].i].s \in LoopStages,
         pl[c].i # c /\ pl[pl[c].i].s \in LoopStages => LoopOK(pl2, q, pl[c].i)',
         counter' = counter, bspIndex' = bspIndex, config' = config, inside' = inside,
         local' = local, platform' = platform
  PROVE  Meeting(pl2)'
<1>1. pl[c].i \in CPUs /\ q.s \in HandlerStages /\ pl[c].s \in HandlerStages
  BY ServiceNext DEF HandlerStages
<1>2. q.s \in OneStages => q.i \in CPUs \ {c} /\ pl[q.i].s \in LoopStages
  <2>1. q.s \in OneStages => pl[c].s \in OneStages /\ q.i = pl[c].i
    <3>1. pl[c].s \in {"acquire", "schedule", "release_run", "wait_one", "acquire_present",
                       "schedule_present", "bcast", "wait_all"}
      BY DEF ServiceStages, OneStages, AllStages
    <3>2. QED
      BY <3>1, ServiceNext DEF OneStages
  <2>2. QED
    BY <1>1, <2>1, ServedAp
<1>3. \A x \in CPUs : x # pl[c].i => (Loading(q, x) <=> Loading(pl[c], x))
  <2>1. pl[c].s \in {"acquire", "schedule", "release_run", "wait_one", "acquire_present",
                     "schedule_present", "bcast", "wait_all"}
    BY DEF ServiceStages, OneStages, AllStages
  <2>2. QED
    BY <2>1, ServiceNext DEF Loading, CPUs
<1>4. ASSUME NEW x \in CPUs, x # c
      PROVE  Untouched(pl, pl[c], q, x) \/ (pl[x].s \in LoopStages /\ LoopOK(pl2, q, x)')
  BY <1>1, <1>3, <1>4 DEF Untouched
<1>5. QED
  BY <1>1, <1>2, <1>4, HandlerFrame

\* The BSP takes Busy of an AP.
LEMMA AcquireBusyKeeps ==
  ASSUME NEW pl, Meeting(pl), NEW c \in CPUs, AcquireBusy(c)
  PROVE  Keeps(pl, c, Succ(config, pl[c]))
<1>1. /\ pl[c].s \in {"acquire", "acquire_present"} /\ InSmm(c) /\ Types
         /\ pl[c].s \in ServiceStages \ {"wrap"}
  BY StageOf, MeetingParts DEF AcquireBusy, ServiceStages, OneStages, AllStages
<1>2. PICK q, pl2 : q \in Place /\ q = Succ(config, pl[c]) /\ Moves(pl, c, q, pl2) /\ Placed(pl2)'
  BY <1>1, MeetingParts, DonePlace DEF Goes, AcquireBusy
<1>3. PICK i : i = pl[c].i
  OBVIOUS
<1>4. i \in CPUs /\ Index(c) = i /\ (At(c, "acquire") <=> pl[c].s = "acquire")
  BY <1>1, <1>3, ServiceNext, StageOf
<1>5. /\ counter' = counter /\ bspIndex' = bspIndex /\ config' = config /\ inside' = inside
      /\ local' = local /\ platform' = platform /\ allInSync' = allInSync /\ calls' = calls
  BY DEF AcquireBusy
<1>6. /\ cpu' \in CpuData /\ \A x \in CPUs : x # i => cpu'[x] = cpu[x]
      /\ \A x \in CPUs : cpu'[x].present = cpu[x].present /\ cpu'[x].run = cpu[x].run
      /\ IsPresentAp(c, i) => ~cpu[i].busy /\ cpu'[i].busy
      /\ ~IsPresentAp(c, i) => cpu' = cpu
      /\ IsPresentAp(c, i) <=> i # c /\ pl[i].s \in LoopStages
  <2>1. pl[c].s = "acquire" => IsPresentAp(c, i)
    BY <1>1, <1>3, ServedAp DEF OneStages
  <2>0. IsPresentAp(c, i) <=> i # c /\ pl[i].s \in LoopStages
    BY <1>1, <1>3, ServedAp
  <2>2. CASE IsPresentAp(c, i)
    <3>1. ~cpu[i].busy /\ SetData(i, "busy", TRUE)
      BY <1>4, <2>2 DEF AcquireBusy
    <3>2. QED
      BY <1>1, <1>4, <2>0, <2>2, <3>1, SetBusy DEF Others
  <2>3. CASE ~IsPresentAp(c, i)
    <3>1. cpu' = cpu
      BY <1>4, <2>1, <2>3 DEF AcquireBusy
    <3>2. QED
      BY <1>1, <2>0, <2>3, <3>1 DEF Types
  <2>4. QED
    BY <2>2, <2>3
<1>7. Types'
  BY <1>1, <1>5, <1>6 DEF Types, Others
<1>8. i # c /\ pl[i].s \in LoopStages => LoopOK(pl2, q, i)'
  <2> SUFFICES ASSUME i # c, pl[i].s \in LoopStages PROVE LoopOK(pl2, q, i)'
    OBVIOUS
  <2>1. /\ LoopOK(pl, pl[c], i) /\ Left(pl[c], i) = LoopK(config) /\ LoopK(config) \in Int
        /\ pl2[i] = pl[i] /\ IsPresentAp(c, i)
    BY <1>1, <1>2, <1>3, <1>4, ServedAp DEF Moves
  <2>2. Left(q, i) = LoopK(config) /\ ~Quiet(config, q, i)
    <3>1. q.s \in HandlerStages /\ Valid(config, q) /\ config \in Configs
      BY <1>1, <1>2, <1>5, ServiceNext, MeetingParts DEF Placed, Moves
    <3>2. q.k = LoopK(config)
      BY <3>1 DEF Valid, HandlerStages
    <3>3. QED
      BY <2>1, <3>1, <3>2 DEF Left, Quiet, HandlerStages, ServiceStages, OneStages, AllStages
  <2>3. Loading(q, i)
    BY <1>1, <1>2, <1>3, <1>4, ServiceNext DEF Loading, CPUs
  <2>4. ~cpu[i].busy /\ cpu'[i].busy /\ cpu'[i].run = cpu[i].run
    BY <1>4, <1>6, <2>1
  <2>5. QED
    BY <1>5, <2>1, <2>2, <2>3, <2>4 DEF LoopOK
<1>9. Meeting(pl2)'
  BY <1>1, <1>2, <1>3, <1>5, <1>6, <1>7, <1>8, ServiceFrame DEF Others
<1>10. QED
  BY <1>2, <1>9 DEF Keeps

\* The BSP releases Run of the AP it has given a procedure.
LEMMA ReleaseRunKeeps ==
  ASSUME NEW pl, Meeting(pl), NEW c \in CPUs, ReleaseRun(c)
  PROVE  Keeps(pl, c, Succ(config, pl[c]))
<1>1. /\ pl[c].s \in {"release_run"} /\ InSmm(c) /\ Types /\ pl[c].s \in ServiceStages \ {"wrap"}
  BY StageOf, MeetingParts DEF ReleaseRun, ServiceStages, OneStages, AllStages
<1>2. PICK q, pl2 : q \in Place /\ q = Succ(config, pl[c]) /\ Moves(pl, c, q, pl2) /\ Placed(pl2)'
  BY <1>1, MeetingParts, DonePlace DEF Goes, ReleaseRun
<1>3. PICK i : i = pl[c].i
  OBVIOUS
<1>4. i \in CPUs /\ Index(c) = i /\ (At(c, "acquire") <=> pl[c].s = "acquire")
  BY <1>1, <1>3, ServiceNext, StageOf
<1>5. /\ counter' = counter /\ bspIndex' = bspIndex /\ config' = config /\ inside' = inside
      /\ local' = local /\ platform' = platform /\ allInSync' = allInSync /\ calls' = calls
  BY DEF ReleaseRun
<1>6. /\ cpu' \in CpuData /\ \A x \in CPUs : x # i => cpu'[x] = cpu[x]
      /\ \A x \in CPUs : cpu'[x].present = cpu[x].present /\ cpu'[x].busy = cpu[x].busy
      /\ i # c /\ pl[i].s \in LoopStages /\ cpu'[i].run = 1 /\ cpu[i].busy /\ pl[i].s = "idle"
  <2>1. /\ i # c /\ pl[i].s \in LoopStages => cpu[i].run = 0 /\ cpu[i].busy /\ pl[i].s = "idle"
    <3> SUFFICES ASSUME i # c, pl[i].s \in LoopStages PROVE cpu[i].run = 0 /\ cpu[i].busy
        /\ pl[i].s = "idle"
      OBVIOUS
    <3>1. LoopOK(pl, pl[c], i) /\ Left(pl[c], i) = LoopK(config) /\ LoopK(config) \in Int
      BY <1>1, <1>3, ServedAp
    <3>2. Loading(pl[c], i)
      BY <1>1, <1>3, <1>4 DEF Loading, CPUs
    <3>3. QED
      BY <3>1, <3>2 DEF LoopOK
  <2>2. IsPresentAp(c, i) <=> i # c /\ pl[i].s \in LoopStages
    BY <1>1, <1>3, ServedAp
  <2>3. i # c /\ pl[i].s \in LoopStages
    BY <1>1, <1>3, ServedAp DEF OneStages
  <2>4. SetData(i, "run", ReleaseSemaphore(cpu[i].run))
    BY <1>4 DEF ReleaseRun
  <2>5. ReleaseSemaphore(cpu[i].run) = 1
    BY <2>1, <2>3 DEF ReleaseSemaphore, LOCKED
  <2>6. QED
    BY <1>1, <1>4, <2>1, <2>3, <2>4, <2>5, SetRun DEF Others
<1>7. Types'
  BY <1>1, <1>5, <1>6 DEF Types, Others
<1>8. i # c /\ pl[i].s \in LoopStages => LoopOK(pl2, q, i)'
  <2> SUFFICES ASSUME i # c, pl[i].s \in LoopStages PROVE LoopOK(pl2, q, i)'
    OBVIOUS
  <2>1. /\ LoopOK(pl, pl[c], i) /\ Left(pl[c], i) = LoopK(config) /\ LoopK(config) \in Int
        /\ pl2[i] = pl[i] /\ IsPresentAp(c, i)
    BY <1>1, <1>2, <1>3, <1>4, ServedAp DEF Moves
  <2>2. Left(q, i) = LoopK(config) /\ ~Quiet(config, q, i)
    <3>1. q.s \in HandlerStages /\ Valid(config, q) /\ config \in Configs
      BY <1>1, <1>2, <1>5, ServiceNext, MeetingParts DEF Placed, Moves
    <3>2. q.k = LoopK(config)
      BY <3>1 DEF Valid, HandlerStages
    <3>3. QED
      BY <2>1, <3>1, <3>2 DEF Left, Quiet, HandlerStages, ServiceStages, OneStages, AllStages
  <2>3. ~Loading(q, i)
    BY <1>1, <1>2, <1>3, <1>4, ServiceNext DEF Loading, CPUs
  <2>4. QED
    BY <1>4, <1>5, <1>6, <2>1, <2>2, <2>3 DEF LoopOK
<1>9. Meeting(pl2)'
  BY <1>1, <1>2, <1>3, <1>5, <1>6, <1>7, <1>8, ServiceFrame DEF Others
<1>10. QED
  BY <1>2, <1>9 DEF Keeps

\* InternalSmmStartupAllAPs releases Run of every present AP.
LEMMA BcastApKeeps ==
  ASSUME NEW pl, Meeting(pl), NEW c \in CPUs, ReleaseAp(c), pl[c].s = "bcast"
  PROVE  Keeps(pl, c, Succ(config, pl[c]))
<1>1. /\ pl[c].s \in {"bcast"} /\ InSmm(c) /\ Types /\ pl[c].s \in ServiceStages \ {"wrap"}
  BY StageOf, MeetingParts DEF ReleaseAp, ServiceStages, OneStages, AllStages
<1>2. PICK q, pl2 : q \in Place /\ q = Succ(config, pl[c]) /\ Moves(pl, c, q, pl2) /\ Placed(pl2)'
  BY <1>1, MeetingParts, DonePlace DEF Goes, ReleaseAp
<1>3. PICK i : i = pl[c].i
  OBVIOUS
<1>4. i \in CPUs /\ Index(c) = i /\ (At(c, "acquire") <=> pl[c].s = "acquire")
  BY <1>1, <1>3, ServiceNext, StageOf
<1>5. /\ counter' = counter /\ bspIndex' = bspIndex /\ config' = config /\ inside' = inside
      /\ local' = local /\ platform' = platform /\ allInSync' = allInSync /\ calls' = calls
  BY DEF ReleaseAp
<1>6. /\ cpu' \in CpuData /\ \A x \in CPUs : x # i => cpu'[x] = cpu[x]
      /\ \A x \in CPUs : cpu'[x].present = cpu[x].present /\ cpu'[x].busy = cpu[x].busy
      /\ IsPresentAp(c, i) => i # c /\ cpu'[i].run = 1 /\ cpu[i].busy /\ pl[i].s = "idle"
      /\ ~IsPresentAp(c, i) => cpu' = cpu
      /\ IsPresentAp(c, i) <=> i # c /\ pl[i].s \in LoopStages
  <2>1. /\ i # c /\ pl[i].s \in LoopStages => cpu[i].run = 0 /\ cpu[i].busy /\ pl[i].s = "idle"
    <3> SUFFICES ASSUME i # c, pl[i].s \in LoopStages PROVE cpu[i].run = 0 /\ cpu[i].busy
        /\ pl[i].s = "idle"
      OBVIOUS
    <3>1. LoopOK(pl, pl[c], i) /\ Left(pl[c], i) = LoopK(config) /\ LoopK(config) \in Int
      BY <1>1, <1>3, ServedAp
    <3>2. Loading(pl[c], i)
      BY <1>1, <1>3, <1>4 DEF Loading, CPUs
    <3>3. QED
      BY <3>1, <3>2 DEF LoopOK
  <2>2. IsPresentAp(c, i) <=> i # c /\ pl[i].s \in LoopStages
    BY <1>1, <1>3, ServedAp
  <2>3. CASE IsPresentAp(c, i)
    <3>1. SetData(i, "run", ReleaseSemaphore(cpu[i].run))
      BY <1>4, <2>3 DEF ReleaseAp
    <3>2. ReleaseSemaphore(cpu[i].run) = 1
      BY <2>1, <2>2, <2>3 DEF ReleaseSemaphore, LOCKED
    <3>3. QED
      BY <1>1, <1>4, <2>1, <2>2, <2>3, <3>1, <3>2, SetRun DEF Others
  <2>4. CASE ~IsPresentAp(c, i)
    <3>1. cpu' = cpu
      BY <1>4, <2>4 DEF ReleaseAp
    <3>2. QED
      BY <1>1, <2>2, <2>4, <3>1 DEF Types
  <2>5. QED
    BY <2>3, <2>4
<1>7. Types'
  BY <1>1, <1>5, <1>6 DEF Types, Others
<1>8. i # c /\ pl[i].s \in LoopStages => LoopOK(pl2, q, i)'
  <2> SUFFICES ASSUME i # c, pl[i].s \in LoopStages PROVE LoopOK(pl2, q, i)'
    OBVIOUS
  <2>1. /\ LoopOK(pl, pl[c], i) /\ Left(pl[c], i) = LoopK(config) /\ LoopK(config) \in Int
        /\ pl2[i] = pl[i] /\ IsPresentAp(c, i)
    BY <1>1, <1>2, <1>3, <1>4, ServedAp DEF Moves
  <2>2. Left(q, i) = LoopK(config) /\ ~Quiet(config, q, i)
    <3>1. q.s \in HandlerStages /\ Valid(config, q) /\ config \in Configs
      BY <1>1, <1>2, <1>5, ServiceNext, MeetingParts DEF Placed, Moves
    <3>2. q.k = LoopK(config)
      BY <3>1 DEF Valid, HandlerStages
    <3>3. QED
      BY <2>1, <3>1, <3>2 DEF Left, Quiet, HandlerStages, ServiceStages, OneStages, AllStages
  <2>3. ~Loading(q, i)
    BY <1>1, <1>2, <1>3, <1>4, ServiceNext DEF Loading, CPUs
  <2>4. QED
    BY <1>4, <1>5, <1>6, <2>1, <2>2, <2>3 DEF LoopOK
<1>9. Meeting(pl2)'
  BY <1>1, <1>2, <1>3, <1>5, <1>6, <1>7, <1>8, ServiceFrame DEF Others
<1>10. QED
  BY <1>2, <1>9 DEF Keeps

\* A blocking service waits for the Busy of its APs.
LEMMA WaitOneKeeps ==
  ASSUME NEW pl, Meeting(pl), NEW c \in CPUs, WaitNotBusy(c), pl[c].s \in ServiceStages
  PROVE  Keeps(pl, c, Succ(config, pl[c]))
<1>1. /\ pl[c].s \in {"wait_one", "wait_all"} /\ InSmm(c) /\ Types
         /\ pl[c].s \in ServiceStages \ {"wrap"}
  BY StageOf, MeetingParts DEF WaitNotBusy, ServiceStages, OneStages, AllStages
<1>2. PICK q, pl2 : q \in Place /\ q = Succ(config, pl[c]) /\ Moves(pl, c, q, pl2) /\ Placed(pl2)'
  BY <1>1, MeetingParts, DonePlace DEF Goes, WaitNotBusy
<1>3. PICK i : i = pl[c].i
  OBVIOUS
<1>4. i \in CPUs /\ Index(c) = i /\ (At(c, "acquire") <=> pl[c].s = "acquire")
  BY <1>1, <1>3, ServiceNext, StageOf
<1>5. /\ counter' = counter /\ bspIndex' = bspIndex /\ config' = config /\ inside' = inside
      /\ local' = local /\ platform' = platform /\ allInSync' = allInSync /\ calls' = calls
  BY DEF WaitNotBusy
<1>6. cpu' = cpu
  BY DEF WaitNotBusy
<1>7. Types'
  BY <1>1, <1>5, <1>6 DEF Types, Others
<1>8. i # c /\ pl[i].s \in LoopStages => LoopOK(pl2, q, i)'
  <2> SUFFICES ASSUME i # c, pl[i].s \in LoopStages PROVE LoopOK(pl2, q, i)'
    OBVIOUS
  <2>1. /\ LoopOK(pl, pl[c], i) /\ Left(pl[c], i) = LoopK(config) /\ LoopK(config) \in Int
        /\ pl2[i] = pl[i] /\ IsPresentAp(c, i)
    BY <1>1, <1>2, <1>3, <1>4, ServedAp DEF Moves
  <2>2. Left(q, i) = LoopK(config) /\ ~Quiet(config, q, i)
    <3>1. q.s \in HandlerStages /\ Valid(config, q) /\ config \in Configs
      BY <1>1, <1>2, <1>5, ServiceNext, MeetingParts DEF Placed, Moves
    <3>2. q.k = LoopK(config)
      BY <3>1 DEF Valid, HandlerStages
    <3>3. QED
      BY <2>1, <3>1, <3>2 DEF Left, Quiet, HandlerStages, ServiceStages, OneStages, AllStages
  <2>3. Loading(q, i) <=> Loading(pl[c], i)
    BY <1>1, <1>2, <1>3, <1>4, ServiceNext DEF Loading, CPUs
  <2>4. QED
    BY <1>4, <1>5, <1>6, <2>1, <2>2, <2>3 DEF LoopOK
<1>9. Meeting(pl2)'
  BY <1>1, <1>2, <1>3, <1>5, <1>6, <1>7, <1>8, ServiceFrame DEF Others
<1>10. QED
  BY <1>2, <1>9 DEF Keeps

\* The BSP waits, after the SMI handlers, for the Busy of every present AP.
LEMMA NotBusyKeeps ==
  ASSUME NEW pl, Meeting(pl), NEW c \in CPUs, WaitNotBusy(c), pl[c].s = "not_busy"
  PROVE  Keeps(pl, c, Succ(config, pl[c]))
<1>1. InSmm(c) /\ Types /\ config \in Configs /\ pl[c] \in Place /\ Valid(config, pl[c])
  BY StageOf, MeetingParts DEF WaitNotBusy
<1>2. PICK q, pl2 : q \in Place /\ q = Succ(config, pl[c]) /\ Moves(pl, c, q, pl2) /\ Placed(pl2)'
  BY <1>1, MeetingParts, DonePlace DEF Goes, WaitNotBusy
<1>3. PICK i : i = pl[c].i
  OBVIOUS
<1>4. /\ i \in CPUs /\ Index(c) = i /\ i \in Int /\ N \in Int /\ i <= N
      /\ ~(IsPresentAp(c, i) /\ cpu[i].busy) /\ pl[c].k = LoopK(config)
  <2>1. i \in CPUs /\ Index(c) = i /\ pl[c].k = LoopK(config)
    BY <1>1, <1>3, StageOf DEF Valid
  <2>2. QED
    BY <2>1, SmmAssumption DEF WaitNotBusy, CPUs
<1>5. /\ counter' = counter /\ bspIndex' = bspIndex /\ config' = config /\ inside' = inside
      /\ local' = local /\ platform' = platform /\ allInSync' = allInSync /\ calls' = calls
         /\ cpu' = cpu
  BY DEF WaitNotBusy
<1>6. \/ q.s = "not_busy" /\ q.k = LoopK(config) /\ q.i = i + 1 /\ i < N
      \/ q.s = "outside" /\ q.k = LoopK(config) /\ i = N /\ Gathers(config)
      \/ q.s = "sync" /\ q.k = LoopK(config) /\ i = N
  BY <1>1, <1>2, <1>3, <1>4, Numbers DEF Succ, BspSucc, OutStages, PreStages, ApStages, LoopStages,
     OneStages,
                                AllStages, ServiceStages, P
<1>7. Steady(config, pl[c], q)
  BY <1>1, <1>2, <1>4, <1>6, SteadyIs, Numbers DEF BspStages
<1>8. Types'
  BY <1>1, <1>5 DEF Types
<1>9. CpusInv(pl2)'
  BY <1>1, <1>2, <1>5, CpusFrame
<1>10. pl2[c] = q /\ \A x \in CPUs : x # c => pl2[x] = pl[x]
  BY <1>2 DEF Moves
<1>11. bspIndex = c /\ IsAtBsp(pl[c])
  BY <1>7, BspFacts DEF Steady
<1>12. \A x \in CPUs : ~Loading(q, x) /\ ~Loading(pl[c], x)
  BY <1>6 DEF Loading
<1>13. ASSUME NEW x \in CPUs, x # c PROVE SameFor(pl, pl[c], q, x) \/ RunOK(pl2, x)'
  <2>1. CASE x # i
    <3>1. Quiet(config, q, x) => Quiet(config, pl[c], x)
      BY <1>1, <1>3, <1>4, <1>6, <2>1, Numbers DEF Quiet, CPUs
    <3>2. QED
      BY <1>5, <1>12, <3>1 DEF SameFor
  <2>2. CASE x = i /\ pl[x].s \notin LoopStages
    BY <1>5, <2>2 DEF SameFor
  <2>3. CASE x = i /\ pl[x].s \in LoopStages
    <3>1. ~cpu[x].busy
      BY <1>4, <1>11, <1>13, <2>3, PresentInLoop DEF IsPresentAp
    <3>2. LoopOK(pl, pl[c], x) /\ Left(pl[c], x) = LoopK(config)
      BY <1>4, <1>11, <2>3, MeetingParts DEF RunInv, RunOK, Left
    <3>3. Left(q, x) = LoopK(config)
      BY <1>6 DEF Left
    <3>4. LoopOK(pl2, q, x)'
      BY <1>5, <1>10, <1>12, <1>13, <3>1, <3>2, <3>3 DEF LoopOK
    <3>5. pl2[x] = pl[x] /\ IsAp(pl[x]) /\ ~IsPre(pl[x]) /\ ~IsOut(pl[x])
      BY <1>10, <1>13, <2>3, MeetingParts, Kinds
    <3>6. QED
      BY <1>5, <1>10, <1>11, <2>3, <3>4, <3>5 DEF RunOK
  <2>4. QED
    BY <2>1, <2>2, <2>3
<1>14. Meeting(pl2)'
  <2>1. q.s \notin OneStages
    BY <1>6 DEF OneStages
  <2>2. QED
    BY <1>2, <1>5, <1>7, <1>8, <1>9, <1>13, <2>1, SteadyFrame
<1>15. QED
  BY <1>2, <1>14 DEF Keeps

-----------------------------------------------------------------------------
(***************************************************************************)
(* The rounds of BSP and APs.                                              *)
(***************************************************************************)
\* An AP the BSP has as many handshakes left with as before.
LEMMA SameForRun ==
  ASSUME NEW pl, Meeting(pl), NEW c \in CPUs, NEW q, NEW pl2, Moves(pl, c, q, pl2),
         IsAtBsp(pl[c]), pl[c].s # "reset_counter", bspIndex' = bspIndex, config' = config,
         NEW x \in CPUs, x # c, Left(q, x) = Left(pl[c], x), SameFor(pl, pl[c], q, x)
  PROVE  RunOK(pl2, x)'
<1>1. pl2[x] = pl[x] /\ pl2[c] = q /\ RunOK(pl, x) /\ bspIndex = c
  BY MeetingParts, BspFacts DEF RunInv, Moves
<1>2. cpu'[x].run = cpu[x].run /\ cpu'[x].busy = cpu[x].busy
  BY DEF SameFor
<1>3. pl[x].s \in LoopStages => LoopOK(pl2, q, x)'
  <2>1. pl[x].s \in LoopStages => LoopOK(pl, pl[c], x)
    BY <1>1 DEF RunOK
  <2>2. QED
    BY <1>1, <1>2, <2>1 DEF LoopOK, SameFor
<1>4. QED
  BY <1>1, <1>2, <1>3 DEF RunOK

\* The BSP moves to another round of handshakes: what is left to show.
LEMMA RoundFrame ==
  ASSUME NEW pl, Meeting(pl), NEW c \in CPUs, NEW q, NEW pl2, Moves(pl, c, q, pl2), Placed(pl2)',
         IsAtBsp(pl[c]), pl[c].s # "reset_counter", IsAtBsp(q), q.s # "reset_counter",
         AllArrived(pl) \/ Arriving(config, q),
         Types', CpusInv(pl2)', InsideAt(config, q) <=> InsideAt(config, pl[c]),
         IF Locked(config, q) THEN counter' = LOCKED ELSE counter' = Cardinality(Counted(pl)),
         counter' = counter \/ \A x \in CPUs : pl[x].s \notin {"ask_bsp", "give_up"},
         \A x \in CPUs : IsAp(pl[x]) => PairOK(pl2, q, x)',
         \A x \in CPUs : x # c => RunOK(pl2, x)',
         q.k = 0 => Aps(pl) = {} /\ cpu'[c].run = 0,
         q.k # 0 /\ Final(q) => local'[c].apCount = Cardinality(Aps(pl)) + cpu'[c].run,
         q.k # 0 /\ ~Final(q) => cpu'[c].run = Cardinality(Signalled(pl, q)),
         q.k # 0 /\ ~Final(q) /\ Locked(config, q) => local'[c].apCount = Cardinality(Aps(pl)),
         \A x \in CPUs : cpu'[x].present = cpu[x].present, PresentAt(q) <=> PresentAt(pl[c]),
         q.s \notin OneStages, bspIndex' = bspIndex, config' = config, inside' = inside
  PROVE  Meeting(pl2)'
<1>1. /\ pl \in [CPUs -> Place] /\ pl2 \in [CPUs -> Place] /\ pl2[c] = q /\ q \in Place
      /\ \A x \in CPUs : x # c => pl2[x] = pl[x]
  BY MeetingParts DEF Moves
<1>2. \A x \in CPUs : /\ IsPre(pl2[x]) <=> IsPre(pl[x])
                      /\ IsAp(pl2[x]) <=> IsAp(pl[x])
                      /\ IsAtBsp(pl2[x]) <=> IsAtBsp(pl[x])
                      /\ IsOut(pl2[x]) <=> IsOut(pl[x])
  BY <1>1, Kinds
<1>3. ~IsPre(q) /\ ~IsAp(q) /\ ~IsOut(q) /\ q.s \notin LoopStages /\ q.s \notin {"ask_bsp", "give_up"}
      /\ ~IsPre(pl[c]) /\ ~IsAp(pl[c])
  BY <1>1, Kinds
<1>4. Counted(pl2) = Counted(pl) /\ Aps(pl2) = Aps(pl)
  BY <1>1, <1>2 DEF Counted, Aps
<1>5. \A z : Signalled(pl2, z) = Signalled(pl, z)
  BY <1>1, <1>2, <1>3 DEF Signalled
<1>6. bspIndex = c /\ c # NoBsp /\ (\A x \in CPUs : IsAtBsp(pl[x]) => x = c)
      /\ (inside <=> InsideAt(config, pl[c]))
  BY BspFacts
<1>7. IndexInv(pl2)'
  BY <1>1, <1>2, <1>6, MeetingParts DEF IndexInv
<1>8. InsideInv(pl2)'
  BY <1>1, <1>6 DEF InsideInv
<1>9. CounterInv(pl2)'
  BY <1>1, <1>2, <1>4, <1>6 DEF CounterInv
<1>10. LateInv(pl2)'
  BY <1>1, <1>3, MeetingParts DEF LateInv
<1>11. ArriveInv(pl2)'
  BY <1>1, <1>2, <1>6 DEF ArriveInv, AllArrived
<1>12. PairInv(pl2)'
  BY <1>1, <1>2, <1>6 DEF PairInv
<1>13. RunInv(pl2)'
  <2>1. RunOK(pl2, c)'
    BY <1>1, <1>3 DEF RunOK
  <2>2. QED
    BY <2>1 DEF RunInv
<1>14. GatherInv(pl2)'
  BY <1>1, <1>2, <1>4, <1>5, <1>6 DEF GatherInv
<1>15. PresentInv(pl2)'
  BY <1>1, MeetingParts DEF PresentInv
<1>16. OneInv(pl2)'
  <2>1. \A x \in CPUs : pl2[x].s \notin OneStages
    BY <1>1, <1>2, <1>6, Kinds
  <2>2. QED
    BY <2>1 DEF OneInv
<1>17. QED
  BY <1>7, <1>8, <1>9, <1>10, <1>11, <1>12, <1>13, <1>14, <1>15, <1>16 DEF Meeting

\* The counter counts the BSP and those that wait for it.
LEMMA LockedCount ==
  ASSUME NEW pl, Meeting(pl), NEW c \in CPUs, IsAtBsp(pl[c]), pl[c].s # "reset_counter"
  PROVE  Cardinality(Counted(pl)) = Cardinality(Aps(pl)) + 1
<1>1. Counted(pl) = Aps(pl) \cup {c}
  <2> SUFFICES ASSUME NEW x \in CPUs PROVE ~IsOut(pl[x]) <=> (IsPre(pl[x]) \/ IsAp(pl[x]) \/ x = c)
    BY DEF Counted, Aps
  <2>1. pl[x] \in Place
    BY MeetingParts
  <2>2. IsAtBsp(pl[x]) <=> x = c
    BY BspFacts
  <2>3. QED
    BY <2>1, <2>2, Kinds
<1>2. c \notin Aps(pl)
  BY MeetingParts, Kinds DEF Aps
<1>3. QED
  BY <1>1, <1>2, CountedFinite, FS_AddElement

\* LockdownSemaphore: Counter tells the BSP how many APs it has to gather.  That nobody is about to
\* take itself off Counter then is what Timely is for.
LEMMA LockdownKeeps ==
  ASSUME Timely, NEW pl, Meeting(pl), NEW c \in CPUs, LockdownSemaphore(c)
  PROVE  Keeps(pl, c, Succ(config, pl[c]))
<1>1. pl[c].s = "lockdown" /\ InSmm(c) /\ Types /\ config \in Configs /\ pl[c] \in Place
      /\ Valid(config, pl[c])
  BY StageOf, MeetingParts DEF LockdownSemaphore
<1>2. PICK q, pl2 : q \in Place /\ q = Succ(config, pl[c]) /\ Moves(pl, c, q, pl2) /\ Placed(pl2)'
  BY <1>1, MeetingParts, DonePlace DEF Goes, LockdownSemaphore
<1>3. \/ q.s = "gather" /\ q.k = TopK(config) /\ Gathers(config)
      \/ q.s = "all_present" /\ q.k = TopK(config) /\ ~Gathers(config)
  BY <1>1, <1>2, Numbers DEF Succ, BspSucc, OutStages, PreStages, ApStages, LoopStages, OneStages,
                    AllStages, ServiceStages, P
<1>4. /\ IsAtBsp(pl[c]) /\ IsAtBsp(q) /\ ~IsAp(pl[c]) /\ ~IsAp(q) /\ q.s \notin OneStages
      /\ pl[c].s # "reset_counter" /\ q.s # "reset_counter"
  <2>1. IsAtBsp(pl[c]) /\ IsAtBsp(q) /\ q.s \notin OneStages
    BY <1>1, <1>3 DEF IsAtBsp, BspStages, OneStages
  <2>2. QED
    BY <1>1, <1>2, <1>3, <2>1, Kinds
<1>5. /\ pl[c].k = q.k /\ (\A x \in CPUs : Left(q, x) = Left(pl[c], x)) /\ q.k # 0
      /\ ~Locked(config, pl[c]) /\ Locked(config, q) /\ ~Final(q) /\ ~Final(pl[c])
      /\ Arriving(config, q) /\ (InsideAt(config, q) <=> InsideAt(config, pl[c]))
  <2>1. pl[c].k = TopK(config)
    BY <1>1 DEF Valid
  <2>2. QED
    BY <1>1, <1>3, <2>1, Numbers DEF Left, Locked, Final, Arriving, InsideAt
<1>6. PresentAt(q) <=> PresentAt(pl[c])
  BY <1>1, <1>3, <1>4, <1>5, Numbers DEF PresentAt
<1>7. /\ counter' = LOCKED /\ bspIndex' = bspIndex /\ config' = config /\ inside' = inside
      /\ cpu' = cpu /\ platform' = platform /\ calls' = calls /\ allInSync' = allInSync
      /\ local' = [local EXCEPT ![c].apCount = counter - 1]
      /\ \A x \in CPUs : ~(At(x, "ask_bsp") \/ At(x, "give_up"))
  BY DEF LockdownSemaphore
<1>8. counter = Cardinality(Aps(pl)) + 1
  <2>1. counter = Cardinality(Counted(pl))
    BY <1>5, <1>4, BspFacts, MeetingParts DEF CounterInv
  <2>2. QED
    BY <1>4, <2>1, LockedCount
<1>9. /\ Types' /\ local'[c].apCount = Cardinality(Aps(pl))
      /\ \A x \in CPUs : local'[x].bsp = local[x].bsp
  <2>1. counter - 1 = Cardinality(Aps(pl)) /\ Cardinality(Aps(pl)) \in 0 .. N
    BY <1>8, CountedFinite
  <2>2. PICK m : m = Cardinality(Aps(pl))
    OBVIOUS
  <2>3. local' = [local EXCEPT ![c].apCount = m] /\ m \in -1 .. N
    <3>1. counter - 1 = m
      BY <2>1, <2>2
    <3>2. m \in -1 .. N
      BY <2>1, <2>2, SmmAssumption
    <3>3. QED
      BY <1>7, <3>1, <3>2
  <2>4. local' \in LocalData /\ local'[c].apCount = m /\ \A x \in CPUs : local'[x].bsp = local[x].bsp
    BY <1>1, <2>3 DEF Types, LocalData
  <2>5. QED
    BY <1>1, <1>7, <2>2, <2>4, SmmAssumption DEF Types, LOCKED
<1>10. CpusInv(pl2)'
  BY <1>1, <1>2, <1>7, CpusFrame
<1>11. \A x \in CPUs : pl[x].s \notin {"ask_bsp", "give_up"}
  BY <1>7, StageOf DEF ApOps
<1>12. ASSUME NEW x \in CPUs, IsAp(pl[x]) PROVE PairOK(pl2, q, x)'
  <2>1. x # c /\ pl2[x] = pl[x] /\ PairOK(pl, pl[c], x)
    BY <1>2, <1>4, <1>12, MeetingParts, BspFacts DEF Moves, PairInv
  <2>2. q.s # "inside"
    BY <1>3
  <2>3. QED
    BY <1>4, <1>5, <1>7, <1>9, <2>1, <2>2 DEF PairOK
<1>13. ASSUME NEW x \in CPUs, x # c PROVE RunOK(pl2, x)'
  <2>1. ~Loading(q, x) /\ ~Loading(pl[c], x) /\ (Quiet(config, q, x) => Quiet(config, pl[c], x))
    BY <1>1, <1>3, <1>5, Numbers DEF Loading, Quiet
  <2>2. SameFor(pl, pl[c], q, x)
    BY <1>7, <2>1 DEF SameFor
  <2>3. QED
    BY <1>2, <1>4, <1>5, <1>7, <1>13, <2>2, SameForRun
<1>14. cpu'[c].run = Cardinality(Signalled(pl, q))
  <2>1. Signalled(pl, q) = Signalled(pl, pl[c])
    BY <1>5 DEF Signalled
  <2>2. QED
    BY <1>4, <1>5, <1>7, <2>1, MeetingParts DEF GatherInv
<1>15. Meeting(pl2)'
  BY <1>2, <1>4, <1>5, <1>6, <1>7, <1>9, <1>10, <1>11, <1>12, <1>13, <1>14, RoundFrame
<1>16. QED
  BY <1>2, <1>15 DEF Keeps

\* WaitForAllAPs returns only when every AP has released the BSP's semaphore.
LEMMA AllSignalled ==
  ASSUME NEW pl, Meeting(pl), NEW c \in CPUs, pl[c].s = "gather", cpu[c].run >= local[c].apCount
  PROVE  /\ cpu[c].run = local[c].apCount
         /\ pl[c].k = 1 => Aps(pl) = {}
         /\ pl[c].k # 1 => \A x \in CPUs : ~IsPre(pl[x]) /\ (IsAp(pl[x]) => pl[c].k = pl[x].k + 1)
<1>1. pl[c] \in Place /\ Valid(config, pl[c]) /\ config \in Configs /\ IsAtBsp(pl[c])
      /\ pl[c].k \in Odd
  BY MeetingParts, Kinds DEF Valid, Placed
<1>2. pl[c].k # 0 /\ Locked(config, pl[c]) /\ (Final(pl[c]) <=> pl[c].k = 1)
  BY <1>1 DEF Locked, Final, Odd
<1>3. cpu[c].run \in Nat /\ Cardinality(Aps(pl)) \in Nat /\ IsFiniteSet(Aps(pl))
  BY MeetingParts, CountedFinite DEF Types, CpuData
<1>4. CASE pl[c].k = 1
  <2>1. local[c].apCount = Cardinality(Aps(pl)) + cpu[c].run
    BY <1>1, <1>2, <1>4, MeetingParts DEF GatherInv
  <2>2. Cardinality(Aps(pl)) = 0
    BY <1>3, <2>1
  <2>3. Aps(pl) = {}
    BY <1>3, <2>2, FS_EmptySet
  <2>4. QED
    BY <1>3, <1>4, <2>1, <2>2, <2>3
<1>5. CASE pl[c].k # 1
  <2>1. local[c].apCount = Cardinality(Aps(pl)) /\ cpu[c].run = Cardinality(Signalled(pl, pl[c]))
    BY <1>1, <1>2, <1>5, MeetingParts DEF GatherInv
  <2>2. Signalled(pl, pl[c]) \subseteq Aps(pl)
    BY DEF Signalled, Aps
  <2>3. /\ Cardinality(Signalled(pl, pl[c])) <= Cardinality(Aps(pl))
        /\ Cardinality(Signalled(pl, pl[c])) = Cardinality(Aps(pl)) => Signalled(pl, pl[c]) = Aps(pl)
    BY <1>3, <2>2, FS_Subset
  <2>4. Cardinality(Signalled(pl, pl[c])) = Cardinality(Aps(pl))
    BY <1>3, <2>1, <2>3
  <2>5. Signalled(pl, pl[c]) = Aps(pl)
    BY <2>3, <2>4
  <2>6. \A x \in CPUs : (IsPre(pl[x]) \/ IsAp(pl[x])) => IsAp(pl[x]) /\ pl[c].k = pl[x].k + 1
    BY <2>5 DEF Signalled, Aps, Left
  <2>7. \A x \in CPUs : ~(IsPre(pl[x]) /\ IsAp(pl[x]))
    BY MeetingParts, Kinds
  <2>8. QED
    BY <1>5, <2>1, <2>4, <2>6, <2>7
<1>6. QED
  BY <1>4, <1>5

\* The BSP has gathered the APs and starts to release them, or ends.
LEMMA WaitForAllAPsKeeps ==
  ASSUME NEW pl, Meeting(pl), NEW c \in CPUs, WaitForAllAPs(c)
  PROVE  Keeps(pl, c, Succ(config, pl[c]))
<1>1. /\ pl[c].s = "gather" /\ InSmm(c) /\ Types /\ config \in Configs /\ pl[c] \in Place
      /\ Valid(config, pl[c]) /\ IsAtBsp(pl[c]) /\ pl[c].k \in Odd /\ pl[c].k <= TopK(config)
  <2>1. pl[c].s = "gather" /\ InSmm(c) /\ Types /\ config \in Configs /\ pl[c] \in Place
        /\ Valid(config, pl[c])
    BY StageOf, MeetingParts DEF WaitForAllAPs
  <2>2. QED
    BY <2>1, Kinds DEF Valid
<1>2. PICK q, pl2 : q \in Place /\ q = Succ(config, pl[c]) /\ Moves(pl, c, q, pl2) /\ Placed(pl2)'
  BY <1>1, MeetingParts, DonePlace DEF Goes, WaitForAllAPs
<1>3. \/ pl[c].k = 1 /\ q.s = "reset_bsp" /\ q.k = 0
      \/ pl[c].k # 1 /\ pl[c].k - 1 = LoopK(config) /\ q.s = "busy" /\ q.k = LoopK(config)
      \/ pl[c].k # 1 /\ q.s = "release" /\ q.k = pl[c].k - 1 /\ q.i = 1 /\ q.k # LoopK(config)
  BY <1>1, <1>2 DEF Succ, RoundSucc, OutStages, PreStages, ApStages, LoopStages, P
<1>4. /\ IsAtBsp(q) /\ q.s \notin OneStages /\ q.s # "reset_counter" /\ q.s # "inside"
      /\ pl2[c] = q /\ \A x \in CPUs : x # c => pl2[x] = pl[x]
  BY <1>2, <1>3 DEF Moves, IsAtBsp, BspStages, OneStages
<1>5. /\ counter' = counter /\ bspIndex' = bspIndex /\ config' = config /\ inside' = inside
      /\ local' = local /\ platform' = platform /\ allInSync' = allInSync /\ calls' = calls
      /\ SetData(c, "run", cpu[c].run - local[c].apCount) /\ cpu[c].run >= local[c].apCount
  BY DEF WaitForAllAPs
<1>6. /\ cpu[c].run = local[c].apCount
      /\ pl[c].k = 1 => Aps(pl) = {}
      /\ pl[c].k # 1 => \A x \in CPUs : ~IsPre(pl[x]) /\ (IsAp(pl[x]) => pl[c].k = pl[x].k + 1)
  BY <1>1, <1>5, AllSignalled
<1>7. Others(c) /\ cpu'[c].run = 0 /\ cpu'[c].present = cpu[c].present
  <2>1. cpu[c].run \in Nat
    BY <1>1 DEF Types, CpuData
  <2>2. cpu[c].run - local[c].apCount = 0
    BY <1>6, <2>1
  <2>3. SetData(c, "run", 0)
    BY <1>5, <2>2
  <2>4. QED
    BY <1>1, <2>3, SetRun
<1>8. Types' /\ CpusInv(pl2)'
  <2>1. Types'
    BY <1>1, <1>5, <1>7 DEF Types, Others
  <2>2. QED
    BY <1>1, <1>2, <1>5, <2>1, CpusFrame
<1>9. \A x \in CPUs : Left(q, x) = q.k /\ Left(pl[c], x) = pl[c].k
  BY <1>1, <1>3 DEF Left, CPUs
<1>10. Locked(config, q) /\ Locked(config, pl[c]) /\ (InsideAt(config, q) <=> InsideAt(config, pl[c]))
       /\ (PresentAt(q) <=> PresentAt(pl[c]))
  <2>1. Locked(config, q) /\ Locked(config, pl[c])
        /\ (InsideAt(config, q) <=> InsideAt(config, pl[c]))
    BY <1>1, <1>3, Numbers DEF Locked, InsideAt, Odd
  <2>2. ~IsAp(q) /\ ~IsAp(pl[c])
    BY <1>1, <1>2, <1>4, Kinds
  <2>3. QED
    BY <1>1, <1>3, <1>4, <2>1, <2>2, Numbers DEF PresentAt, Odd
<1>11. counter' = LOCKED
  BY <1>1, <1>5, <1>10, MeetingParts DEF CounterInv
<1>12. ASSUME NEW x \in CPUs, IsAp(pl[x])
       PROVE  /\ pl[c].k # 1 /\ pl[c].k = pl[x].k + 1 /\ q.k = pl[x].k /\ pl[x].k \in Even
              /\ pl[x].s \notin {"find_bsp", "ap_present"} /\ x # c /\ pl[x] \in Place
                 /\ Valid(config, pl[x])
  <2>1. pl[c].k # 1 /\ pl[x] \in Place /\ Valid(config, pl[x]) /\ x # c
    BY <1>1, <1>6, <1>12, MeetingParts, Kinds DEF Aps, Placed
  <2>2. pl[c].k = pl[x].k + 1 /\ pl[x].k \in Int
    BY <1>6, <1>12, <2>1 DEF Place
  <2>3. pl[x].k \in Even /\ q.k = pl[x].k /\ pl[x].k < TopK(config)
    BY <1>1, <1>3, <2>1, <2>2, Numbers DEF Odd, Even
  <2>4. QED
    BY <2>1, <2>2, <2>3, Numbers, <1>1 DEF Valid
<1>13. AllArrived(pl) \/ Arriving(config, q)
  <2>1. ASSUME NEW x \in CPUs PROVE ~IsPre(pl[x]) /\ pl[x].s \notin {"find_bsp", "ap_present"}
    <3>1. ~IsPre(pl[x])
      BY <1>6 DEF Aps
    <3>2. pl[x].s \in {"find_bsp", "ap_present"} => IsAp(pl[x])
      BY MeetingParts, Kinds
    <3>3. QED
      BY <1>12, <3>1, <3>2
  <2>2. QED
    BY <2>1 DEF AllArrived
<1>14. ASSUME NEW x \in CPUs, IsAp(pl[x]) PROVE PairOK(pl2, q, x)'
  <2>1. pl2[x] = pl[x] /\ PairOK(pl, pl[c], x)
    BY <1>1, <1>4, <1>12, <1>14, MeetingParts, BspFacts DEF PairInv
  <2>2. pl[x].k \notin Odd /\ Left(q, x) \in pl[x].k - 1 .. pl[x].k + 1
    BY <1>9, <1>12, <1>14 DEF Odd, Even
  <2>3. QED
    BY <1>4, <1>5, <1>12, <1>14, <2>1, <2>2 DEF PairOK
<1>15. ASSUME NEW x \in CPUs, x # c PROVE RunOK(pl2, x)'
  <2>1. pl2[x] = pl[x] /\ RunOK(pl, x) /\ cpu'[x] = cpu[x] /\ pl2[c] = q /\ bspIndex = c
        /\ pl[x] \in Place
    BY <1>1, <1>4, <1>7, <1>15, MeetingParts, BspFacts DEF RunInv, Others
  <2>2. CASE ~IsAp(pl[x])
    BY <2>1, <2>2, Kinds DEF RunOK
  <2>3. CASE IsAp(pl[x]) /\ pl[x].s \notin LoopStages
    <3>1. Left(pl[c], x) # pl[x].k - 1 /\ Left(q, x) # pl[x].k - 1
      BY <1>9, <1>12, <2>3 DEF Even
    <3>2. QED
      BY <1>5, <2>1, <2>3, <3>1 DEF RunOK
  <2>4. CASE pl[x].s \in LoopStages
    <3>1. IsAp(pl[x]) /\ ~IsPre(pl[x]) /\ ~IsOut(pl[x])
      BY <2>1, <2>4, Kinds
    <3>2. pl[x].k = LoopK(config) /\ q.k = LoopK(config) /\ q.s = "busy"
          /\ pl[c].k = LoopK(config) + 1
      BY <1>3, <1>12, <2>4, <3>1, <1>1, Numbers DEF Valid
    <3>3. ~Loading(q, x) /\ ~Loading(pl[c], x) /\ ~Quiet(config, q, x)
      BY <1>1, <3>2, Numbers DEF Loading, Quiet
    <3>4. Left(q, x) = LoopK(config) /\ ~(Left(q, x) < LoopK(config))
          /\ ~(Left(pl[c], x) < LoopK(config))
      BY <1>1, <1>9, <3>2, Numbers
    <3>5. LoopOK(pl, pl[c], x)
      BY <2>1, <2>4 DEF RunOK
    <3>6. LoopOK(pl2, q, x)'
      BY <1>5, <2>1, <3>3, <3>4, <3>5 DEF LoopOK
    <3>7. QED
      BY <1>5, <2>1, <2>4, <3>1, <3>6 DEF RunOK
  <2>5. QED
    BY <2>2, <2>3, <2>4
<1>16. /\ q.k = 0 => Aps(pl) = {} /\ cpu'[c].run = 0
       /\ q.k # 0 /\ Final(q) => local'[c].apCount = Cardinality(Aps(pl)) + cpu'[c].run
       /\ q.k # 0 /\ ~Final(q) => cpu'[c].run = Cardinality(Signalled(pl, q))
       /\ q.k # 0 /\ ~Final(q) /\ Locked(config, q) => local'[c].apCount = Cardinality(Aps(pl))
  <2>1. q.k = 0 => Aps(pl) = {} /\ cpu'[c].run = 0
    BY <1>1, <1>3, <1>6, <1>7, Numbers DEF Odd
  <2>2. ASSUME q.k # 0 PROVE local'[c].apCount = Cardinality(Aps(pl)) + cpu'[c].run
        /\ local'[c].apCount = Cardinality(Aps(pl))
    <3>1. pl[c].k # 1 /\ pl[c].k # 0 /\ ~Final(pl[c])
      BY <1>1, <1>3, <2>2 DEF Final, Odd
    <3>2. local[c].apCount = Cardinality(Aps(pl)) /\ Cardinality(Aps(pl)) \in Int
      BY <1>1, <1>10, <3>1, MeetingParts, CountedFinite DEF GatherInv
    <3>3. QED
      BY <1>5, <1>7, <3>2
  <2>3. ASSUME q.k # 0 PROVE cpu'[c].run = Cardinality(Signalled(pl, q))
    <3>1. \A x \in CPUs : IsAp(pl[x]) => Left(q, x) # pl[x].k + 1
      BY <1>9, <1>12 DEF Even
    <3>2. Signalled(pl, q) = {}
      BY <3>1 DEF Signalled
    <3>3. QED
      BY <1>7, <3>2, FS_EmptySet
  <2>4. QED
    BY <2>1, <2>2, <2>3
<1>17. Meeting(pl2)'
  <2>1. \A x \in CPUs : cpu'[x].present = cpu[x].present
    BY <1>7 DEF Others
  <2>2. pl[c].s # "reset_counter"
    BY <1>1
  <2>3. QED
    BY <1>1, <1>2, <1>4, <1>5, <1>8, <1>10, <1>11, <1>13, <1>14, <1>15, <1>16, <2>1, <2>2, RoundFrame
<1>18. QED
  BY <1>2, <1>17 DEF Keeps

\* ReleaseAllAPs reaches exactly the APs, and each of them in the round the BSP is in.
LEMMA ReleasedAp ==
  ASSUME NEW pl, Meeting(pl), NEW c \in CPUs, pl[c].s = "release", NEW i, i = pl[c].i
  PROVE  /\ AllArrived(pl) /\ i \in CPUs /\ Left(pl[c], i) = pl[c].k
         /\ IsPresentAp(c, i) <=> i # c /\ IsAp(pl[i])
         /\ i # c /\ IsAp(pl[i]) =>
              /\ pl[i].k = pl[c].k /\ cpu[i].run = 0 /\ pl[i].s \in {"wait", "idle"} /\ ~cpu[i].busy
              /\ pl[i].s = "idle" => pl[c].k = LoopK(config)
<1>1. /\ pl[c] \in Place /\ Valid(config, pl[c]) /\ config \in Configs /\ IsAtBsp(pl[c])
      /\ pl[c].k \in Even /\ pl[c].s # "reset_counter" /\ i \in CPUs
  BY MeetingParts, Kinds DEF Valid, Placed
<1>2. AllArrived(pl) /\ bspIndex = c /\ \A x \in CPUs : IsAtBsp(pl[x]) => x = c
  BY <1>1, BspFacts DEF Arriving
<1>3. Left(pl[c], i) = pl[c].k
  BY <1>1 DEF Left, CPUs
<1>4. ASSUME i # c, IsAp(pl[i])
      PROVE  pl[i].k \in Even /\ pl[i].k = pl[c].k /\ RunOK(pl, i) /\ Valid(config, pl[i])
             /\ pl[i] \in Place
  <2>1. PairOK(pl, pl[c], i) /\ RunOK(pl, i) /\ Valid(config, pl[i]) /\ pl[i] \in Place
    BY <1>1, <1>2, <1>4, MeetingParts DEF PairInv, RunInv, Placed
  <2>2. pl[i].s \notin {"find_bsp", "ap_present"}
    BY <1>1, <1>2 DEF AllArrived
  <2>3. IF pl[i].k \in Odd THEN pl[c].k = pl[i].k ELSE pl[c].k \in pl[i].k - 1 .. pl[i].k + 1
    BY <1>3, <2>1, <2>2 DEF PairOK
  <2>4. pl[i].k \in 0 .. 11
    BY <2>1 DEF Place
  <2>5. pl[i].k # 0
    BY <1>4, <2>1, Numbers, <1>1 DEF IsAp, ApStages, Valid, Odd, Even, LoopStages
  <2>6. QED
    BY <1>1, <2>1, <2>3, <2>4, <2>5 DEF Odd, Even
<1>5. cpu[i].present <=> PresentAt(pl[i])
  BY <1>1, MeetingParts DEF PresentInv
<1>6. i # c => (cpu[i].present <=> IsAp(pl[i]))
  <2>1. i # c => ~IsAtBsp(pl[i])
    BY <1>1, <1>2
  <2>2. i # c /\ IsAp(pl[i]) => pl[i].k # 1
    BY <1>4 DEF Even
  <2>3. pl[i].s \notin {"find_bsp", "ap_present"}
    BY <1>1, <1>2 DEF AllArrived
  <2>4. QED
    BY <1>5, <2>1, <2>2, <2>3 DEF PresentAt
<1>7. IsPresentAp(c, i) <=> i # c /\ IsAp(pl[i])
  BY <1>6 DEF IsPresentAp
<1>8. ASSUME i # c, IsAp(pl[i])
      PROVE  /\ cpu[i].run = 0 /\ pl[i].s \in {"wait", "idle"} /\ ~cpu[i].busy
             /\ pl[i].s = "idle" => pl[c].k = LoopK(config)
  <2>1. CASE pl[i].s \in LoopStages
    <3>1. LoopOK(pl, pl[c], i) /\ pl[c].k = LoopK(config)
      BY <1>2, <1>4, <1>8, <2>1 DEF RunOK, Valid
    <3>2. Quiet(config, pl[c], i) /\ ~(Left(pl[c], i) < LoopK(config))
      BY <1>1, <1>3, <3>1, Numbers DEF Quiet
    <3>3. QED
      BY <3>1, <3>2 DEF LoopOK
  <2>2. CASE pl[i].s \notin LoopStages
    <3>1. pl[i].s = "wait"
      <4>1. pl[i].s \in {"signal", "wait", "ap_absent"}
        BY <1>1, <1>2, <1>8, <2>2 DEF AllArrived, IsAp, ApStages
      <4>2. QED
        BY <1>4, <1>8, <4>1 DEF Valid, Odd, Even
    <3>2. Left(pl[bspIndex], i) # pl[i].k - 1
      BY <1>1, <1>2, <1>3, <1>4, <1>8 DEF Even
    <3>3. QED
      BY <1>4, <1>8, <2>2, <3>1, <3>2 DEF RunOK
  <2>3. QED
    BY <2>1, <2>2
<1>9. QED
  BY <1>1, <1>2, <1>3, <1>4, <1>7, <1>8

\* The BSP releases an AP, or skips an absent processor.
LEMMA ReleaseApKeeps ==
  ASSUME NEW pl, Meeting(pl), NEW c \in CPUs, ReleaseAp(c), pl[c].s = "release"
  PROVE  Keeps(pl, c, Succ(config, pl[c]))
<1>1. /\ InSmm(c) /\ Types /\ config \in Configs /\ pl[c] \in Place
      /\ Valid(config, pl[c]) /\ IsAtBsp(pl[c]) /\ pl[c].k \in Even /\ pl[c].k <= TopK(config)
  <2>1. InSmm(c) /\ Types /\ config \in Configs /\ pl[c] \in Place /\ Valid(config, pl[c])
    BY StageOf, MeetingParts DEF ReleaseAp
  <2>2. QED
    BY <2>1, Kinds DEF Valid
<1>2. PICK q, pl2 : q \in Place /\ q = Succ(config, pl[c]) /\ Moves(pl, c, q, pl2) /\ Placed(pl2)'
  BY <1>1, MeetingParts, DonePlace DEF Goes, ReleaseAp
<1>3. PICK i : i = pl[c].i
  OBVIOUS
<1>4. /\ AllArrived(pl) /\ i \in CPUs /\ Left(pl[c], i) = pl[c].k
      /\ IsPresentAp(c, i) <=> i # c /\ IsAp(pl[i])
      /\ i # c /\ IsAp(pl[i]) =>
           /\ pl[i].k = pl[c].k /\ cpu[i].run = 0 /\ pl[i].s \in {"wait", "idle"} /\ ~cpu[i].busy
           /\ pl[i].s = "idle" => pl[c].k = LoopK(config)
  BY <1>3, ReleasedAp
<1>5. /\ counter' = counter /\ bspIndex' = bspIndex /\ config' = config /\ inside' = inside
      /\ local' = local /\ platform' = platform /\ allInSync' = allInSync /\ calls' = calls
      /\ IF IsPresentAp(c, i) THEN SetData(i, "run", ReleaseSemaphore(cpu[i].run)) ELSE cpu' = cpu
  BY <1>1, <1>3, StageOf DEF ReleaseAp
<1>6. \/ q.s = "release" /\ q.k = pl[c].k /\ q.i = i + 1 /\ i < N
      \/ q.s = "absent" /\ pl[c].k = 2 /\ q.k = 1 /\ i = N
      \/ q.s = "gather" /\ pl[c].k # 2 /\ q.k = pl[c].k - 1 /\ i = N
  <2>1. i \in 1 .. N /\ N \in Nat
    BY <1>4, SmmAssumption DEF CPUs
  <2>2. q = RoundSucc(config, pl[c])
    BY <1>2 DEF Succ, OutStages, PreStages, ApStages, LoopStages
  <2>3. QED
    BY <1>3, <2>1, <2>2 DEF RoundSucc, P
<1>7. /\ IsAtBsp(q) /\ q.s \notin OneStages /\ q.s # "reset_counter" /\ q.s # "inside"
      /\ pl2[c] = q /\ \A x \in CPUs : x # c => pl2[x] = pl[x]
  BY <1>2, <1>6 DEF Moves, IsAtBsp, BspStages, OneStages
<1>8. Left(q, i) = pl[c].k - 1 /\ \A x \in CPUs : x # i => Left(q, x) = Left(pl[c], x)
  <2>1. i \in Int /\ N \in Int /\ \A x \in CPUs : x \in Int /\ x <= N
    BY <1>4, SmmAssumption DEF CPUs
  <2>2. QED
    BY <1>1, <1>3, <1>4, <1>6, <2>1 DEF Left, Even
<1>9. Locked(config, q) /\ Locked(config, pl[c]) /\ (InsideAt(config, q) <=> InsideAt(config, pl[c]))
      /\ (PresentAt(q) <=> PresentAt(pl[c])) /\ (Final(q) <=> Final(pl[c])) /\ q.k # 0 /\ pl[c].k # 0
  <2>1. Locked(config, q) /\ Locked(config, pl[c])
        /\ (InsideAt(config, q) <=> InsideAt(config, pl[c]))
    BY <1>1, <1>6, Numbers DEF Locked, InsideAt, Even
  <2>2. (Final(q) <=> Final(pl[c])) /\ q.k # 0 /\ pl[c].k # 0
    BY <1>1, <1>6 DEF Final, Even
  <2>3. PresentAt(q) /\ PresentAt(pl[c])
    BY <1>1, <1>6, <1>7 DEF PresentAt, Even
  <2>4. QED
    BY <2>1, <2>2, <2>3
<1>10. counter' = LOCKED
  BY <1>1, <1>5, <1>9, MeetingParts DEF CounterInv
<1>11. /\ cpu' \in CpuData
       /\ \A x \in CPUs : /\ cpu'[x].present = cpu[x].present
                          /\ cpu'[x].busy = cpu[x].busy
                          /\ x # i => cpu'[x].run = cpu[x].run
       /\ i # c /\ IsAp(pl[i]) => cpu'[i].run = 1
       /\ ~(i # c /\ IsAp(pl[i])) => cpu'[i].run = cpu[i].run
  <2>1. CASE i # c /\ IsAp(pl[i])
    <3>1. ReleaseSemaphore(cpu[i].run) = 1
      BY <1>4, <2>1 DEF ReleaseSemaphore, LOCKED
    <3>2. SetData(i, "run", 1)
      BY <1>4, <1>5, <2>1, <3>1
    <3>3. QED
      BY <1>1, <1>4, <2>1, <3>2, SetRun DEF Others
  <2>2. CASE ~(i # c /\ IsAp(pl[i]))
    <3>1. cpu' = cpu
      BY <1>4, <1>5, <2>2
    <3>2. QED
      BY <1>1, <2>2, <3>1 DEF Types
  <2>3. QED
    BY <2>1, <2>2
<1>12. Types' /\ CpusInv(pl2)'
  <2>1. Types'
    BY <1>1, <1>5, <1>11 DEF Types
  <2>2. QED
    BY <1>1, <1>2, <1>5, <2>1, CpusFrame
<1>13. bspIndex = c /\ \A x \in CPUs : IsAp(pl[x]) => x # c /\ PairOK(pl, pl[c], x) /\ pl[x] \in Place
  BY <1>1, MeetingParts, BspFacts, Kinds DEF PairInv
<1>14. ASSUME NEW x \in CPUs, IsAp(pl[x]) PROVE PairOK(pl2, q, x)'
  <2>1. pl2[x] = pl[x] /\ PairOK(pl, pl[c], x) /\ x # c
    BY <1>7, <1>13, <1>14
  <2>2. pl[x].s \notin {"find_bsp", "ap_present"}
    BY <1>4 DEF AllArrived
  <2>3. CASE x # i
    BY <1>5, <1>7, <1>8, <2>1, <2>2, <2>3 DEF PairOK
  <2>4. CASE x = i
    <3>1. pl[x].k \in Even /\ Left(q, x) = pl[x].k - 1
      BY <1>1, <1>4, <1>8, <1>14, <2>1, <2>4
    <3>2. pl[x].k \notin Odd /\ Left(q, x) \in pl[x].k - 1 .. pl[x].k + 1
      BY <3>1 DEF Odd, Even
    <3>3. QED
      BY <1>5, <1>7, <2>1, <2>2, <3>2 DEF PairOK
  <2>5. QED
    BY <2>3, <2>4
<1>15. ASSUME NEW x \in CPUs, x # c PROVE RunOK(pl2, x)'
  <2>1. pl2[x] = pl[x] /\ RunOK(pl, x) /\ pl2[c] = q /\ bspIndex = c /\ pl[x] \in Place
    BY <1>1, <1>7, <1>13, <1>15, MeetingParts DEF RunInv
  <2>2. CASE x # i
    <3>1. ~Loading(q, x) /\ ~Loading(pl[c], x) /\ (Quiet(config, q, x) => Quiet(config, pl[c], x))
      BY <1>1, <1>6, Numbers DEF Loading, Quiet, Even
    <3>2. SameFor(pl, pl[c], q, x)
      BY <1>11, <2>2, <3>1 DEF SameFor
    <3>3. QED
      BY <1>1, <1>2, <1>5, <1>8, <1>15, <2>2, <3>2, SameForRun
  <2>3. CASE x = i /\ ~IsAp(pl[x])
    <3>1. cpu'[x].run = cpu[x].run /\ cpu'[x].busy = cpu[x].busy
      BY <1>11, <2>3
    <3>2. QED
      BY <2>1, <2>3, <3>1, Kinds DEF RunOK
  <2>4. CASE x = i /\ IsAp(pl[x])
    <3>1. /\ cpu'[x].run = 1 /\ ~cpu'[x].busy /\ pl[x].s \in {"wait", "idle"}
             /\ Left(q, x) = pl[x].k - 1
          /\ pl[x].s = "idle" => Left(q, x) = LoopK(config) - 1
      BY <1>4, <1>8, <1>11, <1>15, <2>4
    <3>2. ~IsPre(pl[x]) /\ ~IsOut(pl[x])
      BY <2>1, <2>4, Kinds
    <3>3. CASE pl[x].s = "wait"
      <4>1. pl[x].s \notin LoopStages
        BY <3>3 DEF LoopStages
      <4>2. QED
        BY <1>5, <2>1, <3>1, <3>2, <3>3, <4>1 DEF RunOK
    <3>4. CASE pl[x].s = "idle"
      <4>1. pl[x].s \in LoopStages /\ Left(q, x) < LoopK(config)
        BY <1>1, <3>1, <3>4, Numbers DEF LoopStages
      <4>2. LoopOK(pl2, q, x)'
        BY <1>5, <2>1, <3>1, <3>4, <4>1 DEF LoopOK
      <4>3. QED
        BY <1>5, <2>1, <3>2, <4>1, <4>2 DEF RunOK
    <3>5. QED
      BY <3>1, <3>3, <3>4
  <2>5. QED
    BY <2>2, <2>3, <2>4
<1>16. cpu'[c].run = cpu[c].run
  BY <1>11
<1>17. Signalled(pl, q) = Signalled(pl, pl[c])
  <2>1. IsAp(pl[i]) => pl[i].k = pl[c].k
    BY <1>4, <1>13
  <2>2. IsAp(pl[i]) => Left(q, i) # pl[i].k + 1 /\ Left(pl[c], i) # pl[i].k + 1
    BY <1>1, <1>4, <1>8, <2>1 DEF Even
  <2>3. QED
    BY <1>8, <2>2 DEF Signalled
<1>18. /\ q.k # 0 /\ Final(q) => local'[c].apCount = Cardinality(Aps(pl)) + cpu'[c].run
       /\ q.k # 0 /\ ~Final(q) => cpu'[c].run = Cardinality(Signalled(pl, q))
       /\ q.k # 0 /\ ~Final(q) /\ Locked(config, q) => local'[c].apCount = Cardinality(Aps(pl))
  BY <1>1, <1>5, <1>9, <1>16, <1>17, MeetingParts DEF GatherInv
<1>19. Meeting(pl2)'
  <2>1. \A x \in CPUs : cpu'[x].present = cpu[x].present
    BY <1>11
  <2>2. pl[c].s # "reset_counter"
    OBVIOUS
  <2>3. QED
    BY <1>1, <1>2, <1>4, <1>5, <1>7, <1>9, <1>10, <1>12, <1>14, <1>15, <1>18, <2>1, <2>2, RoundFrame
<1>20. QED
  BY <1>2, <1>19 DEF Keeps

-----------------------------------------------------------------------------
(***************************************************************************)
(* An AP signals the BSP.                                                  *)
(***************************************************************************)
\* An AP releases the semaphore of the BSP, which has the same handshakes left.
LEMMA SignalFacts ==
  ASSUME NEW pl, Meeting(pl), NEW c \in CPUs, SignalBsp(c), NEW b, b = bspIndex
  PROVE  /\ pl[c].s = "signal" /\ IsAp(pl[c]) /\ pl[c].k \in Odd /\ InSmm(c)
         /\ b \in CPUs /\ b # NoBsp /\ b # c /\ IsAtBsp(pl[b]) /\ pl[b].s # "reset_counter"
         /\ Left(pl[b], c) = pl[c].k /\ pl[b].k # 0 /\ Valid(config, pl[b]) /\ pl[b] \in Place
         /\ cpu[c].run = 0 /\ ~cpu[c].busy /\ cpu[b].run \in Nat
         /\ local[c].bsp = bspIndex
         /\ Others(b) /\ cpu'[b].run = cpu[b].run + 1 /\ cpu'[b].present = cpu[b].present
         /\ cpu'[b].busy = cpu[b].busy
         /\ counter' = counter /\ bspIndex' = bspIndex /\ config' = config /\ inside' = inside
         /\ local' = local /\ platform' = platform /\ allInSync' = allInSync /\ calls' = calls
         /\ Types'
<1>1. /\ pl[c].s = "signal" /\ InSmm(c) /\ Types /\ config \in Configs /\ pl[c] \in Place
      /\ Valid(config, pl[c])
  BY StageOf, MeetingParts DEF SignalBsp, ApOps
<1>2. IsAp(pl[c]) /\ pl[c].k \in Odd /\ pl[c].s \notin LoopStages
  BY <1>1, Kinds DEF Valid, LoopStages
<1>3. /\ b \in CPUs /\ b # NoBsp /\ b # c /\ IsAtBsp(pl[b]) /\ pl[b].s # "reset_counter"
      /\ pl[b].k # 0 /\ Valid(config, pl[b]) /\ pl[b] \in Place /\ PairOK(pl, pl[b], c)
         /\ RunOK(pl, c)
  BY <1>2, ApFacts
<1>4. Left(pl[b], c) = pl[c].k /\ local[c].bsp = bspIndex
  BY <1>1, <1>2, <1>3 DEF PairOK
<1>5. cpu[c].run = 0 /\ ~cpu[c].busy
  BY <1>1, <1>2, <1>3 DEF RunOK
<1>6. cpu[b].run \in Nat
  BY <1>1, <1>3 DEF Types, CpuData
<1>7. /\ counter' = counter /\ bspIndex' = bspIndex /\ config' = config /\ inside' = inside
      /\ local' = local /\ platform' = platform /\ allInSync' = allInSync /\ calls' = calls
      /\ SetData(b, "run", ReleaseSemaphore(cpu[b].run))
  BY <1>4 DEF SignalBsp
<1>8. ReleaseSemaphore(cpu[b].run) = cpu[b].run + 1 /\ cpu[b].run + 1 \in Nat
  BY <1>6 DEF ReleaseSemaphore, LOCKED
<1>9. /\ Others(b) /\ cpu'[b].run = cpu[b].run + 1 /\ cpu'[b].present = cpu[b].present
      /\ cpu'[b].busy = cpu[b].busy
  <2>1. PICK v : v = cpu[b].run + 1
    OBVIOUS
  <2>2. SetData(b, "run", v) /\ v \in Nat
    BY <1>7, <1>8, <2>1
  <2>3. QED
    BY <1>1, <1>3, <2>1, <2>2, SetRun
<1>10. Types'
  BY <1>1, <1>7, <1>9 DEF Types, Others
<1>11. QED
  BY <1>1, <1>2, <1>3, <1>4, <1>5, <1>6, <1>7, <1>9, <1>10

\* The conjuncts that do not depend on which signal it is.
LEMMA SignalFrame ==
  ASSUME NEW pl, Meeting(pl), NEW c \in CPUs, NEW q, NEW pl2, Moves(pl, c, q, pl2), Placed(pl2)',
         SignalBsp(c), IsAp(q) \/ IsOut(q), q.s # "out",
         IsOut(q) => Locked(config, pl[bspIndex]),
         IsAp(q) => PairOK(pl2, pl[bspIndex], c)',
         RunOK(pl2, c)', PresentAt(q) <=> PresentAt(pl[c]), GatherInv(pl2)'
  PROVE  Meeting(pl2)'
<1>1. PICK b : b = bspIndex
  OBVIOUS
<1>2. /\ pl[c].s = "signal" /\ IsAp(pl[c])
      /\ b \in CPUs /\ b # NoBsp /\ b # c /\ IsAtBsp(pl[b]) /\ pl[b].s # "reset_counter"
         /\ pl[b] \in Place
      /\ Others(b) /\ cpu'[b].present = cpu[b].present
      /\ counter' = counter /\ bspIndex' = bspIndex /\ config' = config /\ inside' = inside
      /\ local' = local /\ platform' = platform /\ Types'
  BY <1>1, SignalFacts
<1>3. /\ pl \in [CPUs -> Place] /\ pl2 \in [CPUs -> Place] /\ pl2[c] = q /\ q \in Place
      /\ \A x \in CPUs : x # c => pl2[x] = pl[x]
  BY MeetingParts DEF Moves
<1>4. ~IsPre(q) /\ ~IsAtBsp(q) /\ ~IsPre(pl[c]) /\ ~IsAtBsp(pl[c]) /\ ~IsOut(pl[c])
      /\ (IsAp(q) <=> ~IsOut(q))
  BY <1>2, <1>3, Kinds
<1>5. \A x \in CPUs : /\ IsPre(pl2[x]) <=> IsPre(pl[x])
                      /\ IsAtBsp(pl2[x]) <=> IsAtBsp(pl[x])
  BY <1>3, <1>4
<1>6. CpusInv(pl2)'
  <2>1. pl[c].s # "out"
    BY <1>2
  <2>2. QED
    BY <1>2, <2>1, CpusFrame
<1>7. IndexInv(pl2)'
  BY <1>1, <1>2, <1>3, <1>5, MeetingParts DEF IndexInv
<1>8. InsideInv(pl2)'
  BY <1>1, <1>2, <1>3, <1>5, MeetingParts DEF InsideInv
<1>9. CounterInv(pl2)'
  <2>1. CASE IsOut(q)
    <3>1. counter = LOCKED /\ IsAtBsp(pl2[b]) /\ Locked(config, pl2[b])
      BY <1>1, <1>2, <1>3, <2>1, MeetingParts DEF CounterInv
    <3>2. QED
      BY <1>2, <3>1 DEF CounterInv
  <2>2. CASE IsAp(q)
    <3>1. Counted(pl2) = Counted(pl)
      BY <1>3, <1>4, <2>2 DEF Counted
    <3>2. \A x \in CPUs : IsAtBsp(pl2[x]) => pl2[x] = pl[x]
      BY <1>3, <1>4
    <3>3. \A x \in CPUs : IsAtBsp(pl2[x]) /\ Locked(config, pl2[x]) <=> IsAtBsp(pl[x])
          /\ Locked(config, pl[x])
      BY <1>5, <3>2
    <3>4. QED
      BY <1>2, <3>1, <3>3, MeetingParts DEF CounterInv
  <2>3. QED
    BY <2>1, <2>2
<1>10. LateInv(pl2)'
  <2>1. q.s \notin {"ask_bsp", "give_up"}
    BY <1>3, <1>4, Kinds
  <2>2. QED
    BY <1>2, <1>3, <2>1, MeetingParts DEF LateInv
<1>11. ArriveInv(pl2)'
  BY <1>2, <1>3, <1>4, <1>5, MeetingParts DEF ArriveInv
<1>12. PairInv(pl2)'
  <2>1. ASSUME NEW x \in CPUs, IsAp(pl2[x]) PROVE PairOK(pl2, pl2[b], x)'
    <3>1. CASE x = c
      BY <1>1, <1>2, <1>3, <2>1, <3>1
    <3>2. CASE x # c
      <4>1. pl2[x] = pl[x] /\ pl2[b] = pl[b] /\ PairOK(pl, pl[b], x)
        BY <1>1, <1>2, <1>3, <2>1, <3>2, MeetingParts DEF PairInv
      <4>2. QED
        BY <1>2, <4>1 DEF PairOK
    <3>3. QED
      BY <3>1, <3>2
  <2>2. QED
    BY <1>1, <1>2, <2>1 DEF PairInv
<1>13. RunInv(pl2)'
  <2>1. ASSUME NEW x \in CPUs PROVE RunOK(pl2, x)'
    <3>1. CASE x = c
      BY <3>1
    <3>2. CASE x = b
      <4>1. pl2[x] = pl[x] /\ ~IsPre(pl[x]) /\ ~IsAp(pl[x]) /\ ~IsOut(pl[x])
            /\ pl[x].s \notin LoopStages
        BY <1>2, <1>3, <3>2, Kinds
      <4>2. QED
        BY <4>1 DEF RunOK
    <3>3. CASE x # b /\ x # c
      <4>1. pl2[x] = pl[x] /\ cpu'[x] = cpu[x] /\ pl2[b] = pl[b] /\ RunOK(pl, x)
        BY <1>2, <1>3, <3>3, MeetingParts DEF Others, RunInv
      <4>2. pl[x].s \in LoopStages => LoopOK(pl2, pl2[b], x)'
        BY <1>1, <1>2, <4>1 DEF RunOK, LoopOK
      <4>3. QED
        BY <1>1, <1>2, <4>1, <4>2 DEF RunOK
    <3>4. QED
      BY <3>1, <3>2, <3>3
  <2>2. QED
    BY <2>1 DEF RunInv
<1>14. PresentInv(pl2)'
  <2>1. \A x \in CPUs : cpu'[x].present = cpu[x].present
    BY <1>2 DEF Others
  <2>2. \A x \in CPUs : PresentAt(pl2[x]) <=> PresentAt(pl[x])
    BY <1>3
  <2>3. QED
    BY <2>1, <2>2, MeetingParts DEF PresentInv
<1>15. OneInv(pl2)'
  <2>1. ASSUME NEW x \in CPUs, pl2[x].s \in OneStages
        PROVE  pl2[x].i \in CPUs \ {x} /\ pl2[pl2[x].i].s \in LoopStages
    <3>1. IsAtBsp(pl2[x])
      BY <1>3, <2>1, Kinds
    <3>2. x # c /\ pl2[x] = pl[x]
      BY <1>3, <1>4, <3>1
    <3>3. pl[x].i \in CPUs \ {x} /\ pl[pl[x].i].s \in LoopStages
      BY <2>1, <3>2, MeetingParts DEF OneInv
    <3>4. pl[x].i # c
      BY <1>2, <3>3 DEF LoopStages
    <3>5. QED
      BY <1>3, <3>2, <3>3, <3>4
  <2>2. QED
    BY <2>1 DEF OneInv
<1>16. QED
  BY <1>2, <1>6, <1>7, <1>8, <1>9, <1>10, <1>11, <1>12, <1>13, <1>14, <1>15 DEF Meeting

\* Every signal but the last.
LEMMA SignalMoreKeeps ==
  ASSUME NEW pl, Meeting(pl), NEW c \in CPUs, SignalBsp(c), pl[c].k # 1
  PROVE  Keeps(pl, c, Succ(config, pl[c]))
<1>1. PICK b : b = bspIndex
  OBVIOUS
<1>2. /\ pl[c].s = "signal" /\ IsAp(pl[c]) /\ pl[c].k \in Odd /\ InSmm(c)
      /\ b \in CPUs /\ b # NoBsp /\ b # c /\ IsAtBsp(pl[b]) /\ pl[b].s # "reset_counter"
      /\ Left(pl[b], c) = pl[c].k /\ pl[b].k # 0 /\ Valid(config, pl[b]) /\ pl[b] \in Place
      /\ cpu[c].run = 0 /\ ~cpu[c].busy /\ cpu[b].run \in Nat
      /\ local[c].bsp = bspIndex
      /\ Others(b) /\ cpu'[b].run = cpu[b].run + 1 /\ cpu'[b].present = cpu[b].present
      /\ cpu'[b].busy = cpu[b].busy
      /\ counter' = counter /\ bspIndex' = bspIndex /\ config' = config /\ inside' = inside
      /\ local' = local /\ platform' = platform /\ allInSync' = allInSync /\ calls' = calls
  BY <1>1, SignalFacts
<1>3. Types /\ config \in Configs /\ Placed(pl) /\ pl \in [CPUs -> Place]
  BY MeetingParts
<1>4. PICK q, pl2 : q \in Place /\ q = Succ(config, pl[c]) /\ Moves(pl, c, q, pl2) /\ Placed(pl2)'
  BY <1>2, <1>3, DonePlace DEF Goes, SignalBsp
<1>5. /\ q.k = pl[c].k - 1
      /\ \/ q.s = "wait" /\ q.k # LoopK(config)
         \/ q.s = "idle" /\ q.k = LoopK(config)
  BY <1>2, <1>3, <1>4, Numbers DEF Succ, ApSucc, OutStages, PreStages, ApStages, LoopStages, P, Odd
<1>6. IsAp(q) /\ ~IsPre(q) /\ ~IsOut(q) /\ pl2[c] = q /\ \A x \in CPUs : x # c => pl2[x] = pl[x]
  BY <1>4, <1>5, Kinds DEF Moves
<1>7. PairOK(pl2, pl[b], c)'
  <2>1. q.k \notin Odd /\ Left(pl[b], c) \in q.k - 1 .. q.k + 1
    BY <1>2, <1>5 DEF Odd
  <2>2. pl[b].s # "inside"
    BY <1>1, <1>2, MeetingParts DEF PairInv, PairOK
  <2>3. QED
    BY <1>1, <1>2, <1>5, <1>6, <2>1, <2>2 DEF PairOK
<1>8. cpu'[c] = cpu[c]
  BY <1>2 DEF Others
<1>9. RunOK(pl2, c)'
  <2>1. CASE q.s = "wait"
    <3>1. Left(pl[b], c) # q.k - 1 /\ q.s \notin LoopStages
      BY <1>2, <1>5, <2>1 DEF Odd, LoopStages
    <3>2. QED
      BY <1>1, <1>2, <1>6, <1>8, <3>1 DEF RunOK
  <2>2. CASE q.s = "idle"
    <3>1. Left(pl[b], c) = LoopK(config) + 1 /\ ~(Left(pl[b], c) < LoopK(config))
      BY <1>2, <1>3, <1>5, <2>2, Numbers DEF Odd
    <3>2. ~Loading(pl[b], c)
      <4>1. pl[b].s \in ServiceStages => pl[b].k = LoopK(config) /\ pl[b].s # "release"
        BY <1>2 DEF Valid, ServiceStages, OneStages, AllStages
      <4>2. pl[b].s \notin ServiceStages
        BY <1>3, <3>1, <4>1, Numbers DEF Left
      <4>3. QED
        BY <4>2 DEF Loading, ServiceStages, OneStages, AllStages
    <3>3. LoopOK(pl2, pl[b], c)'
      BY <1>2, <1>6, <1>8, <2>2, <3>1, <3>2 DEF LoopOK
    <3>4. QED
      BY <1>1, <1>2, <1>6, <1>8, <2>2, <3>3 DEF RunOK, LoopStages
  <2>3. QED
    BY <1>5, <2>1, <2>2
<1>10. PresentAt(q) /\ PresentAt(pl[c])
  BY <1>2, <1>5, <1>6 DEF PresentAt
<1>11. ~Final(pl[b])
  BY <1>2 DEF Final, Left, Odd
<1>12. Aps(pl2) = Aps(pl) /\ \A x \in CPUs : IsAtBsp(pl2[x]) => x = b
  <2>1. ~IsAtBsp(q)
    BY <1>4, <1>6, Kinds
  <2>2. \A x \in CPUs : IsAtBsp(pl[x]) => x = b
    BY <1>2, BspFacts
  <2>3. QED
    BY <1>2, <1>6, <2>1, <2>2 DEF Aps
<1>13. Signalled(pl2, pl[b]) = Signalled(pl, pl[b]) \cup {c} /\ c \notin Signalled(pl, pl[b])
  <2>1. Left(pl[b], c) = q.k + 1 /\ Left(pl[b], c) # pl[c].k + 1
    BY <1>2, <1>5 DEF Odd
  <2>2. QED
    BY <1>6, <2>1 DEF Signalled
<1>14. Cardinality(Signalled(pl2, pl[b])) = Cardinality(Signalled(pl, pl[b])) + 1
  <2>1. IsFiniteSet(Signalled(pl, pl[b]))
    <3>1. Signalled(pl, pl[b]) \subseteq CPUs
      BY DEF Signalled
    <3>2. QED
      BY <3>1, CountedFinite, FS_Subset
  <2>2. QED
    BY <1>13, <2>1, FS_AddElement
<1>15. GatherInv(pl2)'
  <2>1. cpu[b].run = Cardinality(Signalled(pl, pl[b]))
        /\ (Locked(config, pl[b]) => local[b].apCount = Cardinality(Aps(pl)))
    BY <1>2, <1>11, MeetingParts DEF GatherInv
  <2>2. pl2[b] = pl[b]
    BY <1>2, <1>6
  <2>3. cpu'[b].run = Cardinality(Signalled(pl2, pl[b]))
    BY <1>2, <1>14, <2>1
  <2>4. QED
    BY <1>2, <1>11, <1>12, <2>1, <2>2, <2>3 DEF GatherInv
<1>16. Meeting(pl2)'
  <2>1. q.s # "out"
    BY <1>5
  <2>2. PairOK(pl2, pl[bspIndex], c)'
    BY <1>1, <1>2, <1>7
  <2>3. QED
    BY <1>4, <1>6, <1>9, <1>10, <1>15, <2>1, <2>2, SignalFrame
<1>17. QED
  BY <1>4, <1>16 DEF Keeps

\* The last signal: the AP is on its way out.
LEMMA SignalLastKeeps ==
  ASSUME NEW pl, Meeting(pl), NEW c \in CPUs, SignalBsp(c), pl[c].k = 1
  PROVE  Keeps(pl, c, Succ(config, pl[c]))
<1>1. PICK b : b = bspIndex
  OBVIOUS
<1>2. /\ pl[c].s = "signal" /\ IsAp(pl[c]) /\ InSmm(c)
      /\ b \in CPUs /\ b # NoBsp /\ b # c /\ IsAtBsp(pl[b]) /\ pl[b].s # "reset_counter"
      /\ Left(pl[b], c) = pl[c].k /\ pl[b].k # 0 /\ Valid(config, pl[b]) /\ pl[b] \in Place
      /\ cpu[c].run = 0 /\ ~cpu[c].busy /\ cpu[b].run \in Nat
      /\ local[c].bsp = bspIndex
      /\ Others(b) /\ cpu'[b].run = cpu[b].run + 1 /\ cpu'[b].present = cpu[b].present
      /\ cpu'[b].busy = cpu[b].busy
      /\ counter' = counter /\ bspIndex' = bspIndex /\ config' = config /\ inside' = inside
      /\ local' = local /\ platform' = platform /\ allInSync' = allInSync /\ calls' = calls
  BY <1>1, SignalFacts
<1>3. Types /\ config \in Configs /\ Placed(pl) /\ pl \in [CPUs -> Place]
  BY MeetingParts
<1>4. PICK q, pl2 : q \in Place /\ q = Succ(config, pl[c]) /\ Moves(pl, c, q, pl2) /\ Placed(pl2)'
  BY <1>2, <1>3, DonePlace DEF Goes, SignalBsp
<1>5. q.s = "leave" /\ IsOut(q)
  BY <1>2, <1>4 DEF Succ, ApSucc, OutStages, PreStages, ApStages, LoopStages, P, IsOut
<1>6. /\ ~IsPre(q) /\ ~IsAp(q) /\ ~IsAtBsp(q) /\ pl2[c] = q /\ \A x \in CPUs : x # c => pl2[x] = pl[x]
      /\ ~IsOut(pl[c]) /\ ~IsPre(pl[c]) /\ ~IsAtBsp(pl[c])
  BY <1>2, <1>3, <1>4, <1>5, Kinds DEF Moves
<1>7. cpu'[c] = cpu[c]
  BY <1>2 DEF Others
<1>8. Final(pl[b]) /\ Locked(config, pl[b])
  <2>1. pl[b].k = 1 \/ (pl[b].s = "release" /\ pl[b].k = 2)
    BY <1>2 DEF Left, Valid, Even
  <2>2. QED
    BY <1>3, <2>1, Numbers DEF Final, Locked
<1>9. RunOK(pl2, c)'
  <2>1. q.s \notin LoopStages
    BY <1>5 DEF LoopStages
  <2>2. QED
    BY <1>2, <1>5, <1>6, <1>7, <2>1 DEF RunOK
<1>10. ~PresentAt(q) /\ ~PresentAt(pl[c])
  BY <1>2, <1>6 DEF PresentAt
<1>11. \A x \in CPUs : IsAtBsp(pl2[x]) => x = b
  <2>1. \A x \in CPUs : IsAtBsp(pl[x]) => x = b
    BY <1>2, BspFacts
  <2>2. QED
    BY <1>6, <2>1
<1>12. Aps(pl2) = Aps(pl) \ {c} /\ c \in Aps(pl)
  BY <1>2, <1>6 DEF Aps
<1>13. Cardinality(Aps(pl2)) = Cardinality(Aps(pl)) - 1 /\ Cardinality(Aps(pl)) \in Int
  <2>1. IsFiniteSet(Aps(pl)) /\ Cardinality(Aps(pl)) \in Int
    BY CountedFinite
  <2>2. Cardinality(Aps(pl) \ {c}) = Cardinality(Aps(pl)) - 1
    BY <1>12, <2>1, FS_RemoveElement
  <2>3. QED
    BY <1>12, <2>1, <2>2
<1>14. GatherInv(pl2)'
  <2>1. local[b].apCount = Cardinality(Aps(pl)) + cpu[b].run
    BY <1>2, <1>8, MeetingParts DEF GatherInv
  <2>2. pl2[b] = pl[b]
    BY <1>2, <1>6
  <2>3. local'[b].apCount = Cardinality(Aps(pl2)) + cpu'[b].run
    BY <1>2, <1>13, <2>1
  <2>4. QED
    BY <1>2, <1>8, <1>11, <2>2, <2>3 DEF GatherInv
<1>15. Meeting(pl2)'
  <2>1. q.s # "out"
    BY <1>5
  <2>2. QED
    BY <1>1, <1>4, <1>5, <1>6, <1>8, <1>9, <1>10, <1>14, <2>1, SignalFrame
<1>16. QED
  BY <1>4, <1>15 DEF Keeps

-----------------------------------------------------------------------------
(***************************************************************************)
(* The end of BSPHandler, and steps that move nobody.                      *)
(***************************************************************************)
\* Once the BSP has gathered the APs for the last time, everyone else is on the way out.
LEMMA EndFacts ==
  ASSUME NEW pl, Meeting(pl), NEW c \in CPUs, pl[c].s \in {"reset_bsp", "reset_counter"}
  PROVE  /\ IsAtBsp(pl[c]) /\ pl[c].k = 0 /\ cpu[c].run = 0 /\ ~inside /\ ~cpu[c].present
         /\ Aps(pl) = {} /\ \A x \in CPUs : x # c => IsOut(pl[x])
<1>1. pl[c] \in Place /\ Valid(config, pl[c]) /\ config \in Configs /\ pl \in [CPUs -> Place]
  BY MeetingParts DEF Placed
<1>2. IsAtBsp(pl[c]) /\ pl[c].k = 0 /\ ~IsAp(pl[c])
  <2>1. IsAtBsp(pl[c]) /\ pl[c].k = 0
    BY <1>1 DEF IsAtBsp, BspStages, Valid
  <2>2. QED
    BY <1>1, <2>1, Kinds
<1>3. Aps(pl) = {} /\ cpu[c].run = 0
  BY <1>2, MeetingParts DEF GatherInv
<1>4. \A x \in CPUs : IsAtBsp(pl[x]) => x = c
  BY <1>2, MeetingParts DEF IndexInv
<1>5. \A x \in CPUs : x # c => IsOut(pl[x])
  BY <1>1, <1>3, <1>4, Kinds DEF Aps
<1>6. ~inside
  <2>1. ~InsideAt(config, pl[c])
    BY <1>1, <1>2, Numbers DEF InsideAt
  <2>2. bspIndex \in {NoBsp} \cup CPUs
    BY MeetingParts DEF Types
  <2>3. QED
    BY <1>4, <2>1, <2>2, MeetingParts DEF InsideInv
<1>7. ~cpu[c].present
  BY <1>2, MeetingParts DEF PresentInv, PresentAt
<1>8. QED
  BY <1>2, <1>3, <1>5, <1>6, <1>7

\* The BSP gives its role back.
LEMMA ResetBspKeeps ==
  ASSUME NEW pl, Meeting(pl), NEW c \in CPUs, ResetBsp(c)
  PROVE  Keeps(pl, c, Succ(config, pl[c]))
<1>1. pl[c].s = "reset_bsp" /\ InSmm(c) /\ Types /\ config \in Configs /\ Placed(pl)
      /\ pl \in [CPUs -> Place]
  BY StageOf, MeetingParts DEF ResetBsp
<1>2. PICK q, pl2 : q \in Place /\ q = Succ(config, pl[c]) /\ Moves(pl, c, q, pl2) /\ Placed(pl2)'
  BY <1>1, DonePlace DEF Goes, ResetBsp
<1>3. q.s = "reset_counter" /\ q.k = 0
  BY <1>1, <1>2 DEF Succ, BspSucc, OutStages, PreStages, ApStages, LoopStages, OneStages,
                    AllStages, ServiceStages, P
<1>4. /\ IsAtBsp(pl[c]) /\ pl[c].k = 0 /\ cpu[c].run = 0 /\ ~inside /\ ~cpu[c].present
      /\ Aps(pl) = {} /\ \A x \in CPUs : x # c => IsOut(pl[x])
  BY <1>1, EndFacts
<1>5. bspIndex = c /\ c # NoBsp
  BY <1>1, <1>4, BspFacts
<1>6. /\ counter' = counter /\ config' = config /\ inside' = inside /\ cpu' = cpu
      /\ local' = local /\ platform' = platform /\ allInSync' = allInSync /\ calls' = Calls0
      /\ bspIndex' = IF config.election THEN NoBsp ELSE bspIndex
  BY DEF ResetBsp
<1>7. IsAtBsp(q) /\ ~IsPre(q) /\ ~IsAp(q) /\ ~IsOut(q) /\ q.s \notin LoopStages
  BY <1>2, <1>3, Kinds
<1>8. \A x \in CPUs : x # c => /\ pl2[x] = pl[x] /\ IsOut(pl2[x]) /\ ~IsPre(pl2[x]) /\ ~IsAp(pl2[x])
                               /\ ~IsAtBsp(pl2[x]) /\ pl2[x].s \notin LoopStages
  BY <1>1, <1>2, <1>4, Kinds DEF Moves
<1>9. pl2[c] = q
  BY <1>2 DEF Moves
<1>10. Types'
  <2>1. Calls0 \in CallData
    BY SmmAssumption DEF Calls0, CallData, NoCall
  <2>2. QED
    BY <1>1, <1>6, <2>1 DEF Types
<1>11. CpusInv(pl2)'
  BY <1>1, <1>2, <1>6, CpusFrame
<1>12. IndexInv(pl2)'
  BY <1>3, <1>6, <1>8, <1>9, MeetingParts DEF IndexInv
<1>13. InsideInv(pl2)'
  <2>1. ~InsideAt(config, q)
    BY <1>1, <1>3, Numbers DEF InsideAt
  <2>2. QED
    BY <1>4, <1>5, <1>6, <1>9, <2>1 DEF InsideInv
<1>14. CounterInv(pl2)'
  <2>1. counter = LOCKED
    BY <1>1, <1>4, MeetingParts DEF CounterInv, Locked
  <2>2. Locked(config, q)
    BY <1>3 DEF Locked
  <2>3. QED
    BY <1>6, <1>7, <1>9, <2>1, <2>2 DEF CounterInv
<1>15. LateInv(pl2)'
  BY <1>3, <1>6, <1>8, <1>9, MeetingParts DEF LateInv
<1>16. ArriveInv(pl2)' /\ PairInv(pl2)'
  BY <1>7, <1>8, <1>9 DEF ArriveInv, PairInv
<1>17. RunInv(pl2)'
  <2>1. \A x \in CPUs : x # c => cpu[x].run = 0
    BY <1>4, MeetingParts DEF RunInv, RunOK
  <2>2. QED
    BY <1>6, <1>7, <1>8, <1>9, <2>1 DEF RunInv, RunOK
<1>18. GatherInv(pl2)'
  <2>1. Aps(pl2) = {}
    BY <1>7, <1>8, <1>9 DEF Aps
  <2>2. QED
    BY <1>3, <1>4, <1>6, <1>8, <1>9, <2>1 DEF GatherInv
<1>19. PresentInv(pl2)'
  <2>1. ~PresentAt(q)
    BY <1>3, <1>7 DEF PresentAt
  <2>2. QED
    BY <1>4, <1>6, <1>8, <1>9, <2>1, MeetingParts DEF PresentInv
<1>20. OneInv(pl2)'
  <2>1. \A x \in CPUs : pl2[x].s \notin OneStages
    <3>1. q.s \notin OneStages
      BY <1>3 DEF OneStages
    <3>2. pl2 \in [CPUs -> Place]
      BY <1>2 DEF Moves
    <3>3. QED
      BY <1>8, <1>9, <3>1, <3>2, Kinds
  <2>2. QED
    BY <2>1 DEF OneInv
<1>21. Meeting(pl2)'
  BY <1>2, <1>10, <1>11, <1>12, <1>13, <1>14, <1>15, <1>16, <1>17, <1>18, <1>19, <1>20 DEF Meeting
<1>22. QED
  BY <1>2, <1>21 DEF Keeps

\* The BSP reopens Counter for the next SMI.
LEMMA ResetCounterKeeps ==
  ASSUME NEW pl, Meeting(pl), NEW c \in CPUs, ResetCounter(c)
  PROVE  Keeps(pl, c, Succ(config, pl[c]))
<1>1. pl[c].s = "reset_counter" /\ InSmm(c) /\ Types /\ config \in Configs /\ Placed(pl)
      /\ pl \in [CPUs -> Place]
  BY StageOf, MeetingParts DEF ResetCounter
<1>2. PICK q, pl2 : q \in Place /\ q = Succ(config, pl[c]) /\ Moves(pl, c, q, pl2) /\ Placed(pl2)'
  BY <1>1, DonePlace DEF Goes, ResetCounter
<1>3. q.s = "reset_sync" /\ IsOut(q)
  BY <1>1, <1>2 DEF Succ, BspSucc, OutStages, PreStages, ApStages, LoopStages, OneStages,
                    AllStages, ServiceStages, P, IsOut
<1>4. /\ IsAtBsp(pl[c]) /\ pl[c].k = 0 /\ cpu[c].run = 0 /\ ~inside /\ ~cpu[c].present
      /\ Aps(pl) = {} /\ \A x \in CPUs : x # c => IsOut(pl[x])
  BY <1>1, EndFacts
<1>5. /\ counter' = 0 /\ config' = config /\ inside' = inside /\ cpu' = cpu /\ bspIndex' = bspIndex
      /\ local' = local /\ platform' = platform /\ allInSync' = allInSync /\ calls' = calls
  BY DEF ResetCounter
<1>6. pl2 \in [CPUs -> Place] /\ pl2[c] = q /\ \A x \in CPUs : x # c => pl2[x] = pl[x]
  BY <1>2 DEF Moves
<1>7. \A x \in CPUs : IsOut(pl2[x])
  BY <1>3, <1>4, <1>6
<1>8. \A x \in CPUs : ~IsPre(pl2[x]) /\ ~IsAp(pl2[x]) /\ ~IsAtBsp(pl2[x])
      /\ pl2[x].s \notin LoopStages
                      /\ pl2[x].s \notin OneStages
  BY <1>6, <1>7, Kinds
<1>9. Types'
  BY <1>1, <1>5 DEF Types
<1>10. CpusInv(pl2)'
  BY <1>1, <1>2, <1>5, CpusFrame
<1>11. IndexInv(pl2)'
  <2>1. config.election => bspIndex = NoBsp
    <3>1. bspIndex \in {NoBsp} \cup CPUs
      BY <1>1 DEF Types
    <3>2. \A x \in CPUs : IsAtBsp(pl[x]) => x = c
      BY <1>4, MeetingParts DEF IndexInv
    <3>3. QED
      BY <1>1, <3>1, <3>2, MeetingParts DEF IndexInv
  <2>2. QED
    BY <1>5, <1>8, <2>1, MeetingParts DEF IndexInv
<1>12. InsideInv(pl2)'
  <2>1. bspIndex \in {NoBsp} \cup CPUs
    BY <1>1 DEF Types
  <2>2. QED
    BY <1>4, <1>5, <1>8, <2>1 DEF InsideInv
<1>13. CounterInv(pl2)' /\ LateInv(pl2)'
  <2>1. Counted(pl2) = {}
    BY <1>7 DEF Counted
  <2>2. Cardinality(Counted(pl2)) = 0
    BY <2>1, FS_EmptySet
  <2>3. QED
    BY <1>5, <1>8, <2>2 DEF CounterInv, LateInv, LOCKED
<1>14. ArriveInv(pl2)' /\ PairInv(pl2)' /\ GatherInv(pl2)' /\ OneInv(pl2)'
  BY <1>8 DEF ArriveInv, PairInv, GatherInv, OneInv
<1>15. RunInv(pl2)'
  <2>1. \A x \in CPUs : cpu[x].run = 0
    BY <1>4, MeetingParts DEF RunInv, RunOK
  <2>2. QED
    BY <1>5, <1>8, <2>1 DEF RunInv, RunOK
<1>16. PresentInv(pl2)'
  BY <1>4, <1>5, <1>6, <1>8, MeetingParts DEF PresentInv, PresentAt
<1>17. Meeting(pl2)'
  BY <1>2, <1>9, <1>10, <1>11, <1>12, <1>13, <1>14, <1>15, <1>16 DEF Meeting
<1>18. QED
  BY <1>2, <1>17 DEF Keeps

\* Nothing the rendezvous is about changes.
LEMMA StillMeeting ==
  ASSUME NEW pl, Meeting(pl), Types', CpusInv(pl)', prog' = prog, config' = config,
         counter' = counter, inside' = inside, bspIndex' = bspIndex, cpu' = cpu, local' = local
  PROVE  Meeting(pl)'
<1>1. Placed(pl)' /\ IndexInv(pl)' /\ InsideInv(pl)' /\ CounterInv(pl)' /\ LateInv(pl)'
  BY MeetingParts DEF Placed, IndexInv, InsideInv, CounterInv, LateInv
<1>2. ArriveInv(pl)' /\ PairInv(pl)' /\ PresentInv(pl)' /\ OneInv(pl)'
  BY MeetingParts DEF ArriveInv, PairInv, PairOK, PresentInv, OneInv
<1>3. RunInv(pl)'
  <2>1. ASSUME NEW x \in CPUs PROVE RunOK(pl, x)'
    BY MeetingParts DEF RunInv, RunOK, LoopOK
  <2>2. QED
    BY <2>1 DEF RunInv
<1>4. GatherInv(pl)'
  BY MeetingParts DEF GatherInv
<1>5. QED
  BY <1>1, <1>2, <1>3, <1>4 DEF Meeting

\* The platform raises an SMI.
LEMMA RaiseKeeps ==
  ASSUME NEW pl, Meeting(pl), Raise
  PROVE  Meeting(pl)'
<1>1. /\ counter' = counter /\ config' = config /\ inside' = inside /\ cpu' = cpu
         /\ bspIndex' = bspIndex
      /\ local' = local /\ allInSync' = allInSync /\ calls' = calls /\ prog' = prog
      /\ platform' = [status |-> TRUE, pending |-> [c \in CPUs |-> c <= config.cpus],
                      smis |-> platform.smis + 1]
      /\ platform.smis < config.smis
  BY DEF Raise
<1>2. Types /\ config \in Configs /\ config.smis \in 0 .. MaxSmis /\ MaxSmis \in Nat
  BY MeetingParts, SmmAssumption
<1>3. platform.smis \in 0 .. MaxSmis
  BY <1>2 DEF Types, PlatformData
<1>4. platform.smis + 1 \in 0 .. MaxSmis
  BY <1>1, <1>2, <1>3
<1>5. platform' \in PlatformData
  BY <1>1, <1>4 DEF PlatformData
<1>6. Types'
  BY <1>1, <1>2, <1>5 DEF Types
<1>7. CpusInv(pl)'
  <2>1. \A c \in CPUs : platform'.pending[c] => c <= config.cpus
    BY <1>1
  <2>2. QED
    BY <1>1, <2>1, MeetingParts DEF CpusInv
<1>8. QED
  BY <1>1, <1>6, <1>7, StillMeeting

\* A step that changes nothing.
LEMMA StutterKeeps ==
  ASSUME NEW pl, Meeting(pl), UNCHANGED vars
  PROVE  Meeting(pl)'
<1>1. /\ counter' = counter /\ config' = config /\ inside' = inside /\ cpu' = cpu
         /\ bspIndex' = bspIndex
      /\ local' = local /\ allInSync' = allInSync /\ calls' = calls /\ prog' = prog
         /\ platform' = platform
  BY DEF vars
<1>2. Types' /\ CpusInv(pl)'
  BY <1>1, MeetingParts DEF Types, CpusInv
<1>3. QED
  BY <1>1, <1>2, StillMeeting

-----------------------------------------------------------------------------
(***************************************************************************)
(* The invariant holds.                                                    *)
(***************************************************************************)
\* BroadcastProcedure is used only where the BSP gathers the APs before it runs the SMI
\* handlers; elsewhere an AP may arrive between two passes of InternalSmmStartupAllAPs.
Supported == \A p \in Configs : "BroadcastProcedure" \in p.services => p.tradition \/ p.mtrrs

\* The invariant.
Meets == \E pl : Meeting(pl)

\* At the start all processors are out of SMM.
LEMMA InitMeeting ==
  ASSUME Init
  PROVE  \E pl : /\ Meeting(pl) /\ \A c \in CPUs : pl[c].s = "out"
<1> DEFINE o == P("out", 0, 0, FALSE)
<1>1. o \in Place /\ o.s = "out" /\ o.k = 0 /\ o.i = 0 /\ IsOut(o)
  BY SmmAssumption DEF P, Place, OutStages, IsOut
<1> HIDE DEF o
<1>2. PICK pl : pl = [c \in CPUs |-> o]
  OBVIOUS
<1>3. pl \in [CPUs -> Place] /\ \A c \in CPUs : pl[c] = o
  BY <1>1, <1>2
<1>4. /\ ~IsPre(o) /\ ~IsAp(o) /\ ~IsAtBsp(o) /\ o.s \notin LoopStages /\ o.s \notin OneStages
  BY <1>1, Kinds
<1>5. /\ config \in Configs /\ counter = 0 /\ inside = FALSE /\ allInSync = FALSE
      /\ bspIndex = (IF config.election THEN NoBsp ELSE 1)
      /\ cpu = [c \in CPUs |-> Data0] /\ prog = [c \in CPUs |-> <<>>]
      /\ local = [c \in CPUs |-> Local0] /\ calls = Calls0
      /\ platform = [status |-> FALSE, pending |-> [c \in CPUs |-> FALSE], smis |-> 0]
  BY DEF Init
<1>6. 1 \in CPUs /\ N \in Nat /\ config.cpus \in 1 .. N
  BY <1>5, SmmAssumption DEF CPUs
<1>7. Types
  <2>1. Calls0 \in CallData
    BY SmmAssumption DEF Calls0, CallData, NoCall
  <2>2. cpu \in CpuData
    BY <1>5, SmmAssumption DEF Data0, CpuData, NoCall
  <2>3. local \in LocalData
    BY <1>5, SmmAssumption DEF Local0, LocalData
  <2>4. platform \in PlatformData
    BY <1>5, SmmAssumption DEF PlatformData
  <2>5. counter \in Int /\ bspIndex \in {NoBsp} \cup CPUs /\ calls \in CallData
    BY <1>5, <1>6, <2>1
  <2>6. inside \in BOOLEAN /\ allInSync \in BOOLEAN
    BY <1>5
  <2>7. QED
    BY <1>5, <2>2, <2>3, <2>4, <2>5, <2>6 DEF Types
<1>8. Placed(pl)
  <2>1. Code(config, o) = <<>>
    BY <1>1 DEF Code, OutCode, OutStages
  <2>2. Valid(config, o)
    BY <1>1 DEF Valid, PreStages, LoopStages, ServiceStages, OneStages, AllStages
  <2>3. QED
    BY <1>3, <1>5, <2>1, <2>2 DEF Placed
<1>9. CpusInv(pl)
  BY <1>1, <1>3, <1>5, <1>6 DEF CpusInv, NoBsp
<1>10. IndexInv(pl) /\ InsideInv(pl)
  <2>1. bspIndex # NoBsp => bspIndex \in CPUs
    BY <1>5, <1>6
  <2>2. IndexInv(pl)
    BY <1>3, <1>4, <1>5, <2>1 DEF IndexInv
  <2>3. InsideInv(pl)
    BY <1>3, <1>4, <1>5, <2>1 DEF InsideInv
  <2>4. QED
    BY <2>2, <2>3
<1>11. CounterInv(pl) /\ LateInv(pl)
  <2>1. Counted(pl) = {}
    BY <1>1, <1>3 DEF Counted
  <2>2. Cardinality(Counted(pl)) = 0
    BY <2>1, FS_EmptySet
  <2>3. QED
    BY <1>3, <1>4, <1>5, <2>2 DEF CounterInv, LateInv, LOCKED
<1>12. ArriveInv(pl) /\ PairInv(pl) /\ GatherInv(pl) /\ OneInv(pl)
  BY <1>3, <1>4 DEF ArriveInv, PairInv, GatherInv, OneInv
<1>13. RunInv(pl) /\ PresentInv(pl)
  <2>1. \A c \in CPUs : cpu[c].run = 0 /\ cpu[c].present = FALSE
    BY <1>5 DEF Data0
  <2>2. RunInv(pl)
    BY <1>3, <1>4, <2>1 DEF RunInv, RunOK
  <2>3. PresentInv(pl)
    BY <1>3, <1>4, <2>1 DEF PresentInv, PresentAt
  <2>4. QED
    BY <2>2, <2>3
<1>14. Meeting(pl)
  BY <1>7, <1>8, <1>9, <1>10, <1>11, <1>12, <1>13 DEF Meeting
<1>15. QED
  BY <1>1, <1>3, <1>14

\* The steps of SmiRendezvous keep the invariant,
LEMMA RendezvousKeeps ==
  ASSUME NEW pl, Meeting(pl), NEW c \in CPUs, Enter(c) \/ RendezvousStep(c)
  PROVE  Meets'
<1>1. CASE Enter(c)
  BY <1>1, EnterKeeps DEF Keeps, Meets
<1>2. CASE PlatformValidSmi(c)
  BY <1>2, ValidSmiKeeps DEF Keeps, Meets
<1>3. CASE BspInProgress(c)
  BY <1>3, InProgressKeeps DEF Keeps, Meets
<1>4. CASE CheckIn(c)
  BY <1>4, CheckInKeeps DEF KeepsIn, Meets
<1>5. CASE Elect(c)
  BY <1>5, ElectKeeps DEF KeepsIn, Meets
<1>6. CASE Leave(c)
  BY <1>6, LeaveKeeps DEF Keeps, Meets
<1>7. QED
  BY <1>1, <1>2, <1>3, <1>4, <1>5, <1>6 DEF RendezvousStep

\* those of BSPHandler do,
LEMMA BspKeeps ==
  ASSUME Timely, NEW pl, Meeting(pl), NEW c \in CPUs, BspStep(c)
  PROVE  Meets'
<1>1. CASE FlagBsp(c)
  BY <1>1, FlagBspKeeps DEF Keeps, Meets
<1>2. CASE MarkBsp(c)
  BY <1>2, MarkBspKeeps DEF Keeps, Meets
<1>3. CASE AwaitAps(c)
  BY <1>3, AwaitApsKeeps DEF Keeps, Meets
<1>4. CASE SendSmiIpis(c)
  BY <1>4, SendSmiIpisKeeps DEF Keeps, Meets
<1>5. CASE SetAllCpusInSync(c)
  BY <1>5, SetAllCpusInSyncKeeps DEF Keeps, Meets
<1>6. CASE LockdownSemaphore(c)
  BY <1>6, LockdownKeeps DEF Keeps, Meets
<1>7. CASE WaitForAllAPs(c)
  BY <1>7, WaitForAllAPsKeeps DEF Keeps, Meets
<1>8. CASE ReleaseAp(c)
  <2>1. pl[c].s \in {"release", "bcast"}
    BY <1>8, StageOf DEF ReleaseAp
  <2>2. QED
    BY <1>8, <2>1, ReleaseApKeeps, BcastApKeeps DEF Keeps, Meets
<1>9. CASE AcquireOwnBusy(c)
  BY <1>9, AcquireOwnBusyKeeps DEF Keeps, Meets
<1>10. CASE WaitNotBusy(c)
  <2>1. pl[c].s = "not_busy" \/ pl[c].s \in ServiceStages
    BY <1>10, StageOf DEF WaitNotBusy, ServiceStages, AllStages
  <2>2. QED
    BY <1>10, <2>1, NotBusyKeeps, WaitOneKeeps DEF Keeps, Meets
<1>11. CASE AllPresent(c)
  BY <1>11, AllPresentKeeps DEF Keeps, Meets
<1>12. CASE NotifyExit(c)
  BY <1>12, NotifyExitKeeps DEF Keeps, Meets
<1>13. CASE ClearPresent(c)
  <2>1. pl[c].s \in {"absent", "ap_absent"}
    BY <1>13, StageOf DEF ClearPresent, ApOps
  <2>2. QED
    BY <1>13, <2>1, BspAbsentKeeps, ApAbsentKeeps DEF Keeps, KeepsIn, Meets
<1>14. CASE ResetBsp(c)
  BY <1>14, ResetBspKeeps DEF Keeps, Meets
<1>15. CASE ResetCounter(c)
  BY <1>15, ResetCounterKeeps DEF Keeps, Meets
<1>16. CASE ResetSync(c)
  BY <1>16, ResetSyncKeeps DEF Keeps, Meets
<1>17. QED
  BY <1>1, <1>2, <1>3, <1>4, <1>5, <1>6, <1>7, <1>8, <1>9, <1>10, <1>11, <1>12, <1>13, <1>14,
     <1>15, <1>16 DEF BspStep

\* those of the services do,
LEMMA HandlerKeeps ==
  ASSUME Supported, NEW pl, Meeting(pl), NEW c \in CPUs, HandlerStep(c)
  PROVE  Meets'
<1>1. CASE EndHandlers(c)
  BY <1>1, EndHandlersKeeps DEF Keeps, Meets
<1>2. CASE Wrap(c)
  BY <1>2, WrapKeeps DEF Keeps, Meets
<1>3. CASE AcquireBusy(c)
  BY <1>3, AcquireBusyKeeps DEF Keeps, Meets
<1>4. CASE Schedule(c)
  BY <1>4, ScheduleKeeps DEF Keeps, Meets
<1>5. CASE ReleaseRun(c)
  BY <1>5, ReleaseRunKeeps DEF Keeps, Meets
<1>6. CASE \E i \in CPUs : SmmStartupThisAp(c, i)
  BY <1>6, StartupKeeps DEF Keeps, Meets
<1>7. ASSUME NEW blocking \in BOOLEAN, BroadcastProcedure(c, blocking) PROVE Meets'
  <2>1. "BroadcastProcedure" \in config.services
    BY <1>7 DEF BroadcastProcedure, NewCall
  <2>2. Gathers(config)
    BY <2>1, MeetingParts DEF Supported, Gathers
  <2>3. QED
    BY <1>7, <2>2, BroadcastKeeps DEF Keeps, Meets
<1>8. ASSUME NEW blocking \in BOOLEAN, NEW i \in CPUs, DispatchProcedure(c, i, blocking) PROVE Meets'
  BY <1>8, DispatchKeeps DEF Keeps, Meets
<1>9. QED
  BY <1>1, <1>2, <1>3, <1>4, <1>5, <1>6, <1>7, <1>8 DEF HandlerStep

\* and those of APHandler do.
LEMMA ApKeeps ==
  ASSUME NEW pl, Meeting(pl), NEW c \in CPUs, ApStep(c)
  PROVE  Meets'
<1>1. CASE BspSeen(c)
  BY <1>1, BspSeenKeeps DEF KeepsIn, Meets
<1>2. CASE TimerFires(c)
  BY <1>2, TimerFiresKeeps DEF KeepsIn, Meets
<1>3. CASE LookAgain(c)
  BY <1>3, LookAgainKeeps DEF KeepsIn, Meets
<1>4. CASE AskBsp(c)
  BY <1>4, AskBspKeeps DEF KeepsIn, Meets
<1>5. CASE GiveUp(c)
  BY <1>5, GiveUpKeeps DEF KeepsIn, Meets
<1>6. CASE FindBsp(c)
  BY <1>6, FindBspKeeps DEF KeepsIn, Meets
<1>7. CASE MarkAp(c)
  BY <1>7, MarkApKeeps DEF KeepsIn, Meets
<1>8. CASE SignalBsp(c)
  BY <1>8, SignalMoreKeeps, SignalLastKeeps DEF Keeps, Meets
<1>9. CASE WaitForRun(c)
  <2>1. pl[c].s \in {"wait", "idle"}
    BY <1>9, WaitForRunGoes
  <2>2. QED
    BY <1>9, <2>1, WaitKeeps, IdleKeeps DEF Keeps, KeepsIn, Meets
<1>10. CASE TestExit(c)
  BY <1>10, TestExitKeeps DEF Keeps, Meets
<1>11. CASE RunProcedure(c)
  BY <1>11, RunProcedureKeeps DEF Keeps, Meets
<1>12. CASE ReleaseToken(c)
  BY <1>12, ReleaseTokenKeeps DEF Keeps, Meets
<1>13. CASE FreeBusy(c)
  BY <1>13, FreeBusyKeeps DEF Keeps, Meets
<1>14. QED
  BY <1>1, <1>2, <1>3, <1>4, <1>5, <1>6, <1>7, <1>8, <1>9, <1>10, <1>11, <1>12, <1>13 DEF ApStep

\* The invariant is inductive.
LEMMA NextKeeps ==
  ASSUME Timely, Supported, Meets, [Next]_vars
  PROVE  Meets'
<1>1. PICK pl : Meeting(pl)
  BY DEF Meets
<1>2. CASE UNCHANGED vars
  BY <1>1, <1>2, StutterKeeps DEF Meets
<1>3. CASE Raise
  BY <1>1, <1>3, RaiseKeeps DEF Meets
<1>4. ASSUME NEW c \in CPUs, Enter(c) \/ CpuStep(c) PROVE Meets'
  BY <1>1, <1>4, RendezvousKeeps, BspKeeps, HandlerKeeps, ApKeeps DEF CpuStep
<1>5. QED
  BY <1>2, <1>3, <1>4 DEF Next

\* The processors are where the invariant says, in every state of every behaviour.
THEOREM SmmMeets ==
  ASSUME Timely, Supported
  PROVE  Spec => []Meets
<1>1. Init => Meets
  BY InitMeeting DEF Meets
<1>2. Meets /\ [Next]_vars => Meets'
  BY NextKeeps
<1>3. QED
  BY <1>1, <1>2, PTL DEF Spec

-----------------------------------------------------------------------------
(***************************************************************************)
(* What follows.                                                           *)
(***************************************************************************)
\* No two processors are in BSPHandler before its reset of Counter.
LEMMA MeetingOneBsp ==
  ASSUME NEW pl, Meeting(pl)
  PROVE  OneBsp
<1>1. ASSUME NEW b \in CPUs, IsBsp(b) PROVE IsAtBsp(pl[b])
  <2>1. pl[b] \in Place
    BY MeetingParts
  <2>2. Types /\ Placed(pl)
    BY MeetingParts
  <2>3. InSmm(b) /\ Head(prog[b])[1] \in BspOps
    BY <1>1 DEF IsBsp
  <2>4. At(b, Head(prog[b])[1])
    BY <2>3 DEF At
  <2>5. Op(pl[b]) \in BspOps
    BY <2>2, <2>3, <2>4, AtPlace
  <2>6. QED
    BY <2>1, <2>5 DEF Op, BspOps, Place, IsAtBsp, OutStages, PreStages, ApStages, LoopStages
<1>2. QED
  BY <1>1, MeetingParts DEF OneBsp, IndexInv

\* An AP that goes to signal the BSP knows another processor as the BSP.
LEMMA MeetingApKnowsBsp ==
  ASSUME NEW pl, Meeting(pl)
  PROVE  ApKnowsBsp
<1>1. ASSUME NEW c \in CPUs, At(c, "ap_present") \/ At(c, "signal") PROVE local[c].bsp \in CPUs \ {c}
  <2>1. pl[c].s \in {"ap_present", "signal"}
    BY <1>1, StageOf DEF ApOps
  <2>2. IsAp(pl[c])
    BY <2>1 DEF IsAp, ApStages
  <2>3. bspIndex \in CPUs /\ bspIndex # c /\ PairOK(pl, pl[bspIndex], c)
    BY <2>2, ApFacts
  <2>4. QED
    BY <2>1, <2>3 DEF PairOK
<1>2. QED
  BY <1>1 DEF ApKnowsBsp

\* A processor that leaves has no signal pending.
LEMMA MeetingRunDrained ==
  ASSUME NEW pl, Meeting(pl)
  PROVE  RunDrained
<1>1. ASSUME NEW c \in CPUs, At(c, "leave") PROVE cpu[c].run = 0
  <2>1. pl[c].s = "leave"
    BY <1>1, StageOf DEF ApOps
  <2>2. IsOut(pl[c])
    BY <2>1 DEF IsOut, OutStages
  <2>3. QED
    BY <2>2, MeetingParts DEF RunInv, RunOK
<1>2. QED
  BY <1>1 DEF RunDrained

\* While the BSP waits for arrivals, Counter counts processors of the platform.
LEMMA MeetingCounterInRange ==
  ASSUME NEW pl, Meeting(pl)
  PROVE  CounterInRange
<1>1. ASSUME NEW c \in CPUs, At(c, "arrive") \/ At(c, "send_ipi") PROVE counter \in 0 .. config.cpus
  <2>1. pl[c].s \in {"arrive", "send_ipi"} /\ pl[c] \in Place /\ Valid(config, pl[c])
        /\ config \in Configs
    BY <1>1, StageOf
  <2>2. IsAtBsp(pl[c]) /\ pl[c].k = TopK(config) /\ pl[c].s # "reset_counter"
    BY <2>1 DEF IsAtBsp, BspStages, Valid
  <2>3. ~Locked(config, pl[c])
    BY <2>1, <2>2, Numbers DEF Locked
  <2>4. \A x \in CPUs : IsAtBsp(pl[x]) => x = c
    BY <2>2, BspFacts
  <2>5. counter = Cardinality(Counted(pl))
    BY <2>3, <2>4, MeetingParts DEF CounterInv
  <2>6. config.cpus \in 1 .. N /\ N \in Nat
    BY <2>1, SmmAssumption
  <2>7. Counted(pl) \subseteq 1 .. config.cpus
    <3>1. ASSUME NEW x \in CPUs, ~IsOut(pl[x]) PROVE x <= config.cpus
      <4>1. pl[x].s # "out"
        BY <3>1 DEF IsOut, OutStages
      <4>2. QED
        BY <4>1, MeetingParts DEF CpusInv
    <3>2. QED
      BY <2>6, <3>1 DEF Counted, CPUs
  <2>8. IsFiniteSet(1 .. config.cpus) /\ Cardinality(1 .. config.cpus) = config.cpus
    BY <2>6, FS_Interval
  <2>9. Cardinality(Counted(pl)) <= config.cpus
    BY <2>7, <2>8, FS_Subset, ZenonT(60)
  <2>10. Cardinality(Counted(pl)) \in Nat
    BY CountedFinite
  <2>11. QED
    BY <2>5, <2>6, <2>9, <2>10
<1>2. QED
  BY <1>1 DEF CounterInRange

\* When the BSP asks the APs to exit, those it counts are those that see its signals.
LEMMA MeetingCountedArePresent ==
  ASSUME NEW pl, Meeting(pl)
  PROVE  CountedArePresent
<1>1. ASSUME NEW b \in CPUs, At(b, "outside")
      PROVE  Cardinality({i \in CPUs : IsPresentAp(b, i)}) = local[b].apCount
  <2>1. pl[b].s = "outside" /\ pl[b] \in Place /\ Valid(config, pl[b]) /\ config \in Configs
    BY <1>1, StageOf
  <2>2. IsAtBsp(pl[b]) /\ pl[b].k = LoopK(config) /\ pl[b].s # "reset_counter" /\ pl[b].s # "release"
    BY <2>1 DEF IsAtBsp, BspStages, Valid
  <2>3. pl[b].k # 0 /\ ~Final(pl[b]) /\ Locked(config, pl[b])
    BY <2>1, <2>2, Numbers DEF Final, Locked
  <2>4. local[b].apCount = Cardinality(Aps(pl))
    BY <2>2, <2>3, MeetingParts DEF GatherInv
  <2>5. AllArrived(pl) /\ bspIndex = b
    BY <2>1, <2>2, BspFacts DEF Arriving
  <2>6. ASSUME NEW x \in CPUs PROVE IsPresentAp(b, x) <=> IsPre(pl[x]) \/ IsAp(pl[x])
    <3>1. pl[x] \in Place /\ ~IsPre(pl[x]) /\ pl[x].s \notin {"find_bsp", "ap_present"}
      BY <2>5, MeetingParts DEF AllArrived
    <3>2. CASE x = b
      BY <2>2, <3>1, <3>2, Kinds DEF IsPresentAp
    <3>3. CASE x # b /\ IsAp(pl[x])
      <4>1. PairOK(pl, pl[b], x) /\ Left(pl[b], x) = LoopK(config)
        BY <2>2, <2>5, <3>3, ApFacts DEF Left
      <4>2. pl[x].k # 1
        BY <2>1, <3>1, <4>1, Numbers DEF PairOK, Odd
      <4>3. cpu[x].present
        BY <3>1, <3>3, <4>2, MeetingParts DEF PresentInv, PresentAt
      <4>4. QED
        BY <3>3, <4>3 DEF IsPresentAp
    <3>4. CASE x # b /\ ~IsAp(pl[x])
      <4>1. ~IsAtBsp(pl[x])
        BY <2>2, <3>4, BspFacts
      <4>2. ~cpu[x].present
        BY <3>4, <4>1, MeetingParts DEF PresentInv, PresentAt
      <4>3. QED
        BY <3>1, <3>4, <4>2 DEF IsPresentAp
    <3>5. QED
      BY <3>2, <3>3, <3>4
  <2>7. {i \in CPUs : IsPresentAp(b, i)} = Aps(pl)
    BY <2>6 DEF Aps
  <2>8. QED
    BY <2>4, <2>7
<1>2. QED
  BY <1>1 DEF CountedArePresent

\* An AP runs a procedure only while its Busy is held for it.
LEMMA MeetingBusyHeld ==
  ASSUME NEW pl, Meeting(pl)
  PROVE  BusyHeld
<1>1. ASSUME NEW c \in CPUs, At(c, "procedure") PROVE cpu[c].busy
  <2>1. pl[c].s = "procedure"
    BY <1>1, StageOf DEF ApOps
  <2>2. LoopOK(pl, pl[bspIndex], c)
    BY <2>1, MeetingParts DEF RunInv, RunOK, LoopStages
  <2>3. QED
    BY <2>1, <2>2 DEF LoopOK
<1>2. QED
  BY <1>1 DEF BusyHeld

\* One BSP, for any number of processors.
THEOREM SmmOneBsp ==
  ASSUME Timely, Supported
  PROVE  Spec => []OneBsp
<1>1. Meets => OneBsp
  BY MeetingOneBsp DEF Meets
<1>2. QED
  BY <1>1, SmmMeets, PTL

\* The assertion of APHandler about BspIndex holds.
THEOREM SmmApKnowsBsp ==
  ASSUME Timely, Supported
  PROVE  Spec => []ApKnowsBsp
<1>1. Meets => ApKnowsBsp
  BY MeetingApKnowsBsp DEF Meets
<1>2. QED
  BY <1>1, SmmMeets, PTL

\* The assertion at the end of SmiRendezvous that Run is 0 holds.
THEOREM SmmRunDrained ==
  ASSUME Timely, Supported
  PROVE  Spec => []RunDrained
<1>1. Meets => RunDrained
  BY MeetingRunDrained DEF Meets
<1>2. QED
  BY <1>1, SmmMeets, PTL

\* The assertion of SmmWaitForApArrival about Counter holds.
THEOREM SmmCounterInRange ==
  ASSUME Timely, Supported
  PROVE  Spec => []CounterInRange
<1>1. Meets => CounterInRange
  BY MeetingCounterInRange DEF Meets
<1>2. QED
  BY <1>1, SmmMeets, PTL

\* The BSP waits for exactly the APs that it signals.
THEOREM SmmCountedArePresent ==
  ASSUME Timely, Supported
  PROVE  Spec => []CountedArePresent
<1>1. Meets => CountedArePresent
  BY MeetingCountedArePresent DEF Meets
<1>2. QED
  BY <1>1, SmmMeets, PTL

\* The assertion of APHandler about Busy holds.
THEOREM SmmBusyHeld ==
  ASSUME Timely, Supported
  PROVE  Spec => []BusyHeld
<1>1. Meets => BusyHeld
  BY MeetingBusyHeld DEF Meets
<1>2. QED
  BY <1>1, SmmMeets, PTL

-----------------------------------------------------------------------------
(***************************************************************************)
(* Procedures and tokens.                                                  *)
(***************************************************************************)
\* What BSP place q, in a service, knows of the call it starts.
ServedOK(q) ==
  /\ q.s \in ServiceStages => calls.made >= 1 /\ calls.token \in {NoCall, calls.made}
  /\ q.s \in ServiceStages \ {"wrap"} => (q.b <=> calls.token = NoCall)
  /\ q.s = "wrap" =>
       calls.token = calls.made /\ calls.proc = WRAPPER /\ calls.running[calls.made] = 0
  /\ q.s \in {"acquire", "schedule"} =>
       calls.proc = calls.made \/ (calls.proc = WRAPPER /\ calls.wrapper[q.i] = calls.made)
  /\ q.s \in {"acquire_present", "schedule_present"} => calls.proc = calls.made

\* Where an AP holds a token, and where it owes a procedure.
HoldStages == {"idle", "test_exit", "procedure", "token"}
OweStages  == {"idle", "test_exit", "procedure"}

\* An AP that holds a token is busy with the call.
HolderOK(pl, x) ==
  cpu[x].token # NoCall =>
    /\ cpu[x].token <= calls.made /\ pl[x].s \in HoldStages /\ cpu[x].busy
    /\ ~Unscheduled(pl[bspIndex], x)

\* The token of call k counts the APs that hold it and, if k is the last call, those that
\* the one processor in a service is still to give it to or to take off it.
CountOK(pl, k) ==
  /\ calls.running[k] <= N
  /\ \E b \in CPUs :
       /\ \A x \in CPUs : x # b => Pending(pl[x]) = 0
       /\ calls.running[k] = Cardinality(Holders(k)) + (IF k = calls.token THEN Pending(pl[b]) ELSE 0)

\* The token of a call counts the APs that hold it and those it is still to be given to.
Tokens(pl) ==
  /\ calls.owed \subseteq (1 .. MaxCalls) \X CPUs
  /\ \A b \in CPUs : ServedOK(pl[b])
  /\ \A x \in CPUs : HolderOK(pl, x)
  /\ \A x \in CPUs : pl[x].s = "token" => cpu[x].token # NoCall
  /\ \A k \in 1 .. MaxCalls : CountOK(pl, k)

\* AP x is busy with the procedure of call k, and holds its token or is waited for.
OweOK(pl, k, x) ==
  /\ k <= calls.made /\ pl[x].s \in OweStages /\ cpu[x].busy
  /\ Callee(x) = k /\ ~Unscheduled(pl[bspIndex], x)
  /\ cpu[x].token # k => k = calls.made /\ Blocks(pl[bspIndex], x)

\* A procedure that is owed is the one its AP has, which is busy and will run it.
Owed(pl) ==
  /\ \A k \in 1 .. MaxCalls, x \in CPUs : <<k, x>> \in calls.owed => OweOK(pl, k, x)
  /\ \A b \in CPUs : pl[b].s = "wrap" => calls.owed = {}

\* A token holder is an AP in the loop of APHandler.
LEMMA HolderIs ==
  ASSUME NEW pl, Meeting(pl), Tokens(pl), NEW x \in CPUs, cpu[x].token # NoCall
  PROVE  /\ pl[x].s \in HoldStages /\ pl[x].s \in LoopStages /\ IsAp(pl[x]) /\ cpu[x].busy
         /\ bspIndex \in CPUs /\ bspIndex # NoBsp /\ bspIndex # x /\ ~IsAtBsp(pl[x])
         /\ cpu[x].token \in 1 .. MaxCalls /\ cpu[x].token <= calls.made
<1>1. pl[x].s \in HoldStages /\ cpu[x].busy /\ cpu[x].token <= calls.made
  BY DEF Tokens, HolderOK
<1>2. pl[x].s \in LoopStages
  BY <1>1 DEF HoldStages, LoopStages
<1>3. IsAp(pl[x])
  BY <1>2, MeetingParts, Kinds
<1>4. cpu[x].token \in 0 .. MaxCalls /\ MaxCalls \in Nat
  BY MeetingParts, SmmAssumption DEF Types, CpuData
<1>5. QED
  BY <1>1, <1>2, <1>3, <1>4, ApFacts DEF NoCall

\* A processor that owes a procedure is an AP in the loop of APHandler.
LEMMA OwedIs ==
  ASSUME NEW pl, Meeting(pl), Owed(pl), Tokens(pl), NEW k, NEW x, <<k, x>> \in calls.owed
  PROVE  /\ k \in 1 .. MaxCalls /\ x \in CPUs /\ OweOK(pl, k, x)
         /\ pl[x].s \in OweStages /\ pl[x].s \in LoopStages /\ IsAp(pl[x]) /\ cpu[x].busy
         /\ bspIndex \in CPUs /\ bspIndex # NoBsp /\ bspIndex # x /\ ~IsAtBsp(pl[x])
<1>1. k \in 1 .. MaxCalls /\ x \in CPUs
  BY DEF Tokens
<1>2. OweOK(pl, k, x)
  BY <1>1 DEF Owed
<1>3. pl[x].s \in OweStages /\ cpu[x].busy
  BY <1>2 DEF OweOK
<1>4. pl[x].s \in LoopStages
  BY <1>3 DEF OweStages, LoopStages
<1>5. IsAp(pl[x])
  BY <1>1, <1>4, MeetingParts, Kinds
<1>6. QED
  BY <1>1, <1>2, <1>3, <1>4, <1>5, ApFacts

\* Only a service of the BSP has processors left to give a token to.
LEMMA PendingIs ==
  ASSUME NEW q \in Place
  PROVE  Pending(q) \in Nat /\ (~IsAtBsp(q) => Pending(q) = 0)
<1>1. q.i \in 0 .. N /\ N \in Nat
  BY SmmAssumption DEF Place
<1>2. q.s \notin ServiceStages => Pending(q) = 0
  BY DEF Pending, ServiceStages, OneStages, AllStages
<1>3. Pending(q) \in Nat
  BY <1>1 DEF Pending
<1>4. QED
  BY <1>2, <1>3, Kinds

\* What the token of call k counts, seen by the BSP.
LEMMA CountedByBsp ==
  ASSUME NEW pl, Meeting(pl), Tokens(pl), NEW c \in CPUs, IsAtBsp(pl[c]), NEW k \in 1 .. MaxCalls
  PROVE  /\ calls.running[k] = Cardinality(Holders(k)) + (IF k = calls.token THEN Pending(pl[c]) ELSE 0)
         /\ calls.running[k] <= N /\ \A x \in CPUs : x # c => Pending(pl[x]) = 0
<1>1. \A x \in CPUs : x # c => Pending(pl[x]) = 0
  BY MeetingParts, PendingIs DEF IndexInv
<1>2. PICK b \in CPUs :
        /\ calls.running[k] = Cardinality(Holders(k)) + (IF k = calls.token THEN Pending(pl[b]) ELSE 0)
        /\ \A x \in CPUs : x # b => Pending(pl[x]) = 0
  BY DEF Tokens, CountOK
<1>3. Pending(pl[b]) = Pending(pl[c])
  BY <1>1, <1>2
<1>4. QED
  BY <1>1, <1>2, <1>3 DEF Tokens, CountOK

\* The APs that hold a token are finitely many.
LEMMA HoldersFinite ==
  ASSUME NEW k
  PROVE  IsFiniteSet(Holders(k)) /\ Cardinality(Holders(k)) \in Nat
<1>1. Holders(k) \subseteq CPUs
  BY DEF Holders
<1>2. QED
  BY <1>1, CountedFinite, FS_Subset, FS_CardinalityType

\* The move of CPU c to place q changes the count of the last call's token as it changes
\* what is still to be done with it.
Recounts(pl, c, q) ==
  /\ Pending(q) # 0 => IsAtBsp(pl[c])
  /\ \A k \in 1 .. MaxCalls :
       /\ calls'.running[k] <= N
       /\ calls'.running[k] = calls.running[k] + (IF k = calls.token THEN Pending(q) - Pending(pl[c]) ELSE 0)

\* So does a move that changes neither.
LEMMA SameCount ==
  ASSUME NEW pl, Meeting(pl), Tokens(pl), NEW c \in CPUs, NEW q,
         calls'.running = calls.running, Pending(q) = Pending(pl[c])
  PROVE  Recounts(pl, c, q)
<1>1. Pending(pl[c]) \in Nat /\ (Pending(pl[c]) # 0 => IsAtBsp(pl[c]))
  BY MeetingParts, PendingIs
<1>2. \A k \in 1 .. MaxCalls : calls.running[k] \in Int /\ calls.running[k] <= N
  BY MeetingParts DEF Types, CallData, Tokens, CountOK
<1>3. QED
  BY <1>1, <1>2 DEF Recounts

\* The tokens are as they should be after a step that gives none and takes none back.
LEMMA CallFrame ==
  ASSUME NEW pl, Meeting(pl), Tokens(pl), NEW c \in CPUs, NEW q, NEW pl2, Moves(pl, c, q, pl2),
         calls'.made = calls.made, calls'.proc = calls.proc, calls'.token = calls.token,
         Recounts(pl, c, q), calls'.owed \subseteq calls.owed,
         calls'.wrapper = calls.wrapper \/ IsAtBsp(pl[c]),
         \A x \in CPUs : cpu'[x].token = cpu[x].token /\ (cpu[x].token # NoCall => cpu'[x].busy),
         cpu[c].token # NoCall => q.s \in HoldStages, q.s = "token" => cpu[c].token # NoCall,
         ServedOK(q)',
         \A x \in CPUs : Unscheduled(q, x) => cpu[x].token = NoCall,
         bspIndex' = bspIndex \/ \A x \in CPUs : ~IsAp(pl[x])
  PROVE  Tokens(pl2)'
<1>1. pl2[c] = q /\ (\A x \in CPUs : x # c => pl2[x] = pl[x]) /\ pl \in [CPUs -> Place]
  BY MeetingParts DEF Moves
<1>2. \A k : Holders(k)' = Holders(k)
  BY DEF Holders
<1>3. (calls.owed \subseteq (1 .. MaxCalls) \X CPUs)'
  BY DEF Tokens
<1>4. ASSUME NEW b \in CPUs PROVE ServedOK(pl2[b])'
  <2>1. CASE b = c
    BY <1>1, <2>1
  <2>2. CASE b # c /\ pl[b].s \notin ServiceStages
    <3>1. pl2[b].s \notin ServiceStages
      BY <1>1, <2>2
    <3>2. QED
      BY <3>1 DEF ServedOK, ServiceStages, OneStages, AllStages
  <2>3. CASE b # c /\ pl[b].s \in ServiceStages
    <3>1. IsAtBsp(pl[b])
      BY <1>1, <2>3, Kinds
    <3>2. ~IsAtBsp(pl[c])
      BY <2>3, <3>1, MeetingParts DEF IndexInv
    <3>3. ServedOK(pl[b]) /\ pl2[b] = pl[b]
      BY <1>1, <2>3 DEF Tokens
    <3>4. calls.made \in 1 .. MaxCalls
      BY <2>3, <3>3, MeetingParts, SmmAssumption DEF ServedOK, Types, CallData
    <3>5. calls'.running[calls.made] = calls.running[calls.made]
      <4>1. Pending(pl[c]) = 0 /\ Pending(q) = 0
        BY <3>2, MeetingParts, PendingIs DEF Recounts
      <4>2. calls.running[calls.made] \in Int
        BY <3>4, MeetingParts DEF Types, CallData
      <4>3. QED
        BY <3>4, <4>1, <4>2 DEF Recounts
    <3>6. QED
      BY <3>2, <3>3, <3>5 DEF ServedOK
  <2>4. QED
    BY <2>1, <2>2, <2>3
<1>5. ASSUME NEW x \in CPUs PROVE HolderOK(pl2, x)'
  <2>1. CASE cpu[x].token = NoCall
    BY <2>1 DEF HolderOK
  <2>2. CASE cpu[x].token # NoCall
    <3>1. /\ pl[x].s \in HoldStages /\ IsAp(pl[x]) /\ bspIndex \in CPUs /\ bspIndex # x
          /\ cpu[x].token <= calls.made
      BY <2>2, HolderIs
    <3>2. bspIndex' = bspIndex
      BY <3>1
    <3>3. pl2[x].s \in HoldStages
      BY <1>1, <2>2, <3>1
    <3>4. ~Unscheduled(pl[bspIndex], x)
      BY <2>2 DEF Tokens, HolderOK
    <3>5. ~Unscheduled(pl2[bspIndex], x)
      BY <1>1, <2>2, <3>1, <3>4
    <3>6. ~Unscheduled(pl2[bspIndex'], x)
      BY <3>2, <3>5
    <3>7. QED
      BY <2>2, <3>1, <3>3, <3>6 DEF HolderOK
  <2>3. QED
    BY <2>1, <2>2
<1>6. ASSUME NEW x \in CPUs, pl2[x].s = "token" PROVE cpu'[x].token # NoCall
  BY <1>1, <1>6 DEF Tokens
<1>7. ASSUME NEW k \in 1 .. MaxCalls PROVE CountOK(pl2, k)'
  <2>1. CountOK(pl, k) /\ calls.running[k] \in Int /\ Cardinality(Holders(k)) \in Int
    <3>1. CountOK(pl, k)
      BY DEF Tokens
    <3>2. calls.running[k] \in Int
      BY MeetingParts DEF Types, CallData
    <3>3. Cardinality(Holders(k)) \in Int
      BY HoldersFinite
    <3>4. QED
      BY <3>1, <3>2, <3>3
  <2>2. /\ Pending(q) \in Int /\ Pending(pl[c]) \in Int /\ calls'.running[k] <= N
        /\ calls'.running[k] = calls.running[k] + (IF k = calls.token THEN Pending(q) - Pending(pl[c]) ELSE 0)
    BY <1>1, MeetingParts, PendingIs DEF Recounts, Moves
  <2>3. CASE IsAtBsp(pl[c])
    <3>1. /\ calls.running[k] = Cardinality(Holders(k)) + (IF k = calls.token THEN Pending(pl[c]) ELSE 0)
          /\ \A x \in CPUs : x # c => Pending(pl[x]) = 0
      BY <2>3, CountedByBsp
    <3>2. calls'.running[k] = Cardinality(Holders(k)) + (IF k = calls.token THEN Pending(pl2[c]) ELSE 0)
      BY <1>1, <2>1, <2>2, <3>1
    <3>3. \A x \in CPUs : x # c => Pending(pl2[x]) = 0
      BY <1>1, <3>1
    <3>4. QED
      BY <1>2, <2>2, <3>2, <3>3 DEF CountOK
  <2>4. CASE ~IsAtBsp(pl[c])
    <3>1. Pending(pl[c]) = 0 /\ Pending(q) = 0
      BY <2>4, MeetingParts, PendingIs DEF Recounts
    <3>2. \A x \in CPUs : Pending(pl2[x]) = Pending(pl[x])
      BY <1>1, <3>1
    <3>3. calls'.running[k] = calls.running[k]
      BY <2>1, <2>2, <3>1
    <3>4. QED
      BY <1>2, <2>1, <3>2, <3>3 DEF CountOK
  <2>5. QED
    BY <2>3, <2>4
<1>8. QED
  BY <1>3, <1>4, <1>5, <1>6, <1>7 DEF Tokens

\* What is owed is as it should be after a step that adds nothing to it.
LEMMA OwedFrame ==
  ASSUME NEW pl, Meeting(pl), Tokens(pl), Owed(pl), NEW c \in CPUs, NEW q, NEW pl2,
         Moves(pl, c, q, pl2),
         calls'.made = calls.made, calls'.wrapper = calls.wrapper, calls'.owed \subseteq calls.owed,
         \A k \in 1 .. MaxCalls, x \in CPUs : <<k, x>> \in calls'.owed =>
           /\ cpu'[x].token = cpu[x].token /\ cpu'[x].proc = cpu[x].proc
           /\ cpu'[x].busy /\ (x = c => q.s \in OweStages) /\ ~Unscheduled(q, x)
           /\ IsAtBsp(pl[c]) /\ Blocks(pl[c], x) => Blocks(q, x),
         q.s = "wrap" => calls'.owed = {},
         bspIndex' = bspIndex \/ \A x \in CPUs : ~IsAp(pl[x])
  PROVE  Owed(pl2)'
<1>1. pl2[c] = q /\ (\A x \in CPUs : x # c => pl2[x] = pl[x]) /\ pl \in [CPUs -> Place]
  BY MeetingParts DEF Moves
<1>2. ASSUME NEW k \in 1 .. MaxCalls, NEW x \in CPUs, <<k, x>> \in calls'.owed
      PROVE  OweOK(pl2, k, x)'
  <2>1. <<k, x>> \in calls.owed
    BY <1>2
  <2>2. /\ OweOK(pl, k, x) /\ pl[x].s \in OweStages /\ IsAp(pl[x]) /\ bspIndex \in CPUs
           /\ bspIndex # x
        /\ IsAtBsp(pl[bspIndex])
    BY <2>1, OwedIs, ApFacts
  <2>3. bspIndex' = bspIndex
    BY <2>2
  <2>4. pl2[x].s \in OweStages /\ cpu'[x].busy
    BY <1>1, <1>2, <2>2
  <2>5. Callee(x)' = Callee(x) /\ cpu'[x].token = cpu[x].token
    BY <1>2 DEF Callee
  <2>6. ~Unscheduled(pl2[bspIndex], x) /\ (Blocks(pl[bspIndex], x) => Blocks(pl2[bspIndex], x))
    BY <1>1, <1>2, <2>2 DEF OweOK
  <2>7. ~Unscheduled(pl2[bspIndex'], x) /\ (Blocks(pl[bspIndex], x) => Blocks(pl2[bspIndex'], x))
    BY <2>3, <2>6
  <2>8. QED
    BY <2>2, <2>4, <2>5, <2>7 DEF OweOK
<1>3. ASSUME NEW b \in CPUs, pl2[b].s = "wrap" PROVE calls'.owed = {}
  <2>1. CASE b = c
    BY <1>1, <1>3, <2>1
  <2>2. CASE b # c
    <3>1. calls.owed = {}
      BY <1>1, <1>3, <2>2 DEF Owed
    <3>2. QED
      BY <3>1
  <2>3. QED
    BY <2>1, <2>2
<1>4. QED
  BY <1>2, <1>3 DEF Owed

-----------------------------------------------------------------------------
(***************************************************************************)
(* Steps that leave procedures and tokens alone.                           *)
(***************************************************************************)
\* At most one call in an SMI where SmmStartupThisAp is used: it writes ApWrapperFunc of
\* an AP before it waits for the AP to be free.
OneStartup == \A p \in Configs : "SmmStartupThisAp" \in p.services => p.calls <= 1

\* The step of CPU c changes no call, no procedure and no token; Busy is released only by
\* an AP that has run its procedure and by a processor that checks in.
Silent(pl, c) ==
  /\ calls' = calls
  /\ \A x \in CPUs : cpu'[x].token = cpu[x].token /\ cpu'[x].proc = cpu[x].proc
  /\ \A x \in CPUs : cpu[x].busy => cpu'[x].busy \/ (x = c /\ pl[c].s \in {"check_in", "free"})

\* A write of Run, Present or Busy.
LEMMA SetSame ==
  ASSUME Types, NEW i \in CPUs, NEW v
  PROVE  /\ SetData(i, "run", v) \/ SetData(i, "present", v) =>
              \A x \in CPUs : cpu'[x].token = cpu[x].token /\ cpu'[x].proc = cpu[x].proc
                              /\ cpu'[x].busy = cpu[x].busy
         /\ SetData(i, "busy", v) =>
              \A x \in CPUs : cpu'[x].token = cpu[x].token /\ cpu'[x].proc = cpu[x].proc
                              /\ (x # i => cpu'[x].busy = cpu[x].busy)
<1>1. cpu \in CpuData
  BY DEF Types
<1>2. ASSUME SetData(i, "run", v)
      PROVE  \A x \in CPUs : cpu'[x].token = cpu[x].token /\ cpu'[x].proc = cpu[x].proc
                             /\ cpu'[x].busy = cpu[x].busy
  <2>1. PICK r : r = [run |-> v, present |-> cpu[i].present, busy |-> cpu[i].busy,
                      proc |-> cpu[i].proc, token |-> cpu[i].token]
    OBVIOUS
  <2>2. cpu' = [cpu EXCEPT ![i] = r]
    BY <1>2, <2>1, SetDataIs
  <2>3. r.token = cpu[i].token /\ r.proc = cpu[i].proc /\ r.busy = cpu[i].busy
    BY <2>1
  <2>4. QED
    BY <1>1, <2>2, <2>3 DEF CpuData
<1>3. ASSUME SetData(i, "present", v)
      PROVE  \A x \in CPUs : cpu'[x].token = cpu[x].token /\ cpu'[x].proc = cpu[x].proc
                             /\ cpu'[x].busy = cpu[x].busy
  <2>1. PICK r : r = [run |-> cpu[i].run, present |-> v, busy |-> cpu[i].busy,
                      proc |-> cpu[i].proc, token |-> cpu[i].token]
    OBVIOUS
  <2>2. cpu' = [cpu EXCEPT ![i] = r]
    BY <1>3, <2>1, SetDataIs
  <2>3. r.token = cpu[i].token /\ r.proc = cpu[i].proc /\ r.busy = cpu[i].busy
    BY <2>1
  <2>4. QED
    BY <1>1, <2>2, <2>3 DEF CpuData
<1>4. ASSUME SetData(i, "busy", v)
      PROVE  \A x \in CPUs : cpu'[x].token = cpu[x].token /\ cpu'[x].proc = cpu[x].proc
                             /\ (x # i => cpu'[x].busy = cpu[x].busy)
  <2>1. PICK r : r = [run |-> cpu[i].run, present |-> cpu[i].present, busy |-> v,
                      proc |-> cpu[i].proc, token |-> cpu[i].token]
    OBVIOUS
  <2>2. cpu' = [cpu EXCEPT ![i] = r]
    BY <1>4, <2>1, SetDataIs
  <2>3. r.token = cpu[i].token /\ r.proc = cpu[i].proc
    BY <2>1
  <2>4. QED
    BY <1>1, <2>2, <2>3 DEF CpuData
<1>5. QED
  BY <1>2, <1>3, <1>4

\* A step that leaves the calls and CpuData alone is silent.
LEMMA SilentSame ==
  ASSUME NEW pl, NEW c, calls' = calls, cpu' = cpu
  PROVE  Silent(pl, c)
BY DEF Silent

\* So is a write of Run or Present.
LEMMA SilentRun ==
  ASSUME NEW pl, Meeting(pl), NEW c, NEW i \in CPUs, NEW v, calls' = calls,
         SetData(i, "run", v) \/ SetData(i, "present", v)
  PROVE  Silent(pl, c)
<1>1. Types
  BY MeetingParts
<1>2. QED
  BY <1>1, SetSame DEF Silent

\* A place outside the services, and its successor.
LEMMA QuietSucc ==
  ASSUME NEW g \in Configs, NEW p \in Place, p.s \notin ServiceStages
  PROVE  Succ(g, p).s \notin ServiceStages /\ Succ(g, p).s # "token"
         /\ Succ(g, p).s \notin {"test_exit", "procedure"}
<1>1. CASE p.s \in OutStages
  BY <1>1 DEF Succ, OutSucc, P, ServiceStages, OneStages, AllStages
<1>2. CASE p.s \in PreStages \cup ApStages /\ p.s \notin OutStages
  BY <1>2 DEF Succ, ApSucc, P, ServiceStages, OneStages, AllStages
<1>3. CASE p.s \in {"gather", "release"}
  BY <1>3 DEF Succ, RoundSucc, P, ServiceStages, OneStages, AllStages, OutStages, PreStages,
     ApStages, LoopStages
<1>4. CASE p.s \notin OutStages \cup PreStages \cup ApStages \cup {"gather", "release"}
  <2>1. Succ(g, p) = BspSucc(g, p)
    BY <1>4 DEF Succ
  <2>2. QED
    BY <2>1 DEF BspSucc, P, ServiceStages, OneStages, AllStages
<1>5. QED
  BY <1>1, <1>2, <1>3, <1>4

\* A silent step outside the services leaves procedures and tokens as they were.
LEMMA QuietCalls ==
  ASSUME NEW pl, Meeting(pl), Tokens(pl), NEW c \in CPUs, NEW q, q \in Place, NEW pl2,
         Moves(pl, c, q, pl2),
         Silent(pl, c), pl[c].s \notin ServiceStages, q.s \notin ServiceStages, q.s # "token",
         pl[c].s \in HoldStages => q.s \in OweStages \/ ~cpu[c].busy,
         bspIndex' = bspIndex \/ \A x \in CPUs : ~IsAp(pl[x])
  PROVE  Tokens(pl2)' /\ (Owed(pl) => Owed(pl2)')
<1>1. /\ calls' = calls
      /\ \A x \in CPUs : cpu'[x].token = cpu[x].token /\ cpu'[x].proc = cpu[x].proc
      /\ \A x \in CPUs : cpu[x].busy => cpu'[x].busy \/ (x = c /\ pl[c].s \in {"check_in", "free"})
  BY DEF Silent
<1>2. ASSUME NEW x \in CPUs, cpu[x].token # NoCall
      PROVE  cpu'[x].busy /\ (x = c => q.s \in HoldStages)
  <2>1. pl[x].s \in HoldStages /\ cpu[x].busy
    BY <1>2, HolderIs
  <2>2. x = c => q.s \in OweStages
    BY <2>1
  <2>3. x = c => pl[c].s \notin {"check_in", "free"}
    BY <2>1 DEF HoldStages
  <2>4. QED
    BY <1>1, <2>1, <2>2, <2>3 DEF OweStages, HoldStages
<1>3. ServedOK(q)' /\ Recounts(pl, c, q) /\ \A x : ~Unscheduled(q, x)
  <2>1. Pending(q) = Pending(pl[c])
    BY DEF ServiceStages, OneStages, AllStages, Pending
  <2>2. QED
    BY <1>1, <2>1, SameCount DEF ServedOK, ServiceStages, OneStages, AllStages, Unscheduled
<1>4. Tokens(pl2)'
  BY <1>1, <1>2, <1>3, CallFrame
<1>5. ASSUME Owed(pl) PROVE Owed(pl2)'
  <2>1. ASSUME NEW k \in 1 .. MaxCalls, NEW x \in CPUs, <<k, x>> \in calls'.owed
        PROVE  /\ cpu'[x].busy /\ (x = c => q.s \in OweStages) /\ ~Unscheduled(q, x)
               /\ ~Blocks(pl[c], x)
    <3>1. pl[x].s \in OweStages /\ cpu[x].busy
      BY <1>1, <1>5, <2>1, OwedIs
    <3>2. x = c => q.s \in OweStages /\ pl[c].s \notin {"check_in", "free"}
      BY <3>1 DEF OweStages, HoldStages
    <3>3. ~Blocks(pl[c], x)
      BY DEF Blocks, ServiceStages, OneStages, AllStages
    <3>4. QED
      BY <1>1, <1>3, <3>1, <3>2, <3>3
  <2>2. q.s # "wrap"
    BY DEF ServiceStages
  <2>3. QED
    BY <1>1, <1>5, <2>1, <2>2, OwedFrame
<1>6. QED
  BY <1>4, <1>5

\* A step after which the processors, the tokens and the procedures are as they should be.
KeepsCalls(pl) ==
  \E pl2 : Meeting(pl2)' /\ Tokens(pl2)' /\ (Owed(pl) /\ OneStartup => Owed(pl2)')

\* A quiet step that ends at a place of S, outside the services and the loop of the APs.
LEMMA QuietIn ==
  ASSUME NEW pl, Meeting(pl), Tokens(pl), NEW c \in CPUs, NEW S, KeepsIn(pl, c, S),
         S \cap (ServiceStages \cup {"token"}) = {}, Silent(pl, c), pl[c].s \notin ServiceStages,
         S \subseteq OweStages \/ pl[c].s \notin HoldStages,
         bspIndex' = bspIndex \/ \A x \in CPUs : ~IsAp(pl[x])
  PROVE  KeepsCalls(pl)
<1>1. PICK q, pl2 : q \in Place /\ q.s \in S /\ Moves(pl, c, q, pl2) /\ Meeting(pl2)'
  BY DEF KeepsIn
<1>2. Tokens(pl2)' /\ (Owed(pl) => Owed(pl2)')
  BY <1>1, QuietCalls
<1>3. QED
  BY <1>1, <1>2 DEF KeepsCalls

\* A quiet step that ends at a known place.
LEMMA QuietTo ==
  ASSUME NEW pl, Meeting(pl), Tokens(pl), NEW c \in CPUs, NEW r, Keeps(pl, c, r),
         r.s \notin ServiceStages, r.s # "token", Silent(pl, c), pl[c].s \notin ServiceStages,
         pl[c].s \in HoldStages => r.s \in OweStages \/ ~cpu[c].busy,
         bspIndex' = bspIndex \/ \A x \in CPUs : ~IsAp(pl[x])
  PROVE  KeepsCalls(pl)
<1>1. PICK q, pl2 : q \in Place /\ q = r /\ Moves(pl, c, q, pl2) /\ Meeting(pl2)'
  BY DEF Keeps
<1>2. q.s \notin ServiceStages /\ q.s # "token"
      /\ (pl[c].s \in HoldStages => q.s \in OweStages \/ ~cpu[c].busy)
  BY <1>1
<1>3. Tokens(pl2)' /\ (Owed(pl) => Owed(pl2)')
  BY <1>1, <1>2, QuietCalls
<1>4. QED
  BY <1>1, <1>3 DEF KeepsCalls

\* A quiet step that just ends, outside the services and the loop of the APs.
LEMMA QuietEnds ==
  ASSUME NEW pl, Meeting(pl), Tokens(pl), NEW c \in CPUs, Keeps(pl, c, Succ(config, pl[c])),
         Silent(pl, c), pl[c].s \notin ServiceStages, pl[c].s \notin HoldStages,
         bspIndex' = bspIndex
  PROVE  KeepsCalls(pl)
<1>1. config \in Configs /\ pl[c] \in Place
  BY MeetingParts
<1>2. PICK r : r = Succ(config, pl[c])
  OBVIOUS
<1>3. r.s \notin ServiceStages /\ r.s # "token" /\ Keeps(pl, c, r)
  BY <1>1, <1>2, QuietSucc
<1>4. QED
  BY <1>3, QuietTo

\* Entering, checking in and leaving start no procedure and end none.
LEMMA RendezvousCalls ==
  ASSUME NEW pl, Meeting(pl), Tokens(pl), NEW c \in CPUs, Enter(c) \/ RendezvousStep(c)
  PROVE  KeepsCalls(pl)
<1>1. CASE Enter(c)
  <2>1. pl[c].s = "out" /\ Keeps(pl, c, P("valid_smi", 0, 0, FALSE))
    BY <1>1, EnterGoes, EnterKeeps
  <2>2. Silent(pl, c) /\ bspIndex' = bspIndex
    BY <1>1, SilentSame DEF Enter
  <2>3. PICK r : r = P("valid_smi", 0, 0, FALSE)
    OBVIOUS
  <2>4. r.s \notin ServiceStages /\ r.s # "token" /\ pl[c].s \notin ServiceStages
        /\ pl[c].s \notin HoldStages
    BY <2>1, <2>3 DEF P, ServiceStages, OneStages, AllStages, HoldStages
  <2>5. QED
    BY <2>1, <2>2, <2>3, <2>4, QuietTo
<1>2. CASE PlatformValidSmi(c)
  <2>1. pl[c].s = "valid_smi" /\ Keeps(pl, c, Succ(config, pl[c]))
    BY <1>2, StageOf, ValidSmiKeeps DEF PlatformValidSmi, ApOps
  <2>2. Silent(pl, c) /\ bspIndex' = bspIndex
    BY <1>2, SilentSame DEF PlatformValidSmi
  <2>3. pl[c].s \notin ServiceStages /\ pl[c].s \notin HoldStages
    BY <2>1 DEF ServiceStages, OneStages, AllStages, HoldStages
  <2>4. QED
    BY <2>1, <2>2, <2>3, QuietEnds
<1>3. CASE BspInProgress(c)
  <2>1. pl[c].s = "in_progress"
    BY <1>3, InProgressGoes
  <2>2. PICK s \in {"check_in", "out"} : Keeps(pl, c, P(s, 0, 0, FALSE))
    BY <1>3, InProgressKeeps
  <2>3. Silent(pl, c) /\ bspIndex' = bspIndex
    BY <1>3, SilentSame DEF BspInProgress
  <2>4. PICK r : r = P(s, 0, 0, FALSE)
    OBVIOUS
  <2>5. r.s \notin ServiceStages /\ r.s # "token" /\ pl[c].s \notin ServiceStages
        /\ pl[c].s \notin HoldStages
    BY <2>1, <2>2, <2>4 DEF P, ServiceStages, OneStages, AllStages, HoldStages
  <2>6. QED
    BY <2>2, <2>3, <2>4, <2>5, QuietTo
<1>4. CASE CheckIn(c)
  <2>1. pl[c].s = "check_in" /\ KeepsIn(pl, c, {"late", "await", "elect"})
    BY <1>4, CheckInGoes, CheckInKeeps
  <2>2. calls' = calls /\ bspIndex' = bspIndex /\ (cpu' = cpu \/ SetData(c, "busy", FALSE))
    BY <1>4 DEF CheckIn
  <2>3. Silent(pl, c)
    <3>1. CASE cpu' = cpu
      BY <2>2, <3>1, SilentSame
    <3>2. CASE SetData(c, "busy", FALSE)
      <4>1. Types
        BY MeetingParts
      <4>2. PICK v : v = FALSE
        OBVIOUS
      <4>3. SetData(c, "busy", v)
        BY <3>2, <4>2
      <4>4. QED
        BY <2>1, <2>2, <4>1, <4>3, SetSame DEF Silent
    <3>3. QED
      BY <2>2, <3>1, <3>2
  <2>4. pl[c].s \notin ServiceStages /\ pl[c].s \notin HoldStages
        /\ {"late", "await", "elect"} \cap (ServiceStages \cup {"token"}) = {}
    BY <2>1 DEF ServiceStages, OneStages, AllStages, HoldStages
  <2>5. QED
    BY <2>1, <2>2, <2>3, <2>4, QuietIn
<1>5. CASE Elect(c)
  <2>1. pl[c].s = "elect" /\ KeepsIn(pl, c, {"inside", "await"})
    BY <1>5, ElectGoes, ElectKeeps
  <2>2. Silent(pl, c)
    BY <1>5, SilentSame DEF Elect
  <2>3. IsPre(pl[c])
    BY <2>1 DEF IsPre, PreStages
  <2>4. bspIndex' = bspIndex \/ \A x \in CPUs : ~IsAp(pl[x])
    <3>1. bspIndex' = bspIndex \/ bspIndex = NoBsp
      BY <1>5 DEF Elect
    <3>2. QED
      BY <2>3, <3>1, NobodyLeads
  <2>5. pl[c].s \notin ServiceStages /\ pl[c].s \notin HoldStages
        /\ {"inside", "await"} \cap (ServiceStages \cup {"token"}) = {}
    BY <2>1 DEF ServiceStages, OneStages, AllStages, HoldStages
  <2>6. QED
    BY <2>1, <2>2, <2>4, <2>5, QuietIn
<1>6. CASE Leave(c)
  <2>1. pl[c].s \in {"leave", "late"} /\ Keeps(pl, c, Succ(config, pl[c]))
    BY <1>6, StageOf, LeaveKeeps DEF Leave, ApOps
  <2>2. Silent(pl, c) /\ bspIndex' = bspIndex
    BY <1>6, SilentSame DEF Leave
  <2>3. pl[c].s \notin ServiceStages /\ pl[c].s \notin HoldStages
    BY <2>1 DEF ServiceStages, OneStages, AllStages, HoldStages
  <2>4. QED
    BY <2>1, <2>2, <2>3, QuietEnds
<1>7. QED
  BY <1>1, <1>2, <1>3, <1>4, <1>5, <1>6 DEF RendezvousStep

\* The steps of BSPHandler itself.
QuietBspStep(c) ==
  \/ FlagBsp(c) \/ MarkBsp(c) \/ AwaitAps(c) \/ SendSmiIpis(c) \/ SetAllCpusInSync(c)
  \/ LockdownSemaphore(c) \/ WaitForAllAPs(c) \/ AcquireOwnBusy(c)
  \/ AllPresent(c) \/ NotifyExit(c) \/ ResetCounter(c) \/ ResetSync(c) \/ EndHandlers(c)

\* They start no procedure and end none.
LEMMA QuietBspCalls ==
  ASSUME Timely, NEW pl, Meeting(pl), Tokens(pl), NEW c \in CPUs, QuietBspStep(c)
  PROVE  KeepsCalls(pl)
<1>1. Keeps(pl, c, Succ(config, pl[c]))
  BY FlagBspKeeps, MarkBspKeeps, AwaitApsKeeps, SendSmiIpisKeeps, SetAllCpusInSyncKeeps,
     LockdownKeeps, WaitForAllAPsKeeps, AcquireOwnBusyKeeps, AllPresentKeeps, NotifyExitKeeps,
     ResetCounterKeeps, ResetSyncKeeps, EndHandlersKeeps DEF QuietBspStep
<1>2. bspIndex' = bspIndex /\ calls' = calls
  BY DEF QuietBspStep, FlagBsp, MarkBsp, AwaitAps, SendSmiIpis, SetAllCpusInSync,
         LockdownSemaphore, WaitForAllAPs, AcquireOwnBusy, AllPresent, NotifyExit, ResetCounter,
         ResetSync, EndHandlers
<1>3. pl[c].s \in {"inside", "present", "arrive", "send_ipi", "sync", "lockdown", "gather", "busy",
                   "all_present", "outside", "reset_counter", "reset_sync", "handlers"}
  BY StageOf, ZenonT(60) DEF QuietBspStep, FlagBsp, MarkBsp, AwaitAps, SendSmiIpis, SetAllCpusInSync,
         LockdownSemaphore, WaitForAllAPs, AcquireOwnBusy, AllPresent, NotifyExit, ResetCounter,
         ResetSync, EndHandlers, ApOps
<1>4. pl[c].s \notin ServiceStages /\ pl[c].s \notin HoldStages
  BY <1>3 DEF ServiceStages, OneStages, AllStages, HoldStages
<1>5. Silent(pl, c)
  <2>1. \/ cpu' = cpu
        \/ \E v : SetData(c, "run", v) \/ SetData(c, "present", v)
        \/ SetData(c, "busy", TRUE) /\ ~cpu[c].busy
    BY DEF QuietBspStep, FlagBsp, MarkBsp, AwaitAps, SendSmiIpis, SetAllCpusInSync,
         LockdownSemaphore, WaitForAllAPs, AcquireOwnBusy, AllPresent, NotifyExit, ResetCounter,
         ResetSync, EndHandlers
  <2>2. CASE SetData(c, "busy", TRUE) /\ ~cpu[c].busy
    <3>1. Types
      BY MeetingParts
    <3>2. PICK v : v = TRUE
      OBVIOUS
    <3>3. SetData(c, "busy", v)
      BY <2>2, <3>2
    <3>4. QED
      BY <1>2, <2>2, <3>1, <3>3, SetSame DEF Silent
  <2>3. QED
    BY <1>2, <2>1, <2>2, SilentSame, SilentRun
<1>6. QED
  BY <1>1, <1>2, <1>4, <1>5, QuietEnds

\* The turns of the loops of BSPHandler over the APs, and the marks of absence.
LEMMA RoundCalls ==
  ASSUME NEW pl, Meeting(pl), Tokens(pl), NEW c \in CPUs,
         \/ ReleaseAp(c) /\ pl[c].s = "release"
         \/ WaitNotBusy(c) /\ pl[c].s = "not_busy"
         \/ ClearPresent(c)
  PROVE  KeepsCalls(pl)
<1>1. CASE ReleaseAp(c) /\ pl[c].s = "release"
  <2>1. Keeps(pl, c, Succ(config, pl[c]))
    BY <1>1, ReleaseApKeeps
  <2>2. bspIndex' = bspIndex /\ calls' = calls /\ (cpu' = cpu \/ \E v : SetData(Index(c), "run", v))
    BY <1>1 DEF ReleaseAp
  <2>3. Index(c) \in CPUs
    BY <1>1, StageOf DEF ReleaseAp, Valid
  <2>4. PICK i : i = Index(c)
    OBVIOUS
  <2>5. Silent(pl, c)
    BY <2>2, <2>3, <2>4, SilentSame, SilentRun
  <2>6. pl[c].s \notin ServiceStages /\ pl[c].s \notin HoldStages
    BY <1>1 DEF ServiceStages, OneStages, AllStages, HoldStages
  <2>7. QED
    BY <2>1, <2>2, <2>5, <2>6, QuietEnds
<1>2. CASE WaitNotBusy(c) /\ pl[c].s = "not_busy"
  <2>1. Keeps(pl, c, Succ(config, pl[c]))
    BY <1>2, NotBusyKeeps
  <2>2. bspIndex' = bspIndex /\ Silent(pl, c)
    BY <1>2, SilentSame DEF WaitNotBusy
  <2>3. pl[c].s \notin ServiceStages /\ pl[c].s \notin HoldStages
    BY <1>2 DEF ServiceStages, OneStages, AllStages, HoldStages
  <2>4. QED
    BY <2>1, <2>2, <2>3, QuietEnds
<1>3. CASE ClearPresent(c)
  <2>1. pl[c].s \in {"absent", "ap_absent"}
    BY <1>3, StageOf DEF ClearPresent, ApOps
  <2>2. bspIndex' = bspIndex /\ Silent(pl, c)
    <3>1. bspIndex' = bspIndex /\ calls' = calls /\ SetData(c, "present", FALSE)
      BY <1>3 DEF ClearPresent
    <3>2. PICK v : SetData(c, "present", v)
      BY <3>1
    <3>3. QED
      BY <3>1, <3>2, SilentRun
  <2>3. pl[c].s \notin ServiceStages /\ pl[c].s \notin HoldStages
        /\ {"signal"} \cap (ServiceStages \cup {"token"}) = {}
    BY <2>1 DEF ServiceStages, OneStages, AllStages, HoldStages
  <2>4. CASE pl[c].s = "absent"
    BY <1>3, <2>2, <2>3, <2>4, BspAbsentKeeps, QuietEnds
  <2>5. CASE pl[c].s = "ap_absent"
    BY <1>3, <2>2, <2>3, <2>5, ApAbsentKeeps, QuietIn
  <2>6. QED
    BY <2>1, <2>4, <2>5
<1>4. QED
  BY <1>1, <1>2, <1>3

\* An AP before and after its loop.
QuietApStep(c) ==
  \/ BspSeen(c) \/ TimerFires(c) \/ LookAgain(c) \/ AskBsp(c) \/ GiveUp(c) \/ FindBsp(c) \/ MarkAp(c)

\* It starts no procedure and ends none.
LEMMA QuietApCalls ==
  ASSUME NEW pl, Meeting(pl), Tokens(pl), NEW c \in CPUs, QuietApStep(c)
  PROVE  KeepsCalls(pl)
<1>1. PICK S : S = {"find_bsp", "look", "ask_bsp", "give_up", "await", "leave", "ap_present", "signal", "idle"}
  OBVIOUS
<1>2. KeepsIn(pl, c, S)
  <2>1. \/ KeepsIn(pl, c, {"find_bsp"}) \/ KeepsIn(pl, c, {"look"}) \/ KeepsIn(pl, c, {"ask_bsp", "give_up"})
        \/ KeepsIn(pl, c, {"give_up", "await"}) \/ KeepsIn(pl, c, {"leave"}) \/ KeepsIn(pl, c, {"ap_present"})
        \/ KeepsIn(pl, c, {"signal", "idle"})
    BY BspSeenKeeps, TimerFiresKeeps, LookAgainKeeps, AskBspKeeps, GiveUpKeeps, FindBspKeeps,
       MarkApKeeps
       DEF QuietApStep
  <2>2. QED
    BY <1>1, <2>1 DEF KeepsIn
<1>3. bspIndex' = bspIndex /\ calls' = calls
  BY DEF QuietApStep, BspSeen, TimerFires, LookAgain, AskBsp, GiveUp, FindBsp, MarkAp
<1>4. pl[c].s \in {"await", "look", "ask_bsp", "give_up", "find_bsp", "ap_present"}
  BY StageOf DEF QuietApStep, BspSeen, TimerFires, LookAgain, AskBsp, GiveUp, FindBsp, MarkAp, ApOps
<1>5. pl[c].s \notin ServiceStages /\ pl[c].s \notin HoldStages
  BY <1>4 DEF ServiceStages, OneStages, AllStages, HoldStages
<1>6. Silent(pl, c)
  <2>1. cpu' = cpu \/ \E v : SetData(c, "present", v)
    BY DEF QuietApStep, BspSeen, TimerFires, LookAgain, AskBsp, GiveUp, FindBsp, MarkAp
  <2>2. QED
    BY <1>3, <2>1, SilentSame, SilentRun
<1>7. S \cap (ServiceStages \cup {"token"}) = {}
  BY <1>1 DEF ServiceStages, OneStages, AllStages
<1>8. QED
  BY <1>2, <1>3, <1>5, <1>6, <1>7, QuietIn

\* The AP signals, and waits for its Run.
LEMMA HandshakeCalls ==
  ASSUME NEW pl, Meeting(pl), Tokens(pl), NEW c \in CPUs, SignalBsp(c) \/ WaitForRun(c)
  PROVE  KeepsCalls(pl)
<1>1. CASE SignalBsp(c)
  <2>1. Keeps(pl, c, Succ(config, pl[c]))
    BY <1>1, SignalMoreKeeps, SignalLastKeeps
  <2>2. PICK b : b = bspIndex
    OBVIOUS
  <2>3. pl[c].s = "signal" /\ b \in CPUs /\ local[c].bsp = b /\ bspIndex' = bspIndex /\ calls' = calls
    BY <1>1, <2>2, SignalFacts
  <2>4. \E v : SetData(b, "run", v)
    BY <1>1, <2>3 DEF SignalBsp
  <2>5. Silent(pl, c)
    BY <2>3, <2>4, SilentRun
  <2>6. pl[c].s \notin ServiceStages /\ pl[c].s \notin HoldStages
    BY <2>3 DEF ServiceStages, OneStages, AllStages, HoldStages
  <2>7. QED
    BY <2>1, <2>3, <2>5, <2>6, QuietEnds
<1>2. CASE WaitForRun(c)
  <2>1. pl[c].s \in {"wait", "idle"}
    BY <1>2, WaitForRunGoes
  <2>2. bspIndex' = bspIndex /\ calls' = calls /\ \E v : SetData(c, "run", v)
    BY <1>2 DEF WaitForRun
  <2>3. Silent(pl, c)
    BY <2>2, SilentRun
  <2>4. pl[c].s \notin ServiceStages
        /\ {"signal", "ap_absent"} \cap (ServiceStages \cup {"token"}) = {}
    BY <2>1 DEF ServiceStages, OneStages, AllStages
  <2>5. CASE pl[c].s = "wait"
    <3>1. pl[c].s \notin HoldStages
      BY <2>5 DEF HoldStages
    <3>2. QED
      BY <1>2, <2>2, <2>3, <2>4, <2>5, <3>1, WaitKeeps, QuietIn
  <2>6. CASE pl[c].s = "idle"
    <3>1. PICK r : r = P("test_exit", LoopK(config), 0, FALSE)
      OBVIOUS
    <3>2. r.s \notin ServiceStages /\ r.s # "token" /\ r.s \in OweStages
      BY <3>1 DEF P, ServiceStages, OneStages, AllStages, OweStages
    <3>3. Keeps(pl, c, r)
      BY <1>2, <2>6, <3>1, IdleKeeps
    <3>4. QED
      BY <2>2, <2>3, <2>4, <3>2, <3>3, QuietTo
  <2>7. QED
    BY <2>1, <2>5, <2>6
<1>3. QED
  BY <1>1, <1>2

\* The AP looks whether it is to exit, and frees Busy.
LEMMA LoopCalls ==
  ASSUME NEW pl, Meeting(pl), Tokens(pl), NEW c \in CPUs, TestExit(c) \/ FreeBusy(c)
  PROVE  KeepsCalls(pl)
<1>1. CASE TestExit(c)
  <2>1. pl[c].s = "test_exit"
    BY <1>1, TestExitGoes
  <2>2. bspIndex' = bspIndex /\ Silent(pl, c)
    BY <1>1, SilentSame DEF TestExit
  <2>3. pl[c].s \notin ServiceStages
    BY <2>1 DEF ServiceStages, OneStages, AllStages
  <2>4. CASE inside
    <3>1. PICK r : r = P("procedure", LoopK(config), 0, FALSE)
      OBVIOUS
    <3>2. r.s \notin ServiceStages /\ r.s # "token" /\ r.s \in OweStages
      BY <3>1 DEF P, ServiceStages, OneStages, AllStages, OweStages
    <3>3. Keeps(pl, c, r)
      BY <1>1, <2>4, <3>1, TestExitKeeps
    <3>4. QED
      BY <2>2, <2>3, <3>2, <3>3, QuietTo
  <2>5. CASE ~inside
    <3>1. PICK r : r = P("signal", LoopK(config) - 1, 0, FALSE)
      OBVIOUS
    <3>2. r.s \notin ServiceStages /\ r.s # "token"
      BY <3>1 DEF P, ServiceStages, OneStages, AllStages
    <3>3. Keeps(pl, c, r)
      BY <1>1, <2>5, <3>1, TestExitKeeps
    <3>4. ~cpu[c].busy
      <4>1. LoopOK(pl, pl[bspIndex], c)
        BY <2>1, MeetingParts DEF RunInv, RunOK, LoopStages
      <4>2. Left(pl[bspIndex], c) = LoopK(config) - 1
        BY <2>1, <2>5, ExitCalled
      <4>3. Left(pl[bspIndex], c) < LoopK(config)
        BY <4>2, MeetingParts, Numbers
      <4>4. QED
        BY <4>1, <4>3 DEF LoopOK
    <3>5. QED
      BY <2>2, <2>3, <3>2, <3>3, <3>4, QuietTo
  <2>6. QED
    BY <2>4, <2>5
<1>2. CASE FreeBusy(c)
  <2>1. pl[c].s = "free"
    BY <1>2, FreeBusyGoes
  <2>2. bspIndex' = bspIndex /\ calls' = calls /\ SetData(c, "busy", FALSE)
    BY <1>2 DEF FreeBusy
  <2>3. Silent(pl, c)
    <3>1. Types
      BY MeetingParts
    <3>2. PICK v : v = FALSE
      OBVIOUS
    <3>3. SetData(c, "busy", v)
      BY <2>2, <3>2
    <3>4. QED
      BY <2>1, <2>2, <3>1, <3>3, SetSame DEF Silent
  <2>4. PICK r : r = P("idle", LoopK(config), 0, FALSE)
    OBVIOUS
  <2>5. r.s \notin ServiceStages /\ r.s # "token" /\ pl[c].s \notin ServiceStages
        /\ pl[c].s \notin HoldStages
    BY <2>1, <2>4 DEF P, ServiceStages, OneStages, AllStages, HoldStages
  <2>6. Keeps(pl, c, r)
    BY <1>2, <2>4, FreeBusyKeeps
  <2>7. QED
    BY <2>2, <2>3, <2>5, <2>6, QuietTo
<1>3. QED
  BY <1>1, <1>2

-----------------------------------------------------------------------------
(***************************************************************************)
(* Steps of the services and of an AP that runs a procedure.               *)
(***************************************************************************)
\* A processor that nothing has been given to.
LEMMA NotHeld ==
  ASSUME NEW pl, Meeting(pl), Tokens(pl), NEW x \in CPUs,
         ~cpu[x].busy \/ pl[x].s \notin LoopStages \/ Unscheduled(pl[bspIndex], x)
  PROVE  cpu[x].token = NoCall /\ (Owed(pl) => \A k : <<k, x>> \notin calls.owed)
<1>1. ASSUME cpu[x].token # NoCall PROVE FALSE
  <2>1. pl[x].s \in LoopStages /\ cpu[x].busy /\ ~Unscheduled(pl[bspIndex], x)
    BY <1>1, HolderIs DEF Tokens, HolderOK
  <2>2. QED
    BY <2>1
<1>2. ASSUME Owed(pl), NEW k, <<k, x>> \in calls.owed PROVE FALSE
  <2>1. pl[x].s \in LoopStages /\ cpu[x].busy /\ OweOK(pl, k, x)
    BY <1>2, OwedIs
  <2>2. QED
    BY <2>1 DEF OweOK
<1>3. QED
  BY <1>1, <1>2

\* Only the BSP is in a service.
LEMMA ServedElsewhere ==
  ASSUME NEW pl, Meeting(pl), NEW c \in CPUs, IsAtBsp(pl[c]), NEW q, NEW pl2, Moves(pl, c, q, pl2),
         ServedOK(q)'
  PROVE  \A b \in CPUs : ServedOK(pl2[b])'
<1>1. ASSUME NEW b \in CPUs PROVE ServedOK(pl2[b])'
  <2>1. CASE b = c
    BY <2>1 DEF Moves
  <2>2. CASE b # c
    <3>1. pl2[b] = pl[b] /\ pl[b] \in Place /\ ~IsAtBsp(pl[b])
      BY <2>2, MeetingParts DEF Moves, IndexInv
    <3>2. pl2[b].s \notin ServiceStages
      BY <3>1, Kinds
    <3>3. QED
      BY <3>2 DEF ServedOK, ServiceStages, OneStages, AllStages
  <2>3. QED
    BY <2>1, <2>2
<1>2. QED
  BY <1>1

\* The BSP in a service past its first step.
LEMMA Serving ==
  ASSUME NEW pl, Meeting(pl), Tokens(pl), NEW c \in CPUs, pl[c].s \in ServiceStages \ {"wrap"}
  PROVE  /\ bspIndex = c /\ IsAtBsp(pl[c]) /\ pl[c] \in Place /\ ServedOK(pl[c])
         /\ calls.made >= 1 /\ calls.token \in {NoCall, calls.made}
            /\ (pl[c].b <=> calls.token = NoCall)
<1>1. pl[c] \in Place /\ ServedOK(pl[c])
  BY MeetingParts DEF Tokens
<1>2. IsAtBsp(pl[c]) /\ pl[c].s # "reset_counter"
  BY <1>1, Kinds DEF ServiceStages, OneStages, AllStages
<1>3. bspIndex = c
  BY <1>2, BspFacts
<1>4. QED
  BY <1>1, <1>2, <1>3 DEF ServedOK

\* The BSP releases an AP it has given a procedure, or waits for one.
LEMMA ServeCalls ==
  ASSUME NEW pl, Meeting(pl), Tokens(pl), NEW c \in CPUs,
         \/ ReleaseRun(c)
         \/ ReleaseAp(c) /\ pl[c].s = "bcast"
         \/ WaitNotBusy(c) /\ pl[c].s \in ServiceStages
  PROVE  KeepsCalls(pl)
<1>1. PICK q, pl2 : q \in Place /\ q = Succ(config, pl[c]) /\ Moves(pl, c, q, pl2) /\ Meeting(pl2)'
  BY ReleaseRunKeeps, BcastApKeeps, WaitOneKeeps DEF Keeps
<1>2. /\ pl[c].s \in {"release_run", "bcast", "wait_one", "wait_all"}
         /\ pl[c].s \in ServiceStages \ {"wrap"}
      /\ pl[c].s \in {"wait_one", "wait_all"} => WaitNotBusy(c)
  <2>1. ReleaseRun(c) => pl[c].s = "release_run"
    BY StageOf DEF ReleaseRun
  <2>2. WaitNotBusy(c) /\ pl[c].s \in ServiceStages => pl[c].s \in {"wait_one", "wait_all"}
    BY StageOf DEF WaitNotBusy, ServiceStages, OneStages, AllStages
  <2>3. pl[c].s \in {"release_run", "bcast", "wait_one", "wait_all"}
    BY <2>1, <2>2
  <2>4. pl[c].s \in {"wait_one", "wait_all"} => WaitNotBusy(c)
    BY <2>1
  <2>5. QED
    BY <2>3, <2>4 DEF ServiceStages, OneStages, AllStages
<1>3. PICK i : i = pl[c].i
  OBVIOUS
<1>4. /\ i \in CPUs /\ Index(c) = i /\ \A x \in CPUs : x \in Int /\ x <= N /\ x >= 1
      /\ \/ pl[c].s = "release_run" /\ q.s = "wait_one" /\ q.i = i /\ q.b = pl[c].b
         \/ pl[c].s = "release_run" /\ q.s = "handlers" /\ ~pl[c].b
         \/ pl[c].s = "wait_one" /\ q.s = "handlers"
         \/ pl[c].s = "bcast" /\ q.s = "bcast" /\ q.b = pl[c].b
         \/ pl[c].s = "bcast" /\ q.s = "wait_all" /\ q.i = 1 /\ q.b = pl[c].b
         \/ pl[c].s = "bcast" /\ q.s = "handlers" /\ ~pl[c].b
         \/ pl[c].s = "wait_all" /\ q.s = "wait_all" /\ q.i = i + 1 /\ q.b = pl[c].b
         \/ pl[c].s = "wait_all" /\ q.s = "handlers" /\ i = N
  <2>1. \A x \in CPUs : x \in Int /\ x <= N /\ x >= 1
    BY SmmAssumption DEF CPUs
  <2>2. QED
    BY <1>1, <1>2, <1>3, <2>1, ServiceNext
<1>5. /\ bspIndex = c /\ IsAtBsp(pl[c]) /\ calls.made >= 1 /\ calls.token \in {NoCall, calls.made}
      /\ (pl[c].b <=> calls.token = NoCall)
  BY <1>2, Serving
<1>6. /\ bspIndex' = bspIndex /\ calls' = calls
      /\ \A x \in CPUs : cpu'[x].token = cpu[x].token /\ cpu'[x].proc = cpu[x].proc
         /\ cpu'[x].busy = cpu[x].busy
  <2>1. bspIndex' = bspIndex /\ calls' = calls /\ (cpu' = cpu \/ \E v : SetData(i, "run", v))
    BY <1>4 DEF ReleaseRun, ReleaseAp, WaitNotBusy
  <2>2. Types
    BY MeetingParts
  <2>3. QED
    BY <1>4, <2>1, <2>2, SetSame
<1>7. ServedOK(q)' /\ Recounts(pl, c, q) /\ \A x : ~Unscheduled(q, x)
  <2>1. Pending(q) = Pending(pl[c])
    BY <1>4 DEF Pending
  <2>2. Recounts(pl, c, q)
    BY <1>6, <2>1, SameCount
  <2>3. QED
    BY <1>4, <1>5, <1>6, <2>2 DEF ServedOK, ServiceStages, OneStages, AllStages, Unscheduled
<1>8. q.s \notin HoldStages /\ q.s \notin OweStages /\ cpu[c].token = NoCall
      /\ (Owed(pl) => \A k : <<k, c>> \notin calls.owed)
  <2>1. pl[c].s \notin LoopStages
    BY <1>5, MeetingParts, Kinds
  <2>2. QED
    BY <1>4, <2>1, NotHeld DEF HoldStages, OweStages
<1>9. Tokens(pl2)'
  <2>1. \A x \in CPUs : cpu[x].token # NoCall => cpu[x].busy
    BY HolderIs
  <2>2. q.s # "token"
    BY <1>8 DEF HoldStages
  <2>3. QED
    BY <1>1, <1>6, <1>7, <1>8, <2>1, <2>2, CallFrame
<1>10. ASSUME Owed(pl) PROVE Owed(pl2)'
  <2>1. ASSUME NEW k \in 1 .. MaxCalls, NEW x \in CPUs, <<k, x>> \in calls'.owed
        PROVE  /\ cpu'[x].busy /\ (x = c => q.s \in OweStages) /\ ~Unscheduled(q, x)
               /\ Blocks(pl[c], x) => Blocks(q, x)
    <3>1. x # c /\ cpu[x].busy /\ pl[x].s \in LoopStages /\ x \in Int /\ x <= N /\ x >= 1 /\ i \in Int
      BY <1>4, <1>6, <1>8, <1>10, <2>1, OwedIs
    <3>2. pl[c].s \in {"wait_one", "wait_all"} => x # i
      <4>1. IsPresentAp(c, i) <=> i # c /\ pl[i].s \in LoopStages
        BY <1>2, <1>3, ServedAp
      <4>2. WaitNotBusy(c) => ~(IsPresentAp(c, i) /\ cpu[i].busy)
        BY <1>4 DEF WaitNotBusy
      <4>3. QED
        BY <1>2, <3>1, <4>1, <4>2
    <3>3. Blocks(pl[c], x) => Blocks(q, x)
      <4>0. i \in Int /\ N \in Int /\ x \in Int
        BY <3>1, SmmAssumption
      <4>1. CASE pl[c].s = "release_run"
        BY <1>3, <1>4, <4>1 DEF Blocks
      <4>2. CASE pl[c].s = "wait_one"
        BY <1>3, <3>2, <4>2 DEF Blocks
      <4>3. CASE pl[c].s = "bcast"
        BY <1>4, <3>1, <4>3 DEF Blocks
      <4>4. CASE pl[c].s = "wait_all" /\ Blocks(pl[c], x)
        <5>1. pl[c].b /\ x >= i /\ x # i /\ x <= N
          BY <1>3, <3>1, <3>2, <4>4 DEF Blocks
        <5>2. x >= i + 1 /\ i # N
          BY <4>0, <5>1
        <5>3. q.s = "wait_all" /\ q.i = i + 1 /\ q.b = pl[c].b
          BY <1>4, <4>4, <5>2
        <5>4. QED
          BY <5>1, <5>2, <5>3 DEF Blocks
      <4>5. QED
        BY <1>2, <4>1, <4>2, <4>3, <4>4
    <3>4. QED
      BY <1>6, <1>7, <3>1, <3>3
  <2>2. q.s # "wrap"
    BY <1>4
  <2>3. QED
    BY <1>1, <1>6, <1>10, <2>1, <2>2, OwedFrame
<1>11. QED
  BY <1>1, <1>9, <1>10 DEF KeepsCalls

\* The BSP takes Busy of an AP that has nothing to run.
LEMMA AcquireCalls ==
  ASSUME NEW pl, Meeting(pl), Tokens(pl), NEW c \in CPUs, AcquireBusy(c)
  PROVE  KeepsCalls(pl)
<1>1. PICK q, pl2 : q \in Place /\ q = Succ(config, pl[c]) /\ Moves(pl, c, q, pl2) /\ Meeting(pl2)'
  BY AcquireBusyKeeps DEF Keeps
<1>2. pl[c].s \in {"acquire", "acquire_present"} /\ pl[c].s \in ServiceStages \ {"wrap"}
  <2>1. pl[c].s \in {"acquire", "acquire_present"}
    BY StageOf DEF AcquireBusy
  <2>2. QED
    BY <2>1 DEF ServiceStages, OneStages, AllStages
<1>3. PICK i : i = pl[c].i
  OBVIOUS
<1>4. /\ i \in CPUs /\ Index(c) = i /\ N \in Int /\ \A x \in CPUs : x \in Int /\ x <= N /\ x >= 1
      /\ \/ pl[c].s = "acquire" /\ q.s = "schedule" /\ q.i = i /\ q.b = pl[c].b
         \/ pl[c].s = "acquire_present" /\ q.s = "acquire_present" /\ q.i = i + 1 /\ q.b = pl[c].b
         \/ pl[c].s = "acquire_present" /\ q.s = "schedule_present" /\ q.i = 1 /\ q.b = pl[c].b
            /\ i = N
  <2>1. N \in Int /\ \A x \in CPUs : x \in Int /\ x <= N /\ x >= 1
    BY SmmAssumption DEF CPUs
  <2>2. QED
    BY <1>1, <1>2, <1>3, <2>1, ServiceNext
<1>5. /\ bspIndex = c /\ IsAtBsp(pl[c]) /\ calls.made >= 1 /\ calls.token \in {NoCall, calls.made}
      /\ (pl[c].b <=> calls.token = NoCall) /\ ServedOK(pl[c])
  BY <1>2, Serving
<1>6. /\ bspIndex' = bspIndex /\ calls' = calls
      /\ IF pl[c].s = "acquire" \/ IsPresentAp(c, i) THEN ~cpu[i].busy
         /\ SetData(i, "busy", TRUE) ELSE cpu' = cpu
  <2>1. At(c, "acquire") <=> pl[c].s = "acquire"
    BY StageOf
  <2>2. QED
    BY <1>4, <2>1 DEF AcquireBusy
<1>7. \A x \in CPUs : cpu'[x].token = cpu[x].token /\ cpu'[x].proc = cpu[x].proc
      /\ (cpu[x].busy => cpu'[x].busy)
  <2>1. CASE ~cpu[i].busy /\ SetData(i, "busy", TRUE)
    <3>1. Types
      BY MeetingParts
    <3>2. PICK v : v = TRUE
      OBVIOUS
    <3>3. SetData(i, "busy", v)
      BY <2>1, <3>2
    <3>4. QED
      BY <1>4, <2>1, <3>1, <3>3, SetSame
  <2>2. QED
    BY <1>6, <2>1
<1>8. ASSUME NEW x \in CPUs, Unscheduled(q, x)
      PROVE  cpu[x].token = NoCall /\ (Owed(pl) => \A k : <<k, x>> \notin calls.owed)
  <2>1. x = i \/ Unscheduled(pl[c], x)
    BY <1>3, <1>4, <1>8 DEF Unscheduled
  <2>2. CASE Unscheduled(pl[c], x)
    BY <1>5, <2>2, NotHeld
  <2>3. CASE x = i
    <3>1. IsPresentAp(c, i) <=> i # c /\ pl[i].s \in LoopStages
      BY <1>2, <1>3, ServedAp
    <3>2. pl[c].s \notin LoopStages
      BY <1>5, MeetingParts, Kinds
    <3>3. ~cpu[i].busy \/ pl[i].s \notin LoopStages
      BY <1>6, <3>1, <3>2
    <3>4. QED
      BY <2>3, <3>3, NotHeld
  <2>4. QED
    BY <2>1, <2>2, <2>3
<1>9. ServedOK(q)'
  BY <1>3, <1>4, <1>5, <1>6 DEF ServedOK, ServiceStages, OneStages, AllStages
<1>10. Recounts(pl, c, q)
  <2>1. Pending(q) = Pending(pl[c])
    BY <1>4 DEF Pending
  <2>2. QED
    BY <1>6, <2>1, SameCount
<1>11. cpu[c].token = NoCall /\ (Owed(pl) => \A k : <<k, c>> \notin calls.owed)
  <2>1. pl[c].s \notin LoopStages
    BY <1>5, MeetingParts, Kinds
  <2>2. QED
    BY <2>1, NotHeld
<1>12. Tokens(pl2)'
  <2>1. \A x \in CPUs : cpu[x].token # NoCall => cpu[x].busy
    BY HolderIs
  <2>2. q.s # "token"
    BY <1>4
  <2>3. QED
    BY <1>1, <1>5, <1>6, <1>7, <1>8, <1>9, <1>10, <1>11, <2>1, <2>2, CallFrame
<1>13. ASSUME Owed(pl) PROVE Owed(pl2)'
  <2>1. ASSUME NEW k \in 1 .. MaxCalls, NEW x \in CPUs, <<k, x>> \in calls'.owed
        PROVE  /\ cpu'[x].busy /\ x # c /\ ~Unscheduled(q, x) /\ ~Blocks(pl[c], x)
    <3>1. x # c /\ cpu[x].busy
      BY <1>6, <1>11, <1>13, <2>1, OwedIs
    <3>2. ~Unscheduled(q, x)
      BY <1>6, <1>8, <1>13, <2>1
    <3>3. ~Blocks(pl[c], x)
      BY <1>2 DEF Blocks
    <3>4. QED
      BY <1>7, <3>1, <3>2, <3>3
  <2>2. q.s # "wrap"
    BY <1>4
  <2>3. QED
    BY <1>1, <1>6, <1>7, <1>13, <2>1, <2>2, OwedFrame
<1>14. QED
  BY <1>1, <1>12, <1>13 DEF KeepsCalls

\* SmmStartupThisAp gives the AP its wrapper.
LEMMA WrapCalls ==
  ASSUME NEW pl, Meeting(pl), Tokens(pl), NEW c \in CPUs, Wrap(c)
  PROVE  KeepsCalls(pl)
<1>1. PICK q, pl2 : /\ q \in Place /\ Moves(pl, c, q, pl2) /\ Meeting(pl2)'
                    /\ q = IF IsPresentAp(c, pl[c].i) THEN P("acquire", LoopK(config), pl[c].i, FALSE)
                           ELSE P("handlers", LoopK(config), 0, FALSE)
  BY WrapKeeps DEF Keeps
<1>2. /\ pl[c].s = "wrap" /\ pl[c] \in Place /\ Valid(config, pl[c]) /\ Types
      /\ \/ q.s = "handlers" /\ ~IsPresentAp(c, pl[c].i)
         \/ q.s = "acquire" /\ q.i = pl[c].i /\ q.b = FALSE /\ IsPresentAp(c, pl[c].i)
  <2>1. pl[c].s = "wrap" /\ pl[c] \in Place /\ Valid(config, pl[c]) /\ Types
    BY WrapGoes, MeetingParts, StageOf
  <2>2. CASE IsPresentAp(c, pl[c].i)
    BY <1>1, <2>1, <2>2 DEF P
  <2>3. CASE ~IsPresentAp(c, pl[c].i)
    BY <1>1, <2>1, <2>3 DEF P
  <2>4. QED
    BY <2>2, <2>3
<1>3. PICK i : i = pl[c].i
  OBVIOUS
<1>4. i \in CPUs /\ Index(c) = i /\ pl[c].s \in ServiceStages
  BY <1>2, <1>3, StageOf DEF Valid, ServiceStages, Wrap
<1>5. calls.made >= 1 /\ calls.token = calls.made /\ calls.proc = WRAPPER
      /\ calls.made \in 0 .. MaxCalls /\ calls.running[calls.made] = 0
  BY <1>2, <1>4, MeetingParts DEF Tokens, ServedOK, Types, CallData
<1>6. /\ calls'.made = calls.made /\ calls'.proc = calls.proc /\ calls'.token = calls.token
      /\ calls'.owed = calls.owed /\ calls'.wrapper[i] = calls.made
      /\ \A j \in 1 .. MaxCalls :
           calls'.running[j] = IF j = calls.made THEN Pending(q) ELSE calls.running[j]
  <2>1. PICK v : v = Pending(q)
    OBVIOUS
  <2>2. v \in Int /\ v = IF IsPresentAp(c, i) THEN 1 ELSE 0
    BY <1>2, <1>3, <2>1 DEF Pending
  <2>3. calls \in CallData
        /\ calls' = [calls EXCEPT !.wrapper[i] = calls.made, !.running[calls.made] = v]
    BY <1>2, <1>4, <2>2 DEF Wrap, Types
  <2>4. /\ calls'.made = calls.made /\ calls'.proc = calls.proc /\ calls'.token = calls.token
        /\ calls'.owed = calls.owed
        /\ \A x \in CPUs : calls'.wrapper[x] = IF x = i THEN calls.made ELSE calls.wrapper[x]
        /\ \A j \in 1 .. MaxCalls :
             calls'.running[j] = IF j = calls.made THEN v ELSE calls.running[j]
    BY <1>4, <2>2, <2>3, WrapIs, ZenonT(60)
  <2>5. QED
    BY <1>4, <2>1, <2>4
<1>7. cpu' = cpu /\ bspIndex' = bspIndex /\ IsAtBsp(pl[c]) /\ cpu[c].token = NoCall
  <2>1. IsAtBsp(pl[c]) /\ pl[c].s \notin LoopStages
    BY <1>2, <1>4, Kinds
  <2>2. QED
    BY <2>1, NotHeld DEF Wrap
<1>8. ServedOK(q)'
  <2>1. calls.made # NoCall /\ q.s # "wrap"
    BY <1>2, <1>5 DEF NoCall
  <2>2. q.s \in ServiceStages => q.s = "acquire" /\ q.i = i /\ q.b = FALSE
    BY <1>2, <1>3 DEF ServiceStages, OneStages, AllStages
  <2>3. QED
    BY <1>2, <1>3, <1>5, <1>6, <2>1, <2>2 DEF ServedOK
<1>9. Recounts(pl, c, q) /\ (\A x : ~Unscheduled(q, x)) /\ q.s # "token"
  <2>1. Pending(pl[c]) = 0 /\ Pending(q) \in {0, 1}
    BY <1>2 DEF Pending
  <2>2. \A k \in 1 .. MaxCalls : calls.running[k] \in Int /\ calls.running[k] <= N
    BY <1>2 DEF Types, CallData, Tokens, CountOK
  <2>3. Recounts(pl, c, q)
    BY <1>5, <1>6, <1>7, <2>1, <2>2, SmmAssumption DEF Recounts
  <2>4. QED
    BY <1>2, <2>3 DEF Unscheduled
<1>10. Tokens(pl2)'
  <2>1. \A x \in CPUs : cpu[x].token # NoCall => cpu[x].busy
    BY HolderIs
  <2>2. QED
    BY <1>1, <1>6, <1>7, <1>8, <1>9, <2>1, CallFrame
<1>11. ASSUME Owed(pl) PROVE Owed(pl2)'
  <2>1. calls'.owed = {}
    BY <1>2, <1>6, <1>11 DEF Owed
  <2>2. QED
    BY <2>1 DEF Owed
<1>12. QED
  BY <1>1, <1>10, <1>11 DEF KeepsCalls

\* A procedure that has run is not owed any more.
LEMMA RunIs ==
  ASSUME calls \in CallData, NEW x, calls' = [calls EXCEPT !.owed = @ \ {x}]
  PROVE  /\ calls'.made = calls.made /\ calls'.proc = calls.proc
         /\ calls'.token = calls.token /\ calls'.running = calls.running
         /\ calls'.wrapper = calls.wrapper /\ calls'.owed = calls.owed \ {x}
BY DEF CallData

\* An AP has run its procedure.
LEMMA RunProcedureCalls ==
  ASSUME NEW pl, Meeting(pl), Tokens(pl), NEW c \in CPUs, RunProcedure(c)
  PROVE  KeepsCalls(pl)
<1>1. PICK q, pl2 : /\ q \in Place /\ Moves(pl, c, q, pl2) /\ Meeting(pl2)'
                    /\ \/ cpu[c].token # NoCall /\ q = P("token", LoopK(config), 0, FALSE)
                       \/ cpu[c].token = NoCall /\ q = P("free", LoopK(config), 0, FALSE)
  BY RunProcedureKeeps DEF Keeps
<1>2. /\ \/ cpu[c].token # NoCall /\ q.s = "token"
         \/ cpu[c].token = NoCall /\ q.s = "free"
      /\ pl[c].s = "procedure" /\ pl[c].s \in LoopStages
  <2>1. pl[c].s = "procedure"
    BY RunProcedureGoes
  <2>2. CASE cpu[c].token # NoCall
    BY <1>1, <2>1, <2>2 DEF P, LoopStages
  <2>3. CASE cpu[c].token = NoCall
    BY <1>1, <2>1, <2>3 DEF P, LoopStages
  <2>4. QED
    BY <2>1, <2>2, <2>3 DEF LoopStages
<1>3. PICK k : k = Callee(c)
  OBVIOUS
<1>4. /\ calls'.made = calls.made /\ calls'.proc = calls.proc /\ calls'.token = calls.token
      /\ calls'.running = calls.running /\ calls'.wrapper = calls.wrapper
      /\ calls'.owed = calls.owed \ {<<k, c>>}
  <2>1. calls \in CallData /\ calls' = [calls EXCEPT !.owed = @ \ {<<k, c>>}]
    BY <1>3, MeetingParts DEF RunProcedure, Types
  <2>2. QED
    BY <2>1, RunIs
<1>5. cpu' = cpu /\ bspIndex' = bspIndex
  BY DEF RunProcedure
<1>6. q.s \notin ServiceStages /\ q.s # "wrap" /\ ~IsAtBsp(q)
  BY <1>1, <1>2, Kinds DEF ServiceStages, OneStages, AllStages, LoopStages
<1>7. ServedOK(q)' /\ (\A x : ~Unscheduled(q, x)) /\ (q.s = "token" => q.s \in HoldStages)
  BY <1>2, <1>6 DEF ServedOK, ServiceStages, OneStages, AllStages, Unscheduled, HoldStages
<1>8. Tokens(pl2)'
  <2>1. \A x \in CPUs : cpu[x].token # NoCall => cpu[x].busy
    BY HolderIs
  <2>2. Pending(q) = Pending(pl[c])
    BY <1>2 DEF Pending
  <2>3. Recounts(pl, c, q)
    BY <1>4, <2>2, SameCount
  <2>4. QED
    BY <1>1, <1>2, <1>4, <1>5, <1>6, <1>7, <2>1, <2>3, CallFrame
<1>9. ASSUME Owed(pl) PROVE Owed(pl2)'
  <2>1. ASSUME NEW j \in 1 .. MaxCalls, NEW x \in CPUs, <<j, x>> \in calls'.owed
        PROVE  cpu'[x].busy /\ x # c
    <3>1. <<j, x>> \in calls.owed /\ <<j, x>> # <<k, c>>
      BY <1>4, <2>1
    <3>2. OweOK(pl, j, x) /\ cpu[x].busy
      BY <1>9, <3>1, OwedIs
    <3>3. x # c
      BY <1>3, <3>1, <3>2 DEF OweOK
    <3>4. QED
      BY <1>5, <3>2, <3>3
  <2>2. ~IsAtBsp(pl[c])
    BY <1>2, MeetingParts, Kinds
  <2>3. QED
    BY <1>1, <1>4, <1>5, <1>6, <1>7, <1>9, <2>1, <2>2, OwedFrame
<1>10. QED
  BY <1>1, <1>8, <1>9 DEF KeepsCalls

\* An AP releases its token.
LEMMA ReleaseTokenCalls ==
  ASSUME NEW pl, Meeting(pl), Tokens(pl), NEW c \in CPUs, ReleaseToken(c)
  PROVE  KeepsCalls(pl)
<1>1. PICK q, pl2 : q \in Place /\ q = Succ(config, pl[c]) /\ Moves(pl, c, q, pl2) /\ Meeting(pl2)'
  BY ReleaseTokenKeeps DEF Keeps
<1>2. pl[c].s = "token" /\ q.s = "free" /\ pl[c].s \in LoopStages
  <2>1. pl[c].s = "token"
    BY StageOf DEF ReleaseToken, ApOps
  <2>2. QED
    BY <1>1, <2>1 DEF Succ, ApSucc, P, ApStages, LoopStages, OutStages, PreStages
<1>3. PICK t : t = cpu[c].token
  OBVIOUS
<1>4. /\ t \in 1 .. MaxCalls /\ t # NoCall /\ bspIndex \in CPUs /\ bspIndex # c /\ ~IsAtBsp(pl[c])
      /\ \A x \in CPUs : cpu[x].token # NoCall => cpu[x].busy
  BY <1>2, <1>3, HolderIs DEF Tokens
<1>5. /\ calls'.made = calls.made /\ calls'.proc = calls.proc /\ calls'.token = calls.token
      /\ calls'.wrapper = calls.wrapper /\ calls'.owed = calls.owed
      /\ \A j \in 1 .. MaxCalls :
           calls'.running[j] = IF j = t THEN calls.running[j] - 1 ELSE calls.running[j]
  <2>1. calls \in CallData /\ calls' = [calls EXCEPT !.running[t] = @ - 1]
    BY <1>3, MeetingParts DEF ReleaseToken, Types
  <2>2. QED
    BY <2>1, CountDown
<1>6. /\ Others(c) /\ cpu'[c].busy = cpu[c].busy /\ cpu'[c].proc = cpu[c].proc
         /\ cpu'[c].token = NoCall
      /\ bspIndex' = bspIndex
  <2>1. NoCall \in 0 .. MaxCalls /\ Types
    BY MeetingParts, SmmAssumption DEF NoCall
  <2>2. QED
    BY <2>1, SetToken DEF ReleaseToken
<1>7. pl2[c] = q /\ (\A x \in CPUs : x # c => pl2[x] = pl[x] /\ cpu'[x] = cpu[x])
      /\ pl \in [CPUs -> Place]
  BY <1>1, <1>6, MeetingParts DEF Moves, Others
<1>8. ASSUME NEW b \in CPUs PROVE ServedOK(pl2[b])'
  <2>1. CASE b = c
    <3>1. pl2[b].s = "free"
      BY <1>2, <1>7, <2>1
    <3>2. QED
      BY <3>1 DEF ServedOK, ServiceStages, OneStages, AllStages
  <2>2. CASE b # c
    <3>1. ServedOK(pl[b]) /\ pl2[b] = pl[b]
      BY <1>7, <2>2 DEF Tokens
    <3>2. ASSUME pl[b].s = "wrap" PROVE calls'.running[calls.made] = 0
      <4>1. IsAtBsp(pl[b]) /\ Pending(pl[b]) = 0
        BY <1>7, <3>2, Kinds DEF Pending, ServiceStages
      <4>2. calls.running[calls.made] = 0 /\ calls.made \in 1 .. MaxCalls
        BY <3>1, <3>2, MeetingParts, SmmAssumption DEF ServedOK, ServiceStages, Types, CallData
      <4>3. t # calls.made
        <5>1. IsFiniteSet(Holders(t)) /\ Cardinality(Holders(t)) \in Nat /\ c \in Holders(t)
          BY <1>3, HoldersFinite DEF Holders
        <5>2. Cardinality(Holders(t)) # 0
          BY <5>1, FS_EmptySet
        <5>3. calls.running[t] = Cardinality(Holders(t))
          BY <1>4, <4>1, <5>1, CountedByBsp
        <5>4. QED
          BY <4>2, <5>2, <5>3
      <4>4. QED
        BY <1>5, <4>2, <4>3
    <3>3. QED
      BY <1>5, <3>1, <3>2 DEF ServedOK
  <2>3. QED
    BY <2>1, <2>2
<1>9. ASSUME NEW x \in CPUs PROVE HolderOK(pl2, x)'
  <2>1. CASE x = c
    BY <1>6, <2>1 DEF HolderOK
  <2>2. CASE x # c
    <3>1. HolderOK(pl, x) /\ pl2[x] = pl[x] /\ cpu'[x] = cpu[x] /\ pl2[bspIndex'] = pl[bspIndex]
      BY <1>4, <1>6, <1>7, <2>2 DEF Tokens
    <3>2. QED
      BY <1>5, <3>1 DEF HolderOK
  <2>3. QED
    BY <2>1, <2>2
<1>10. ASSUME NEW x \in CPUs, pl2[x].s = "token" PROVE cpu'[x].token # NoCall
  <2>1. x # c
    BY <1>2, <1>7, <1>10
  <2>2. QED
    BY <1>7, <1>10, <2>1 DEF Tokens
<1>11. ASSUME NEW k \in 1 .. MaxCalls PROVE CountOK(pl2, k)'
  <2>1. calls.running[k] <= N /\ calls.running[k] \in Int /\ N \in Int
    BY MeetingParts, SmmAssumption DEF Tokens, CountOK, Types, CallData
  <2>2. IsFiniteSet(Holders(k)) /\ Cardinality(Holders(k)) \in Int
    BY HoldersFinite
  <2>3. \A x \in CPUs : Pending(pl2[x]) = Pending(pl[x])
    <3>1. Pending(q) = Pending(pl[c])
      BY <1>2 DEF Pending
    <3>2. QED
      BY <1>7, <3>1
  <2>4. PICK b \in CPUs :
          /\ \A x \in CPUs : x # b => Pending(pl[x]) = 0
          /\ calls.running[k] = Cardinality(Holders(k)) + (IF k = calls.token THEN Pending(pl[b]) ELSE 0)
    BY DEF Tokens, CountOK
  <2>5. Pending(pl[b]) \in Int
    BY <1>7, PendingIs
  <2>6. calls'.running[k] <= N /\ calls'.running[k] =
          Cardinality(Holders(k)') + (IF k = calls'.token THEN Pending(pl2[b]) ELSE 0)
    <3>1. CASE k # t
      <4>1. Holders(k)' = Holders(k) /\ calls'.running[k] = calls.running[k]
        BY <1>3, <1>4, <1>5, <1>6, <1>7, <3>1 DEF Holders, NoCall
      <4>2. QED
        BY <1>5, <2>1, <2>3, <2>4, <4>1
    <3>2. CASE k = t
      <4>1. Holders(k)' = Holders(k) \ {c} /\ c \in Holders(k)
            /\ calls'.running[k] = calls.running[k] - 1
        BY <1>3, <1>4, <1>5, <1>6, <1>7, <3>2 DEF Holders, NoCall
      <4>2. Cardinality(Holders(k)') = Cardinality(Holders(k)) - 1
        BY <2>2, <4>1, FS_RemoveElement
      <4>3. QED
        BY <1>5, <2>1, <2>2, <2>3, <2>4, <2>5, <4>1, <4>2
    <3>3. QED
      BY <3>1, <3>2
  <2>7. \A x \in CPUs : x # b => Pending(pl2[x]) = 0
    BY <2>3, <2>4
  <2>8. QED
    BY <2>6, <2>7 DEF CountOK
<1>12. Tokens(pl2)'
  <2>1. (calls.owed \subseteq (1 .. MaxCalls) \X CPUs)'
    BY <1>5 DEF Tokens
  <2>2. QED
    BY <1>8, <1>9, <1>10, <1>11, <2>1 DEF Tokens
<1>13. ASSUME Owed(pl) PROVE Owed(pl2)'
  <2>1. ASSUME NEW j \in 1 .. MaxCalls, NEW x \in CPUs, <<j, x>> \in calls'.owed
        PROVE  x # c /\ cpu'[x] = cpu[x] /\ cpu[x].busy
    <3>1. pl[x].s \in OweStages /\ cpu[x].busy
      BY <1>5, <1>13, <2>1, OwedIs
    <3>2. x # c
      BY <1>2, <3>1 DEF OweStages
    <3>3. QED
      BY <1>7, <3>1, <3>2
  <2>2. q.s # "wrap" /\ \A x : ~Unscheduled(q, x)
    BY <1>2 DEF Unscheduled
  <2>3. QED
    BY <1>1, <1>4, <1>5, <1>6, <1>13, <2>1, <2>2, OwedFrame
<1>14. QED
  BY <1>1, <1>12, <1>13 DEF KeepsCalls

\* Nothing is left of the calls of an SMI when the BSP resets its tokens.
LEMMA NoCalls ==
  ASSUME NEW pl, pl \in [CPUs -> Place], calls = Calls0,
         \A x \in CPUs : pl[x].s \notin ServiceStages /\ cpu[x].token = NoCall /\ pl[x].s # "token"
  PROVE  Tokens(pl) /\ Owed(pl)
<1>1. calls.owed = {} /\ calls.token = 0 /\ \A k \in 1 .. MaxCalls : calls.running[k] = 0
  BY DEF Calls0, NoCall
<1>2. \A x \in CPUs : ServedOK(pl[x]) /\ HolderOK(pl, x)
  BY DEF ServedOK, HolderOK, ServiceStages, OneStages, AllStages
<1>3. ASSUME NEW k \in 1 .. MaxCalls PROVE CountOK(pl, k)
  <2>1. Holders(k) = {}
    BY DEF Holders, NoCall
  <2>2. Cardinality(Holders(k)) = 0
    BY <2>1, FS_EmptySet
  <2>3. 1 \in CPUs /\ 0 <= N /\ k # calls.token
    BY <1>1, SmmAssumption DEF CPUs
  <2>4. \A x \in CPUs : Pending(pl[x]) = 0
    BY DEF Pending, ServiceStages, OneStages, AllStages
  <2>5. QED
    BY <1>1, <2>2, <2>3, <2>4 DEF CountOK
<1>4. Tokens(pl)
  BY <1>1, <1>2, <1>3 DEF Tokens
<1>5. QED
  BY <1>1, <1>4 DEF Owed

\* Neither a token nor a procedure is left when the BSP gives its role back.
NoCallsLeft ==
  \A pl : (/\ pl \in [CPUs -> Place] /\ calls = Calls0
           /\ \A x \in CPUs :
                pl[x].s \notin ServiceStages /\ cpu[x].token = NoCall /\ pl[x].s # "token")
          => Tokens(pl) /\ Owed(pl)

\* The same of the next state.
LEMMA NoCallsNext == NoCallsLeft'
<1>1. NoCallsLeft
  BY NoCalls DEF NoCallsLeft
<1>2. QED
  BY <1>1, PTL

\* The BSP gives its role back: no token is held and nothing is owed then.
LEMMA ResetBspCalls ==
  ASSUME NEW pl, Meeting(pl), Tokens(pl), NEW c \in CPUs, ResetBsp(c)
  PROVE  KeepsCalls(pl)
<1>1. PICK q, pl2 : q \in Place /\ q = Succ(config, pl[c]) /\ Moves(pl, c, q, pl2) /\ Meeting(pl2)'
  BY ResetBspKeeps DEF Keeps
<1>2. pl[c].s = "reset_bsp" /\ q.s = "reset_counter"
  <2>1. pl[c].s = "reset_bsp"
    BY StageOf DEF ResetBsp
  <2>2. QED
    BY <1>1, <2>1 DEF Succ, BspSucc, P, ApStages, LoopStages, OutStages, PreStages, ServiceStages,
       OneStages, AllStages
<1>3. ASSUME NEW x \in CPUs
      PROVE  cpu'[x].token = NoCall /\ pl2[x].s \notin ServiceStages /\ pl2[x].s # "token"
  <2>1. CASE x = c
    <3>1. pl2[x].s = "reset_counter" /\ pl[x].s \notin LoopStages
      BY <1>1, <1>2, <2>1 DEF Moves, LoopStages
    <3>2. cpu[x].token = NoCall
      BY <3>1, NotHeld
    <3>3. QED
      BY <3>1, <3>2 DEF ResetBsp, ServiceStages, OneStages, AllStages
  <2>2. CASE x # c
    <3>1. IsOut(pl[x]) /\ pl2[x] = pl[x] /\ pl[x] \in Place
      BY <1>1, <1>2, <2>2, EndFacts, MeetingParts DEF Moves
    <3>2. pl[x].s \notin LoopStages /\ pl[x].s \notin ServiceStages
      BY <3>1, Kinds
    <3>3. cpu[x].token = NoCall
      BY <3>2, NotHeld
    <3>4. QED
      BY <3>1, <3>2, <3>3 DEF ResetBsp, LoopStages
  <2>3. QED
    BY <2>1, <2>2
<1>4. (Tokens(pl2) /\ Owed(pl2))'
  <2>1. (calls = Calls0)' /\ (pl2 \in [CPUs -> Place])'
    BY <1>1 DEF ResetBsp, Calls0, Moves
  <2>2. QED
    BY <1>3, <2>1, NoCallsNext DEF NoCallsLeft
<1>5. QED
  BY <1>1, <1>4 DEF KeepsCalls

\* What NewCall leaves in calls.
NewCallDone(service, blocking, running) ==
  /\ calls'.made = calls.made + 1 /\ calls'.made \in 1 .. MaxCalls
  /\ calls'.made <= config.calls /\ service \in config.services
  /\ calls'.proc = IF service = "SmmStartupThisAp" THEN WRAPPER ELSE calls'.made
  /\ calls'.token = IF blocking THEN NoCall ELSE calls'.made
  /\ calls'.wrapper = calls.wrapper /\ calls'.owed = calls.owed
  /\ \A j \in 1 .. MaxCalls :
       calls'.running[j] = IF j = calls.made + 1 THEN (IF blocking THEN 0 ELSE running)
                           ELSE calls.running[j]

\* NewCall leaves what NewCallDone says.
LEMMA NewCallDoes ==
  ASSUME Types, NEW service, NEW blocking \in BOOLEAN, NEW running \in Int,
         NewCall(service, blocking, running)
  PROVE  NewCallDone(service, blocking, running)
BY NewCallIs, ZenonT(60) DEF NewCallDone

\* A service starts a call: the token counts the processors it may be given to.
LEMMA StartsCall ==
  ASSUME NEW pl, Meeting(pl), Tokens(pl), NEW c \in CPUs, pl[c].s = "handlers",
         NEW q, q \in Place, NEW pl2, Moves(pl, c, q, pl2),
         NEW service, NEW blocking \in BOOLEAN, NEW running, running \in 0 .. N,
         NewCall(service, blocking, running), cpu' = cpu, bspIndex' = bspIndex,
         ServedOK(q)', Pending(q) = running, \A x \in CPUs : ~Unscheduled(q, x), q.s # "token"
  PROVE  /\ Tokens(pl2)'
         /\ Owed(pl) /\ (q.s = "wrap" => calls.owed = {}) => Owed(pl2)'
<1>1. /\ pl2[c] = q /\ (\A x \in CPUs : x # c => pl2[x] = pl[x]) /\ pl \in [CPUs -> Place]
      /\ Types /\ IsAtBsp(pl[c]) /\ bspIndex = c
  <2>1. Types /\ pl \in [CPUs -> Place]
    BY MeetingParts
  <2>2. IsAtBsp(pl[c]) /\ pl[c].s # "reset_counter"
    BY <2>1 DEF IsAtBsp, BspStages
  <2>3. QED
    BY <2>1, <2>2, BspFacts DEF Moves
<1>2. /\ calls'.made = calls.made + 1 /\ calls'.made \in 1 .. MaxCalls
      /\ calls'.token = IF blocking THEN NoCall ELSE calls'.made
      /\ calls'.wrapper = calls.wrapper /\ calls'.owed = calls.owed
      /\ \A j \in 1 .. MaxCalls :
           calls'.running[j] = IF j = calls.made + 1 THEN (IF blocking THEN 0 ELSE running)
                               ELSE calls.running[j]
  <2>1. running \in Int
    OBVIOUS
  <2>2. QED
    <3>1. NewCallDone(service, blocking, running)
      BY <1>1, <2>1, NewCallDoes
    <3>2. QED
      BY <3>1 DEF NewCallDone
<1>3. calls.made \in Int /\ N \in Int /\ MaxCalls \in Int /\ running \in Int /\ running >= 0
      /\ running <= N
  BY <1>1, SmmAssumption DEF Types, CallData
<1>4. cpu[c].token = NoCall /\ (Owed(pl) => \A k : <<k, c>> \notin calls.owed)
  <2>1. pl[c].s \notin LoopStages
    BY DEF LoopStages
  <2>2. QED
    BY <2>1, NotHeld
<1>5. ASSUME NEW b \in CPUs PROVE ServedOK(pl2[b])'
  <2>1. QED
    BY <1>1, ServedElsewhere
<1>6. ASSUME NEW x \in CPUs PROVE HolderOK(pl2, x)'
  <2>1. CASE cpu[x].token = NoCall
    BY <2>1 DEF HolderOK
  <2>2. CASE cpu[x].token # NoCall
    <3>1. HolderOK(pl, x) /\ x # c /\ pl2[x] = pl[x] /\ cpu[x].token \in Int
      BY <1>1, <1>4, <2>2 DEF Tokens, Types, CpuData
    <3>2. cpu[x].token <= calls'.made /\ pl2[x].s \in HoldStages /\ cpu[x].busy
      BY <1>2, <1>3, <2>2, <3>1 DEF HolderOK
    <3>3. ~Unscheduled(pl2[bspIndex'], x)
      BY <1>1
    <3>4. QED
      BY <3>2, <3>3 DEF HolderOK
  <2>3. QED
    BY <2>1, <2>2
<1>7. ASSUME NEW x \in CPUs, pl2[x].s = "token" PROVE cpu'[x].token # NoCall
  BY <1>1, <1>7 DEF Tokens
<1>8. ASSUME NEW k \in 1 .. MaxCalls PROVE CountOK(pl2, k)'
  <2>1. Holders(k)' = Holders(k)
    BY DEF Holders
  <2>2. \A x \in CPUs : x # c => Pending(pl2[x]) = 0
    BY <1>1, MeetingParts, PendingIs DEF IndexInv
  <2>3. CASE k = calls.made + 1
    <3>1. Holders(k) = {}
      <4>1. ASSUME NEW x \in Holders(k) PROVE FALSE
        <5>1. x \in CPUs /\ cpu[x].token = k /\ k # NoCall
          BY <4>1 DEF Holders, NoCall
        <5>2. k <= calls.made
          BY <5>1 DEF Tokens, HolderOK
        <5>3. QED
          BY <1>3, <2>3, <5>2
      <4>2. QED
        BY <4>1
    <3>2. Cardinality(Holders(k)) = 0
      BY <3>1, FS_EmptySet
    <3>3. calls'.running[k] <= N /\ calls'.running[k] =
            Cardinality(Holders(k)') + (IF k = calls'.token THEN Pending(pl2[c]) ELSE 0)
      <4>1. CASE blocking
        BY <1>2, <1>3, <2>1, <2>3, <3>2, <4>1 DEF NoCall
      <4>2. CASE ~blocking
        BY <1>1, <1>2, <1>3, <2>1, <2>3, <3>2, <4>2
      <4>3. QED
        BY <4>1, <4>2
    <3>4. QED
      BY <2>2, <3>3 DEF CountOK
  <2>4. CASE k # calls.made + 1
    <3>1. k # calls'.token
      BY <1>2, <2>4 DEF NoCall
    <3>2. calls'.running[k] = calls.running[k] /\ calls.running[k] \in Int
      BY <1>1, <1>2, <2>4 DEF Types, CallData
    <3>3. calls.running[k] = Cardinality(Holders(k)) /\ calls.running[k] <= N
      <4>1. Pending(pl[c]) = 0
        BY DEF Pending
      <4>2. Cardinality(Holders(k)) \in Int
        BY HoldersFinite
      <4>3. QED
        BY <1>1, <4>1, <4>2, CountedByBsp
    <3>4. Cardinality(Holders(k)) + 0 = Cardinality(Holders(k))
      BY HoldersFinite
    <3>5. QED
      BY <2>1, <2>2, <3>1, <3>2, <3>3, <3>4 DEF CountOK
  <2>5. QED
    BY <2>3, <2>4
<1>9. Tokens(pl2)'
  <2>1. (calls.owed \subseteq (1 .. MaxCalls) \X CPUs)'
    BY <1>2 DEF Tokens
  <2>2. QED
    BY <1>5, <1>6, <1>7, <1>8, <2>1 DEF Tokens
<1>10. ASSUME Owed(pl), q.s = "wrap" => calls.owed = {} PROVE Owed(pl2)'
  <2>1. ASSUME NEW k \in 1 .. MaxCalls, NEW x \in CPUs, <<k, x>> \in calls'.owed
        PROVE  OweOK(pl2, k, x)'
    <3>1. OweOK(pl, k, x) /\ pl[x].s \in OweStages /\ x # c
      BY <1>1, <1>2, <1>10, <2>1, OwedIs
    <3>2. ~Blocks(pl[bspIndex], x)
      BY <1>1 DEF Blocks
    <3>3. cpu[x].token = k
      BY <3>1, <3>2 DEF OweOK
    <3>4. Callee(x)' = Callee(x) /\ k <= calls'.made
      BY <1>2, <1>3, <3>1 DEF Callee, OweOK
    <3>5. pl2[x] = pl[x] /\ ~Unscheduled(pl2[bspIndex'], x)
      BY <1>1, <3>1
    <3>6. QED
      BY <3>1, <3>3, <3>4, <3>5 DEF OweOK
  <2>2. ASSUME NEW b \in CPUs, pl2[b].s = "wrap" PROVE calls'.owed = {}
    <3>1. CASE b = c
      BY <1>1, <1>2, <1>10, <2>2, <3>1
    <3>2. CASE b # c
      BY <1>1, <1>2, <1>10, <2>2, <3>2 DEF Owed
    <3>3. QED
      BY <3>1, <3>2
  <2>3. QED
    BY <2>1, <2>2 DEF Owed
<1>11. QED
  BY <1>9, <1>10

\* DispatchProcedure starts a call for one AP.
LEMMA DispatchCalls ==
  ASSUME NEW pl, Meeting(pl), Tokens(pl), NEW c \in CPUs, NEW i \in CPUs, NEW blocking \in BOOLEAN,
         DispatchProcedure(c, i, blocking)
  PROVE  KeepsCalls(pl)
<1>1. PICK q, pl2 : q \in Place /\ q = P("acquire", LoopK(config), i, blocking)
      /\ Moves(pl, c, q, pl2) /\ Meeting(pl2)'
  BY DispatchKeeps DEF Keeps
<1>2. q.s = "acquire" /\ q.i = i /\ q.b = blocking
  BY <1>1 DEF P
<1>3. /\ pl[c].s = "handlers" /\ NewCall("DispatchProcedure", blocking, 1) /\ cpu' = cpu
         /\ bspIndex' = bspIndex
      /\ 1 \in 0 .. N /\ Types
  BY DispatchGoes, MeetingParts, SmmAssumption DEF DispatchProcedure
<1>4. ServedOK(q)'
  <2>1. /\ calls'.made \in 1 .. MaxCalls /\ calls'.proc = calls'.made
        /\ calls'.token = IF blocking THEN NoCall ELSE calls'.made
    <3>1. 1 \in Int
      BY SmmAssumption
    <3>2. NewCallDone("DispatchProcedure", blocking, 1)
      BY <1>3, <3>1, NewCallDoes
    <3>3. QED
      BY <3>2 DEF NewCallDone
  <2>2. QED
    BY <1>2, <2>1 DEF ServedOK, NoCall
<1>5. Pending(q) = 1 /\ \A x \in CPUs : ~Unscheduled(q, x)
  BY <1>2 DEF Pending, Unscheduled
<1>6. Tokens(pl2)' /\ (Owed(pl) => Owed(pl2)')
  <2>1. q.s # "token" /\ q.s # "wrap"
    BY <1>2
  <2>2. QED
    BY <1>1, <1>3, <1>4, <1>5, <2>1, StartsCall
<1>7. QED
  BY <1>1, <1>6 DEF KeepsCalls

\* At most one call is made in an SMI when SmmStartupThisAp may be used.
LEMMA StartupCalls ==
  ASSUME NEW pl, Meeting(pl), Tokens(pl), NEW c \in CPUs, NEW i \in CPUs, SmmStartupThisAp(c, i)
  PROVE  KeepsCalls(pl)
<1>1. PICK q, pl2 : q \in Place /\ q = P("wrap", LoopK(config), i, FALSE) /\ Moves(pl, c, q, pl2)
      /\ Meeting(pl2)'
  BY StartupKeeps DEF Keeps
<1>2. q.s = "wrap" /\ q.i = i
  BY <1>1 DEF P
<1>3. /\ pl[c].s = "handlers" /\ NewCall("SmmStartupThisAp", FALSE, 0) /\ cpu' = cpu
         /\ bspIndex' = bspIndex
      /\ 0 \in 0 .. N /\ Types
  <2>1. pl[c].s = "handlers"
    BY StartupGoes
  <2>2. 0 \in 0 .. N /\ Types
    BY MeetingParts, SmmAssumption
  <2>3. NewCall("SmmStartupThisAp", FALSE, 0) /\ cpu' = cpu /\ bspIndex' = bspIndex
    BY DEF SmmStartupThisAp
  <2>4. QED
    BY <2>1, <2>2, <2>3
<1>4. PICK blocking \in BOOLEAN : blocking = FALSE
  OBVIOUS
<1>5. NewCall("SmmStartupThisAp", blocking, 0)
  BY <1>3, <1>4
<1>6. /\ calls'.made \in 1 .. MaxCalls /\ calls'.made = calls.made + 1 /\ calls'.proc = WRAPPER
      /\ calls'.token = calls'.made /\ calls'.running[calls'.made] = 0
      /\ calls'.made <= config.calls /\ "SmmStartupThisAp" \in config.services
  <2>1. 0 \in Int
    OBVIOUS
  <2>2. NewCallDone("SmmStartupThisAp", blocking, 0)
    BY <1>3, <1>5, <2>1, NewCallDoes
  <2>3. QED
    BY <1>4, <2>2 DEF NewCallDone
<1>7. ServedOK(q)'
  BY <1>2, <1>6 DEF ServedOK
<1>8. Pending(q) = 0 /\ \A x \in CPUs : ~Unscheduled(q, x)
  BY <1>2 DEF Pending, Unscheduled
<1>9. ASSUME Owed(pl), OneStartup PROVE calls.owed = {}
  <2>1. config.calls <= 1 /\ config.calls \in Int /\ calls.made \in Int
    BY <1>3, <1>6, <1>9, SmmAssumption DEF OneStartup, Types, CallData
  <2>2. calls.made <= 0
    BY <1>6, <2>1
  <2>3. ASSUME NEW e \in calls.owed PROVE FALSE
    <3>1. PICK k, x : e = <<k, x>> /\ k \in 1 .. MaxCalls
      BY <2>3 DEF Tokens
    <3>2. k <= calls.made
      BY <1>9, <2>3, <3>1, OwedIs DEF OweOK
    <3>3. QED
      BY <2>1, <2>2, <3>1, <3>2
  <2>4. QED
    BY <2>3
<1>10. Tokens(pl2)' /\ (Owed(pl) /\ OneStartup => Owed(pl2)')
  <2>1. q.s # "token"
    BY <1>2
  <2>2. QED
    BY <1>1, <1>3, <1>5, <1>7, <1>8, <1>9, <2>1, StartsCall
<1>11. QED
  BY <1>1, <1>10 DEF KeepsCalls

\* BroadcastProcedure starts a call for all.
LEMMA BroadcastCalls ==
  ASSUME NEW pl, Meeting(pl), Tokens(pl), NEW c \in CPUs, NEW blocking \in BOOLEAN, Gathers(config),
         BroadcastProcedure(c, blocking)
  PROVE  KeepsCalls(pl)
<1>1. PICK q, pl2 : q \in Place /\ q = P("acquire_present", LoopK(config), 1, blocking)
      /\ Moves(pl, c, q, pl2) /\ Meeting(pl2)'
  BY BroadcastKeeps DEF Keeps
<1>2. q.s = "acquire_present" /\ q.i = 1 /\ q.b = blocking
  BY <1>1 DEF P
<1>3. /\ pl[c].s = "handlers" /\ NewCall("BroadcastProcedure", blocking, N) /\ cpu' = cpu
         /\ bspIndex' = bspIndex
      /\ N \in 0 .. N /\ Types
  BY BroadcastGoes, MeetingParts, SmmAssumption DEF BroadcastProcedure
<1>4. ServedOK(q)'
  <2>1. /\ calls'.made \in 1 .. MaxCalls /\ calls'.proc = calls'.made
        /\ calls'.token = IF blocking THEN NoCall ELSE calls'.made
    <3>1. N \in Int
      BY SmmAssumption
    <3>2. NewCallDone("BroadcastProcedure", blocking, N)
      BY <1>3, <3>1, NewCallDoes
    <3>3. QED
      BY <3>2 DEF NewCallDone
  <2>2. QED
    BY <1>2, <2>1 DEF ServedOK, NoCall
<1>5. Pending(q) = N /\ \A x \in CPUs : ~Unscheduled(q, x)
  BY <1>2 DEF Pending, Unscheduled, CPUs
<1>6. Tokens(pl2)' /\ (Owed(pl) => Owed(pl2)')
  <2>1. q.s # "token" /\ q.s # "wrap"
    BY <1>2
  <2>2. QED
    BY <1>1, <1>3, <1>4, <1>5, <2>1, StartsCall
<1>7. QED
  BY <1>1, <1>6 DEF KeepsCalls

\* What the BSP knows there.
ScheduleView(pl, c, q, i) ==
  /\ i \in CPUs /\ IsAtBsp(pl[c]) /\ bspIndex = c /\ bspIndex' = bspIndex /\ cpu[c].token = NoCall
  /\ calls.made \in 1 .. MaxCalls /\ calls.token \in {NoCall, calls.made} /\ calls \in CallData
  /\ calls.proc = calls.made \/ (calls.proc = WRAPPER /\ calls.wrapper[i] = calls.made)
  /\ (calls'.made = calls.made /\ calls'.token = calls.token /\ calls'.proc = calls.proc => ServedOK(q)')
  /\ q.s \notin HoldStages /\ q.s # "wrap"
  /\ \A x \in CPUs : Unscheduled(q, x) => Unscheduled(pl[c], x) /\ x # i
  /\ cpu[i].token = NoCall
     /\ (Owed(pl) => \A k : <<k, i>> \notin calls.owed /\ <<k, c>> \notin calls.owed)
  /\ Pending(q) \in Nat /\ Pending(pl[c]) = Pending(q) + 1
  /\ \A x \in CPUs : Blocks(pl[c], x) => Blocks(q, x)
  /\ calls.token = NoCall => Blocks(q, i)

\* The BSP at a step that gives the procedure and the token to AP i, or takes i off the token.
LEMMA ScheduleMoves ==
  ASSUME NEW pl, Meeting(pl), Tokens(pl), NEW c \in CPUs, Schedule(c), NEW q, q = Succ(config, pl[c]),
         NEW i, i = pl[c].i
  PROVE  ScheduleView(pl, c, q, i)
<1>1. /\ pl[c].s \in {"schedule", "schedule_present"} /\ i \in CPUs
      /\ pl[c].s \in ServiceStages \ {"wrap"}
  <2>1. pl[c].s \in {"schedule", "schedule_present"} /\ i \in CPUs
    BY ScheduleDoes
  <2>2. QED
    BY <2>1 DEF ServiceStages, OneStages, AllStages
<1>2. /\ bspIndex = c /\ IsAtBsp(pl[c]) /\ ServedOK(pl[c])
      /\ calls.made >= 1 /\ calls.token \in {NoCall, calls.made} /\ (pl[c].b <=> calls.token = NoCall)
  BY <1>1, Serving
<1>3. i \in Int /\ N \in Int /\ i <= N /\ \A x \in CPUs : x \in Int /\ x <= N
  BY <1>1, SmmAssumption DEF CPUs
<1>4. \/ pl[c].s = "schedule" /\ q.s = "release_run" /\ q.i = i /\ q.b = pl[c].b
      \/ pl[c].s = "schedule_present" /\ q.s = "schedule_present" /\ q.i = i + 1 /\ i < N
         /\ q.b = pl[c].b
      \/ pl[c].s = "schedule_present" /\ q.s = "bcast" /\ i = N /\ q.b = pl[c].b
  BY <1>1, ServiceNext
<1>5. calls.made \in 1 .. MaxCalls /\ calls \in CallData /\ bspIndex' = bspIndex
  BY <1>2, MeetingParts DEF Types, CallData, Schedule
<1>6. calls.proc = calls.made \/ (calls.proc = WRAPPER /\ calls.wrapper[i] = calls.made)
  BY <1>1, <1>2 DEF ServedOK
<1>7. calls'.made = calls.made /\ calls'.token = calls.token
      /\ calls'.proc = calls.proc => ServedOK(q)'
  BY <1>1, <1>2, <1>4 DEF ServedOK, ServiceStages, OneStages, AllStages
<1>8. q.s \notin HoldStages /\ q.s # "wrap"
  BY <1>4 DEF HoldStages
<1>9. \A x \in CPUs : Unscheduled(q, x) => Unscheduled(pl[c], x) /\ x # i
  BY <1>3, <1>4 DEF Unscheduled
<1>10. Unscheduled(pl[c], i)
  BY <1>1, <1>3 DEF Unscheduled
<1>11. cpu[i].token = NoCall /\ (Owed(pl) => \A k : <<k, i>> \notin calls.owed)
  BY <1>1, <1>2, <1>10, NotHeld
<1>12. cpu[c].token = NoCall /\ (Owed(pl) => \A k : <<k, c>> \notin calls.owed)
  <2>1. pl[c].s \notin LoopStages
    BY <1>1 DEF LoopStages
  <2>2. QED
    BY <2>1, NotHeld
<1>13. Pending(q) \in Nat /\ Pending(pl[c]) = Pending(q) + 1
  BY <1>3, <1>4 DEF Pending
<1>14. (\A x \in CPUs : Blocks(pl[c], x) => Blocks(q, x)) /\ (calls.token = NoCall => Blocks(q, i))
  <2>1. ASSUME NEW x \in CPUs, Blocks(pl[c], x) PROVE Blocks(q, x)
    BY <1>4, <2>1 DEF Blocks
  <2>2. ASSUME calls.token = NoCall PROVE Blocks(q, i)
    BY <1>2, <1>4, <2>2 DEF Blocks
  <2>3. QED
    BY <2>1, <2>2
<1>15. QED
  BY <1>1, <1>2, <1>5, <1>6, <1>7, <1>8, <1>9, <1>11, <1>12, <1>13, <1>14 DEF ScheduleView

\* An absent AP is taken off the token's count.
LEMMA SkippedCalls ==
  ASSUME NEW pl, Meeting(pl), Tokens(pl), NEW c \in CPUs, Schedule(c),
         ~(pl[c].s = "schedule" \/ IsPresentAp(c, pl[c].i))
  PROVE  KeepsCalls(pl)
<1>1. PICK q, pl2 : q \in Place /\ q = Succ(config, pl[c]) /\ Moves(pl, c, q, pl2) /\ Meeting(pl2)'
  BY ScheduleKeeps DEF Keeps
<1>2. PICK i, t : i = pl[c].i /\ t = calls.token
  OBVIOUS
<1>3. /\ i \in CPUs /\ IsAtBsp(pl[c]) /\ bspIndex = c /\ bspIndex' = bspIndex /\ cpu[c].token = NoCall
      /\ (calls'.made = calls.made /\ calls'.token = calls.token /\ calls'.proc = calls.proc => ServedOK(q)')
      /\ q.s \notin HoldStages /\ q.s # "wrap" /\ calls \in CallData
      /\ \A x \in CPUs : Unscheduled(q, x) => Unscheduled(pl[c], x) /\ x # i
      /\ Owed(pl) => \A k : <<k, c>> \notin calls.owed
      /\ Pending(q) \in Nat /\ Pending(pl[c]) = Pending(q) + 1
      /\ \A x \in CPUs : Blocks(pl[c], x) => Blocks(q, x)
  <2>1. ScheduleView(pl, c, q, i)
    BY <1>1, <1>2, ScheduleMoves
  <2>2. QED
    BY <2>1 DEF ScheduleView
<1>4. /\ cpu' = cpu /\ calls'.made = calls.made /\ calls'.proc = calls.proc
         /\ calls'.token = calls.token
      /\ calls'.wrapper = calls.wrapper /\ calls'.owed = calls.owed
      /\ \A j \in 1 .. MaxCalls :
           calls'.running[j] = IF j = t THEN calls.running[j] - 1 ELSE calls.running[j]
  <2>1. cpu' = cpu /\ calls' = IF t = NoCall THEN calls ELSE [calls EXCEPT !.running[t] = @ - 1]
    BY <1>2, ScheduleDoes
  <2>2. CASE t = NoCall
    BY <2>1, <2>2 DEF NoCall
  <2>3. CASE t # NoCall
    <3>1. calls' = [calls EXCEPT !.running[t] = @ - 1]
      BY <2>1, <2>3
    <3>2. QED
      BY <1>3, <2>1, <3>1, CountDown
  <2>4. QED
    BY <2>2, <2>3
<1>5. /\ pl2[c] = q /\ (\A x \in CPUs : x # c => pl2[x] = pl[x])
      /\ \A b \in CPUs : IsAtBsp(pl2[b]) => b = c
  BY <1>1, <1>3, MeetingParts DEF Moves, IndexInv
<1>6. \A b \in CPUs : ServedOK(pl2[b])'
  BY <1>1, <1>3, <1>4, ServedElsewhere
<1>7. ASSUME NEW x \in CPUs PROVE HolderOK(pl2, x)'
  <2>1. CASE cpu[x].token = NoCall
    BY <1>4, <2>1 DEF HolderOK
  <2>2. CASE cpu[x].token # NoCall
    <3>1. HolderOK(pl, x) /\ x # c /\ pl2[x] = pl[x] /\ pl2[bspIndex'] = q
      BY <1>3, <1>5, <2>2 DEF Tokens
    <3>2. ~Unscheduled(pl[c], x)
      BY <1>3, <2>2, <3>1 DEF HolderOK
    <3>3. ~Unscheduled(q, x)
      BY <1>3, <3>2
    <3>4. QED
      BY <1>4, <3>1, <3>3 DEF HolderOK
  <2>3. QED
    BY <2>1, <2>2
<1>8. ASSUME NEW x \in CPUs, pl2[x].s = "token" PROVE cpu'[x].token # NoCall
  <2>1. x # c
    BY <1>3, <1>5, <1>8 DEF HoldStages
  <2>2. QED
    BY <1>4, <1>5, <1>8, <2>1 DEF Tokens
<1>9. ASSUME NEW k \in 1 .. MaxCalls PROVE CountOK(pl2, k)'
  <2>1. Holders(k)' = Holders(k) /\ calls.running[k] \in Int /\ N \in Int
    BY <1>3, <1>4, SmmAssumption DEF Holders, CallData
  <2>2. Cardinality(Holders(k)) \in Int
    BY HoldersFinite
  <2>3. /\ calls.running[k] = Cardinality(Holders(k)) + (IF k = t THEN Pending(pl[c]) ELSE 0)
        /\ calls.running[k] <= N /\ \A x \in CPUs : x # c => Pending(pl[x]) = 0
    BY <1>2, <1>3, CountedByBsp
  <2>4. calls'.running[k] <= N /\ calls'.running[k] =
          Cardinality(Holders(k)) + (IF k = t THEN Pending(q) ELSE 0)
    BY <1>3, <1>4, <2>1, <2>2, <2>3
  <2>5. \A x \in CPUs : x # c => Pending(pl2[x]) = 0
    BY <1>5, <2>3
  <2>6. QED
    BY <1>2, <1>4, <1>5, <2>1, <2>4, <2>5 DEF CountOK
<1>10. Tokens(pl2)'
  <2>1. (calls.owed \subseteq (1 .. MaxCalls) \X CPUs)'
    BY <1>4 DEF Tokens
  <2>2. QED
    BY <1>6, <1>7, <1>8, <1>9, <2>1 DEF Tokens
<1>11. ASSUME Owed(pl) PROVE Owed(pl2)'
  <2>1. ASSUME NEW k \in 1 .. MaxCalls, NEW x \in CPUs, <<k, x>> \in calls'.owed
        PROVE  cpu'[x].busy /\ x # c /\ ~Unscheduled(q, x)
    <3>1. OweOK(pl, k, x) /\ cpu[x].busy /\ x # c
      BY <1>3, <1>4, <1>11, <2>1, OwedIs
    <3>2. ~Unscheduled(pl[c], x)
      BY <1>3, <3>1 DEF OweOK
    <3>3. QED
      BY <1>3, <1>4, <3>1, <3>2
  <2>2. QED
    BY <1>1, <1>3, <1>4, <1>11, <2>1, OwedFrame
<1>12. QED
  BY <1>1, <1>10, <1>11 DEF KeepsCalls

\* The AP that is given the procedure is idle, with its Busy held for this call.
LEMMA GivenAp ==
  ASSUME NEW pl, Meeting(pl), NEW c \in CPUs, Schedule(c), NEW i, i = pl[c].i,
         pl[c].s = "schedule" \/ IsPresentAp(c, i)
  PROVE  i \in CPUs /\ i # c /\ pl[i].s = "idle" /\ cpu[i].busy
<1>1. /\ pl[c].s \in {"schedule", "schedule_present"} /\ i \in CPUs
      /\ pl[c].s \in ServiceStages \ {"wrap"} /\ (pl[c].s = "schedule" => pl[c].s \in OneStages)
  <2>1. pl[c].s \in {"schedule", "schedule_present"} /\ i \in CPUs
    BY ScheduleDoes
  <2>2. QED
    BY <2>1 DEF ServiceStages, OneStages, AllStages
<1>2. i # c /\ pl[i].s \in LoopStages
  BY <1>1, ServedAp
<1>3. LoopOK(pl, pl[c], i) /\ Left(pl[c], i) = LoopK(config) /\ LoopK(config) \in Int
  BY <1>1, <1>2, ServedAp
<1>4. Loading(pl[c], i)
  BY <1>1 DEF Loading
<1>5. QED
  BY <1>1, <1>2, <1>3, <1>4 DEF LoopOK

\* An AP is given its procedure.
LEMMA GivenCalls ==
  ASSUME NEW pl, Meeting(pl), Tokens(pl), NEW c \in CPUs, Schedule(c),
         pl[c].s = "schedule" \/ IsPresentAp(c, pl[c].i)
  PROVE  KeepsCalls(pl)
<1>1. PICK q, pl2 : q \in Place /\ q = Succ(config, pl[c]) /\ Moves(pl, c, q, pl2) /\ Meeting(pl2)'
  BY ScheduleKeeps DEF Keeps
<1>2. PICK i, t : i = pl[c].i /\ t = calls.token
  OBVIOUS
<1>3. /\ i \in CPUs /\ IsAtBsp(pl[c]) /\ bspIndex = c /\ bspIndex' = bspIndex /\ cpu[c].token = NoCall
      /\ calls.made \in 1 .. MaxCalls /\ t \in {NoCall, calls.made} /\ calls \in CallData
      /\ calls.proc = calls.made \/ (calls.proc = WRAPPER /\ calls.wrapper[i] = calls.made)
      /\ (calls'.made = calls.made /\ calls'.token = calls.token /\ calls'.proc = calls.proc => ServedOK(q)')
      /\ q.s \notin HoldStages /\ q.s # "wrap"
      /\ \A x \in CPUs : Unscheduled(q, x) => Unscheduled(pl[c], x) /\ x # i
      /\ cpu[i].token = NoCall
         /\ (Owed(pl) => \A k : <<k, i>> \notin calls.owed /\ <<k, c>> \notin calls.owed)
      /\ Pending(q) \in Nat /\ Pending(pl[c]) = Pending(q) + 1
      /\ \A x \in CPUs : Blocks(pl[c], x) => Blocks(q, x)
      /\ t = NoCall => Blocks(q, i)
  <2>1. ScheduleView(pl, c, q, i)
    BY <1>1, <1>2, ScheduleMoves
  <2>2. QED
    BY <1>2, <2>1 DEF ScheduleView
<1>4. i # c /\ pl[i].s = "idle" /\ cpu[i].busy
  BY <1>2, GivenAp
<1>5. /\ calls'.made = calls.made /\ calls'.proc = calls.proc /\ calls'.token = calls.token
      /\ calls'.running = calls.running /\ calls'.wrapper = calls.wrapper
      /\ calls'.owed = calls.owed \cup {<<calls.made, i>>}
  <2>1. calls' = [calls EXCEPT !.owed = @ \cup {<<calls.made, i>>}]
    BY <1>2, ScheduleDoes, ZenonT(60)
  <2>2. QED
    BY <1>3, <2>1, OweIs
<1>6. /\ \A x \in CPUs : x # i => cpu'[x] = cpu[x]
      /\ cpu'[i].busy = cpu[i].busy /\ cpu'[i].proc = calls.proc /\ cpu'[i].token = t
  <2>1. cpu' = [cpu EXCEPT ![i].proc = calls.proc,
                           ![i].token = IF calls.token = NoCall THEN @ ELSE calls.token]
    BY <1>2, ScheduleDoes
  <2>2. /\ Others(i) /\ cpu'[i].busy = cpu[i].busy /\ cpu'[i].proc = calls.proc
        /\ cpu'[i].token = IF calls.token = NoCall THEN cpu[i].token ELSE calls.token
    BY <1>3, <2>1, MeetingParts, ScheduleIs
  <2>3. QED
    BY <1>2, <1>3, <2>2 DEF Others
<1>7. /\ pl2[c] = q /\ (\A x \in CPUs : x # c => pl2[x] = pl[x])
      /\ \A b \in CPUs : IsAtBsp(pl2[b]) => b = c
  BY <1>1, <1>3, MeetingParts DEF Moves, IndexInv
<1>8. \A b \in CPUs : ServedOK(pl2[b])'
  BY <1>1, <1>3, <1>5, ServedElsewhere
<1>9. ASSUME NEW x \in CPUs PROVE HolderOK(pl2, x)'
  <2>1. CASE x # i /\ cpu[x].token = NoCall
    BY <1>6, <2>1 DEF HolderOK
  <2>2. CASE x # i /\ cpu[x].token # NoCall
    <3>1. HolderOK(pl, x) /\ x # c /\ pl2[x] = pl[x] /\ pl2[bspIndex'] = q
      BY <1>3, <1>7, <2>2 DEF Tokens
    <3>2. ~Unscheduled(pl[c], x)
      BY <1>3, <2>2, <3>1 DEF HolderOK
    <3>3. ~Unscheduled(q, x)
      BY <1>3, <3>2
    <3>4. QED
      BY <1>5, <1>6, <2>2, <3>1, <3>3 DEF HolderOK
  <2>3. CASE x = i
    <3>1. pl2[x].s \in HoldStages /\ cpu'[x].busy /\ pl2[bspIndex'] = q
      BY <1>3, <1>4, <1>6, <1>7, <2>3 DEF HoldStages
    <3>2. ~Unscheduled(q, x)
      BY <1>3, <2>3
    <3>3. t # NoCall => cpu'[x].token <= calls'.made
      BY <1>3, <1>5, <1>6, <2>3
    <3>4. QED
      BY <1>6, <2>3, <3>1, <3>2, <3>3 DEF HolderOK
  <2>4. QED
    BY <2>1, <2>2, <2>3
<1>10. ASSUME NEW x \in CPUs, pl2[x].s = "token" PROVE cpu'[x].token # NoCall
  <2>1. x # c /\ x # i
    BY <1>3, <1>4, <1>7, <1>10 DEF HoldStages
  <2>2. QED
    BY <1>6, <1>7, <1>10, <2>1 DEF Tokens
<1>11. ASSUME NEW k \in 1 .. MaxCalls PROVE CountOK(pl2, k)'
  <2>1. calls'.running[k] = calls.running[k] /\ k # NoCall
    BY <1>5 DEF NoCall
  <2>2. IsFiniteSet(Holders(k)) /\ Cardinality(Holders(k)) \in Int
    BY HoldersFinite
  <2>3. /\ calls.running[k] = Cardinality(Holders(k)) + (IF k = t THEN Pending(pl[c]) ELSE 0)
        /\ calls.running[k] <= N /\ \A x \in CPUs : x # c => Pending(pl[x]) = 0
    BY <1>2, <1>3, CountedByBsp
  <2>4. calls'.running[k] = Cardinality(Holders(k)') + (IF k = t THEN Pending(q) ELSE 0)
    <3>1. CASE k # t
      <4>1. Holders(k)' = Holders(k)
        BY <1>3, <1>6, <2>1, <3>1 DEF Holders
      <4>2. QED
        BY <2>1, <2>3, <3>1, <4>1
    <3>2. CASE k = t
      <4>1. Holders(k)' = Holders(k) \cup {i} /\ i \notin Holders(k)
        BY <1>3, <1>6, <2>1, <3>2 DEF Holders
      <4>2. Cardinality(Holders(k)') = Cardinality(Holders(k)) + 1
        BY <2>2, <4>1, FS_AddElement
      <4>3. QED
        BY <1>3, <2>1, <2>2, <2>3, <3>2, <4>2
    <3>3. QED
      BY <3>1, <3>2
  <2>5. \A x \in CPUs : x # c => Pending(pl2[x]) = 0
    BY <1>7, <2>3
  <2>6. QED
    BY <1>2, <1>5, <1>7, <2>1, <2>3, <2>4, <2>5 DEF CountOK
<1>12. Tokens(pl2)'
  <2>1. (calls.owed \subseteq (1 .. MaxCalls) \X CPUs)'
    BY <1>3, <1>5 DEF Tokens
  <2>2. QED
    BY <1>8, <1>9, <1>10, <1>11, <2>1 DEF Tokens
<1>13. ASSUME Owed(pl) PROVE Owed(pl2)'
  <2>1. ASSUME NEW k \in 1 .. MaxCalls, NEW x \in CPUs,
        <<k, x>> \in calls'.owed PROVE OweOK(pl2, k, x)'
    <3>1. CASE x # i
      <4>1. OweOK(pl, k, x) /\ x # c
        BY <1>3, <1>5, <1>13, <2>1, <3>1, OwedIs
      <4>2. /\ pl2[x] = pl[x] /\ pl2[bspIndex'] = q /\ cpu'[x] = cpu[x] /\ Callee(x)' = Callee(x)
            /\ ~Unscheduled(pl[c], x)
        BY <1>3, <1>5, <1>6, <1>7, <3>1, <4>1 DEF Callee, OweOK
      <4>3. ~Unscheduled(q, x) /\ (Blocks(pl[c], x) => Blocks(q, x))
        BY <1>3, <4>2
      <4>4. QED
        BY <1>3, <1>5, <4>1, <4>2, <4>3 DEF OweOK
    <3>2. CASE x = i
      <4>1. k = calls.made
        BY <1>3, <1>5, <1>13, <2>1, <3>2
      <4>2. pl2[x].s \in OweStages /\ pl2[bspIndex'] = q /\ cpu'[x].busy /\ cpu'[x].token = t
        BY <1>3, <1>4, <1>6, <1>7, <3>2 DEF OweStages
      <4>3. Callee(x)' = k
        <5>1. cpu'[x].proc = calls.proc /\ calls'.wrapper = calls.wrapper /\ k # WRAPPER
          BY <1>3, <1>5, <1>6, <3>2, <4>1 DEF WRAPPER
        <5>2. QED
          BY <1>3, <3>2, <4>1, <5>1 DEF Callee
      <4>4. ~Unscheduled(q, x) /\ (cpu'[x].token # k => Blocks(q, x))
        BY <1>3, <3>2, <4>1, <4>2
      <4>5. QED
        BY <1>3, <1>5, <4>1, <4>2, <4>3, <4>4 DEF OweOK
    <3>3. QED
      BY <3>1, <3>2
  <2>2. \A b \in CPUs : pl2[b].s # "wrap"
    <3>1. \A b \in CPUs : b # c => pl[b].s # "wrap"
      BY <1>3, MeetingParts DEF IndexInv, IsAtBsp, BspStages
    <3>2. QED
      BY <1>3, <1>7, <3>1
  <2>3. QED
    BY <2>1, <2>2 DEF Owed
<1>14. QED
  BY <1>1, <1>12, <1>13 DEF KeepsCalls

\* Both cases of Schedule.
LEMMA ScheduleCalls ==
  ASSUME NEW pl, Meeting(pl), Tokens(pl), NEW c \in CPUs, Schedule(c)
  PROVE  KeepsCalls(pl)
BY GivenCalls, SkippedCalls

\* Every step of a service.
LEMMA HandlerCalls ==
  ASSUME Timely, Supported, NEW pl, Meeting(pl), Tokens(pl), NEW c \in CPUs, HandlerStep(c)
  PROVE  KeepsCalls(pl)
<1>1. CASE EndHandlers(c)
  BY <1>1, QuietBspCalls DEF QuietBspStep
<1>2. CASE Wrap(c) \/ AcquireBusy(c) \/ Schedule(c) \/ ReleaseRun(c)
  BY <1>2, WrapCalls, AcquireCalls, ScheduleCalls, ServeCalls
<1>3. ASSUME NEW i \in CPUs, SmmStartupThisAp(c, i) PROVE KeepsCalls(pl)
  BY <1>3, StartupCalls
<1>4. ASSUME NEW blocking \in BOOLEAN, BroadcastProcedure(c, blocking) PROVE KeepsCalls(pl)
  <2>1. "BroadcastProcedure" \in config.services
    BY <1>4 DEF BroadcastProcedure, NewCall
  <2>2. Gathers(config)
    BY <2>1, MeetingParts DEF Supported, Gathers
  <2>3. QED
    BY <1>4, <2>2, BroadcastCalls
<1>5. ASSUME NEW blocking \in BOOLEAN, NEW i \in CPUs,
      DispatchProcedure(c, i, blocking) PROVE KeepsCalls(pl)
  BY <1>5, DispatchCalls
<1>6. QED
  BY <1>1, <1>2, <1>3, <1>4, <1>5 DEF HandlerStep

\* Every step of BSPHandler outside the services.
LEMMA BspCalls ==
  ASSUME Timely, NEW pl, Meeting(pl), Tokens(pl), NEW c \in CPUs, BspStep(c)
  PROVE  KeepsCalls(pl)
<1>1. CASE QuietBspStep(c)
  BY <1>1, QuietBspCalls
<1>2. CASE ReleaseAp(c)
  <2>1. pl[c].s \in {"release", "bcast"}
    BY <1>2, StageOf DEF ReleaseAp
  <2>2. QED
    BY <1>2, <2>1, RoundCalls, ServeCalls
<1>3. CASE WaitNotBusy(c)
  <2>1. pl[c].s = "not_busy" \/ pl[c].s \in ServiceStages
    BY <1>3, StageOf DEF WaitNotBusy, ServiceStages, OneStages, AllStages
  <2>2. QED
    BY <1>3, <2>1, RoundCalls, ServeCalls
<1>4. CASE ClearPresent(c)
  BY <1>4, RoundCalls
<1>5. CASE ResetBsp(c)
  BY <1>5, ResetBspCalls
<1>6. QED
  BY <1>1, <1>2, <1>3, <1>4, <1>5 DEF BspStep, QuietBspStep

\* Every step of APHandler.
LEMMA ApCalls ==
  ASSUME NEW pl, Meeting(pl), Tokens(pl), NEW c \in CPUs, ApStep(c)
  PROVE  KeepsCalls(pl)
BY QuietApCalls, HandshakeCalls, LoopCalls, RunProcedureCalls, ReleaseTokenCalls DEF ApStep,
   QuietApStep

\* A step that leaves calls and CpuData alone, and every processor where it is.
LEMMA StandingCalls ==
  ASSUME NEW pl, Tokens(pl), Meeting(pl)', calls' = calls, cpu' = cpu, bspIndex' = bspIndex
  PROVE  KeepsCalls(pl)
<1>1. Tokens(pl)'
  BY DEF Tokens, ServedOK, HolderOK, CountOK, Holders
<1>2. Owed(pl) => Owed(pl)'
  BY DEF Owed, OweOK, Callee
<1>3. QED
  BY <1>1, <1>2 DEF KeepsCalls

\* The places of the processors, with what is known of tokens and of owed procedures.
Serves == \E pl : Meeting(pl) /\ Tokens(pl) /\ (OneStartup => Owed(pl))

\* Nothing has been called at the start.
LEMMA InitServes == ASSUME Init PROVE Serves
<1>1. PICK pl : Meeting(pl) /\ \A c \in CPUs : pl[c].s = "out"
  BY InitMeeting
<1>2. \A c \in CPUs : pl[c].s \notin ServiceStages /\ cpu[c].token = NoCall /\ pl[c].s # "token"
  BY <1>1 DEF Init, Data0, ServiceStages, OneStages, AllStages
<1>3. pl \in [CPUs -> Place] /\ calls = Calls0
  BY <1>1, MeetingParts DEF Init
<1>4. QED
  BY <1>1, <1>2, <1>3, NoCalls DEF Serves

\* The invariant of the calls is inductive.
LEMMA NextServes ==
  ASSUME Timely, Supported, Serves, [Next]_vars
  PROVE  Serves'
<1>1. PICK pl : Meeting(pl) /\ Tokens(pl) /\ (OneStartup => Owed(pl))
  BY DEF Serves
<1>2. SUFFICES KeepsCalls(pl)
  BY <1>1 DEF KeepsCalls, Serves, OneStartup
<1>3. CASE Raise
  BY <1>1, <1>3, RaiseKeeps, StandingCalls DEF Raise
<1>4. CASE UNCHANGED vars
  BY <1>1, <1>4, StutterKeeps, StandingCalls DEF vars
<1>5. ASSUME NEW c \in CPUs, Enter(c) \/ CpuStep(c) PROVE KeepsCalls(pl)
  <2>1. CASE Enter(c) \/ RendezvousStep(c)
    BY <1>1, <2>1, RendezvousCalls
  <2>2. CASE BspStep(c)
    BY <1>1, <2>2, BspCalls
  <2>3. CASE HandlerStep(c)
    BY <1>1, <2>3, HandlerCalls
  <2>4. CASE ApStep(c)
    BY <1>1, <2>4, ApCalls
  <2>5. QED
    BY <1>5, <2>1, <2>2, <2>3, <2>4 DEF CpuStep
<1>6. QED
  BY <1>3, <1>4, <1>5 DEF Next

\* The invariant of the whole rendezvous.
THEOREM SmmServes ==
  ASSUME Timely, Supported
  PROVE  Spec => []Serves
<1>1. Init => Serves
  BY InitServes
<1>2. Serves /\ [Next]_vars => Serves'
  BY NextServes
<1>3. QED
  BY <1>1, <1>2, PTL DEF Spec

-----------------------------------------------------------------------------
(***************************************************************************)
(* What the invariant says of procedures, tokens and types.                *)
(***************************************************************************)
\* The count of a token never leaves its range.
LEMMA CountRange ==
  ASSUME NEW pl, Meeting(pl), Tokens(pl), NEW k \in 1 .. MaxCalls
  PROVE  calls.running[k] \in 0 .. N
<1>1. PICK b \in CPUs :
        calls.running[k] = Cardinality(Holders(k)) + (IF k = calls.token THEN Pending(pl[b]) ELSE 0)
  BY DEF Tokens, CountOK
<1>2. Pending(pl[b]) \in Nat /\ Cardinality(Holders(k)) \in Nat
  BY MeetingParts, PendingIs, HoldersFinite
<1>3. calls.running[k] <= N /\ N \in Nat
  BY SmmAssumption DEF Tokens, CountOK
<1>4. QED
  BY <1>1, <1>2, <1>3

\* Where the BSP is in no service, a token is released exactly when no AP holds it.
LEMMA HeldCounted ==
  ASSUME NEW pl, Meeting(pl), Tokens(pl), NEW k \in 1 .. MaxCalls, NEW b \in CPUs,
         IsAtBsp(pl[b]), Pending(pl[b]) = 0
  PROVE  calls.running[k] = 0 <=> \A x \in CPUs : cpu[x].token # k
<1>1. IsFiniteSet(Holders(k)) /\ Cardinality(Holders(k)) \in Nat
  BY HoldersFinite
<1>2. calls.running[k] = Cardinality(Holders(k))
  BY <1>1, CountedByBsp
<1>3. Cardinality(Holders(k)) = 0 <=> Holders(k) = {}
  BY <1>1, FS_EmptySet
<1>4. Holders(k) = {} <=> \A x \in CPUs : cpu[x].token # k
  BY DEF Holders
<1>5. QED
  BY <1>2, <1>3, <1>4

\* Once the BSP has seen every AP not busy, no procedure is owed.
LEMMA ServesNothingOwed ==
  ASSUME NEW pl, Meeting(pl), Tokens(pl), Owed(pl)
  PROVE  NothingOwed
<1>1. ASSUME NEW b \in CPUs, At(b, "outside") PROVE calls.owed = {}
  <2>1. pl[b].s = "outside" /\ pl[b] \in Place /\ Valid(config, pl[b]) /\ config \in Configs
    BY <1>1, StageOf
  <2>2. IsAtBsp(pl[b]) /\ pl[b].k = LoopK(config) /\ pl[b].s # "reset_counter" /\ pl[b].s # "release"
    BY <2>1 DEF IsAtBsp, BspStages, Valid
  <2>3. bspIndex = b
    BY <2>2, BspFacts
  <2>4. ASSUME NEW e \in calls.owed PROVE FALSE
    <3>1. PICK k, x : e = <<k, x>> /\ x \in CPUs
      BY <2>4 DEF Tokens
    <3>2. pl[x].s \in LoopStages /\ cpu[x].busy
      BY <2>4, <3>1, OwedIs
    <3>3. LoopOK(pl, pl[b], x)
      BY <2>3, <3>1, <3>2, MeetingParts DEF RunInv, RunOK
    <3>4. Left(pl[b], x) = LoopK(config) /\ LoopK(config) \in Int
      BY <2>1, <2>2, Numbers DEF Left
    <3>5. Quiet(config, pl[b], x)
      BY <2>1, <2>2 DEF Quiet
    <3>6. QED
      BY <3>2, <3>3, <3>4, <3>5 DEF LoopOK
  <2>5. QED
    BY <2>4
<1>2. QED
  BY <1>1 DEF NothingOwed

\* An AP that owes a procedure holds the token of the call, and the token counts its holders.
LEMMA ServesTokenTellsDone ==
  ASSUME NEW pl, Meeting(pl), Tokens(pl), Owed(pl)
  PROVE  TokenTellsDone
<1>1. ASSUME NEW b \in CPUs, At(b, "handlers") \/ At(b, "outside"), NEW k \in 1 .. calls.made
      PROVE  calls.running[k] = 0 <=>
               /\ \A i \in CPUs : <<k, i>> \notin calls.owed
               /\ \A i \in CPUs : cpu[i].token # k
  <2>1. pl[b].s \in {"handlers", "outside"} /\ pl[b] \in Place
    BY <1>1, StageOf
  <2>2. bspIndex = b /\ IsAtBsp(pl[b]) /\ Pending(pl[b]) = 0
    <3>1. IsAtBsp(pl[b]) /\ pl[b].s # "reset_counter"
      BY <2>1 DEF IsAtBsp, BspStages
    <3>2. QED
      BY <2>1, <3>1, BspFacts DEF Pending
  <2>3. k \in 1 .. MaxCalls
    <3>1. calls.made \in 0 .. MaxCalls
      BY MeetingParts DEF Types, CallData
    <3>2. QED
      BY <3>1, SmmAssumption
  <2>4. calls.running[k] = 0 <=> \A i \in CPUs : cpu[i].token # k
    BY <2>2, <2>3, HeldCounted
  <2>5. ASSUME NEW i \in CPUs, <<k, i>> \in calls.owed PROVE cpu[i].token = k
    <3>1. OweOK(pl, k, i)
      BY <2>3, <2>5 DEF Owed
    <3>2. ~Blocks(pl[bspIndex], i)
      BY <2>1, <2>2 DEF Blocks
    <3>3. QED
      BY <3>1, <3>2 DEF OweOK
  <2>6. QED
    BY <2>4, <2>5
<1>2. QED
  BY <1>1 DEF TokenTellsDone

\* No semaphore Run is ever released more often than there are processors.
LEMMA RunBounded ==
  ASSUME NEW pl, Meeting(pl), NEW c \in CPUs
  PROVE  cpu[c].run \in 0 .. N
<1>1. /\ cpu[c].run \in Nat /\ N \in Nat /\ N >= 1 /\ pl[c] \in Place /\ RunOK(pl, c)
      /\ local[c].apCount \in -1 .. N
  BY MeetingParts, SmmAssumption DEF Types, CpuData, LocalData, RunInv
<1>2. CASE IsOut(pl[c]) \/ IsPre(pl[c])
  BY <1>1, <1>2 DEF RunOK
<1>3. CASE IsAp(pl[c]) /\ pl[c].s \notin LoopStages
  BY <1>1, <1>3 DEF RunOK
<1>4. CASE pl[c].s \in LoopStages
  <2>1. LoopOK(pl, pl[bspIndex], c)
    BY <1>1, <1>4 DEF RunOK
  <2>2. cpu[c].run \in {0, 1}
    BY <2>1 DEF LoopOK
  <2>3. QED
    BY <1>1, <2>2
<1>5. CASE IsAtBsp(pl[c])
  <2>1. Cardinality(Aps(pl)) \in 0 .. N
    BY CountedFinite
  <2>2. CASE pl[c].k = 0
    BY <1>1, <1>5, <2>2, MeetingParts DEF GatherInv
  <2>3. CASE pl[c].k # 0 /\ Final(pl[c])
    <3>1. local[c].apCount = Cardinality(Aps(pl)) + cpu[c].run
      BY <1>5, <2>3, MeetingParts DEF GatherInv
    <3>2. QED
      BY <1>1, <2>1, <3>1
  <2>4. CASE pl[c].k # 0 /\ ~Final(pl[c])
    <3>1. PICK q : q = pl[c]
      OBVIOUS
    <3>2. cpu[c].run = Cardinality(Signalled(pl, q))
      BY <1>5, <2>4, <3>1, MeetingParts DEF GatherInv
    <3>3. Signalled(pl, q) \subseteq CPUs /\ IsFiniteSet(CPUs) /\ Cardinality(CPUs) = N
      BY CountedFinite DEF Signalled
    <3>4. Cardinality(Signalled(pl, q)) <= N
      BY <3>3, FS_Subset
    <3>5. QED
      BY <1>1, <3>2, <3>4
  <2>5. QED
    BY <2>2, <2>3, <2>4
<1>6. QED
  BY <1>1, <1>2, <1>3, <1>4, <1>5, Kinds

\* The invariant bounds every variable as SmmTypeOK says.
LEMMA ServesTypeOK ==
  ASSUME NEW pl, Meeting(pl), Tokens(pl)
  PROVE  SmmTypeOK
<1>1. Types /\ Placed(pl) /\ N \in Nat
  BY MeetingParts, SmmAssumption
<1>2. counter \in LOCKED - N .. N
  <2>1. counter = LOCKED \/ counter = Cardinality(Counted(pl))
    BY MeetingParts DEF CounterInv
  <2>2. Cardinality(Counted(pl)) \in 0 .. N
    BY CountedFinite
  <2>3. QED
    BY <1>1, <2>1, <2>2 DEF LOCKED
<1>3. cpu \in [CPUs -> [run : 0 .. N, present : BOOLEAN, busy : BOOLEAN,
                       proc : {WRAPPER, NoCall} \cup 1 .. MaxCalls, token : 0 .. MaxCalls]]
  <2>1. PICK f : f = cpu
    OBVIOUS
  <2>2. f \in CpuData /\ \A c \in CPUs : f[c].run \in 0 .. N
    BY <1>1, <2>1, RunBounded DEF Types
  <2>3. \A v \in {WRAPPER} \cup 0 .. MaxCalls : v \in {WRAPPER, NoCall} \cup 1 .. MaxCalls
    BY SmmAssumption DEF NoCall
  <2>4. ASSUME NEW c \in CPUs
        PROVE  f[c] \in [run : 0 .. N, present : BOOLEAN, busy : BOOLEAN,
                       proc : {WRAPPER, NoCall} \cup 1 .. MaxCalls, token : 0 .. MaxCalls]
    <3>1. PICK r : r = f[c]
      OBVIOUS
    <3>2. r \in [run : Nat, present : BOOLEAN, busy : BOOLEAN,
                 proc : {WRAPPER} \cup 0 .. MaxCalls, token : 0 .. MaxCalls]
      BY <2>2, <3>1 DEF CpuData
    <3>3. r.run \in 0 .. N /\ r.proc \in {WRAPPER, NoCall} \cup 1 .. MaxCalls
      BY <2>2, <2>3, <3>1, <3>2
    <3>4. QED
      BY <3>1, <3>2, <3>3
  <2>5. f \in [CPUs -> [run : 0 .. N, present : BOOLEAN, busy : BOOLEAN,
                       proc : {WRAPPER, NoCall} \cup 1 .. MaxCalls, token : 0 .. MaxCalls]]
    BY <2>2, <2>4 DEF CpuData
  <2>6. QED
    BY <2>1, <2>5
<1>4. \A c \in CPUs : \A j \in DOMAIN prog[c] : prog[c][j] \in (BspOps \cup ApOps) \X (0 .. N)
  <2>1. ASSUME NEW c \in CPUs, NEW j \in DOMAIN prog[c] PROVE prog[c][j] \in Items
    <3>1. prog[c] \in Seq(Items)
      BY <1>1, CodeSeq DEF Placed, Types
    <3>2. QED
      BY <2>1, <3>1
  <2>2. QED
    BY <2>1 DEF Items
<1>5. calls.owed \subseteq (1 .. MaxCalls) \X CPUs
  BY DEF Tokens
<1>6. calls.running \in [1 .. MaxCalls -> 0 .. N]
  <2>1. calls.running \in [1 .. MaxCalls -> Int]
    BY <1>1 DEF Types, CallData
  <2>2. \A k \in 1 .. MaxCalls : calls.running[k] \in 0 .. N
    BY CountRange
  <2>3. QED
    BY <2>1, <2>2
<1>7. QED
  BY <1>1, <1>2, <1>3, <1>4, <1>5, <1>6 DEF SmmTypeOK, Types, LocalData, PlatformData

\* Types and ranges.
THEOREM SmmTypes ==
  ASSUME Timely, Supported
  PROVE  Spec => []SmmTypeOK
<1>1. Serves => SmmTypeOK
  BY ServesTypeOK DEF Serves
<1>2. QED
  BY <1>1, SmmServes, PTL

\* Every scheduled procedure has run when the BSP ends the SMI.
THEOREM SmmNothingOwed ==
  ASSUME Timely, Supported, OneStartup
  PROVE  Spec => []NothingOwed
<1>1. Serves => NothingOwed
  BY ServesNothingOwed DEF Serves
<1>2. QED
  BY <1>1, SmmServes, PTL

\* A token is released exactly when the procedures of its call have returned.
THEOREM SmmTokenTellsDone ==
  ASSUME Timely, Supported, OneStartup
  PROVE  Spec => []TokenTellsDone
<1>1. Serves => TokenTellsDone
  BY ServesTokenTellsDone DEF Serves
<1>2. QED
  BY <1>1, SmmServes, PTL
=============================================================================
