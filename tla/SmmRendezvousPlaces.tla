---------------------- MODULE SmmRendezvousPlaces ----------------------
(***************************************************************************)
(* The control of SmmRendezvous, for the proofs of SmmRendezvousProofs.    *)
(*                                                                         *)
(* The control state of a processor is a program, the list of the steps it *)
(* has left.  The first part of this module gives every such program a     *)
(* place: its stage, an index, and the number of handshakes (the AP        *)
(* signals, or the BSP releases it) that are left.  The second part states *)
(* the invariant, which is about the places: what a semaphore holds        *)
(* follows from how many handshakes a BSP and an AP are apart.  The third  *)
(* part shows to which places the steps lead, and that the steps of        *)
(* processors outside the rendezvous keep the invariant.                   *)
(***************************************************************************)
EXTENDS SmmRendezvous, FiniteSetTheorems, SequenceTheorems, TLAPS

(***************************************************************************)
(* Places.                                                                 *)
(***************************************************************************)
OutStages     == {"out", "valid_smi", "in_progress", "check_in", "late", "leave", "reset_sync"}
PreStages     == {"elect", "await", "look", "ask_bsp", "give_up"}
LoopStages    == {"idle", "test_exit", "procedure", "token", "free"}
ApStages      == {"find_bsp", "ap_present", "signal", "wait", "ap_absent"} \cup LoopStages
OneStages     == {"acquire", "schedule", "release_run"}
AllStages     == {"acquire_present", "schedule_present", "bcast", "wait_all"}
BspStages     == {"inside", "present", "arrive", "send_ipi", "sync", "lockdown", "gather",
                  "release", "busy", "handlers", "not_busy", "all_present", "outside", "absent",
                  "reset_bsp", "reset_counter", "wrap", "wait_one"} \cup OneStages \cup AllStages

ServiceStages == {"wrap", "wait_one"} \cup OneStages \cup AllStages

\* s: the stage; k: handshakes left; i: the index of a loop; b: the service blocks.
Place == [s : OutStages \cup PreStages \cup ApStages \cup BspStages,
          k : 0 .. 11, i : 0 .. N, b : BOOLEAN]

P(s, k, i, b) == [s |-> s, k |-> k, i |-> i, b |-> b]

IsOut(p)  == p.s \in OutStages
IsPre(p)  == p.s \in PreStages
IsAp(p)   == p.s \in ApStages
IsAtBsp(p) == p.s \in BspStages

Gathers(g) == g.tradition \/ g.mtrrs
LoopK(g)   == IF g.mtrrs THEN 6 ELSE 4
TopK(g)    == IF g.mtrrs THEN 11 ELSE IF Gathers(g) THEN 5 ELSE 4

Odd  == {1, 3, 5, 7, 9, 11}
Even == {2, 4, 6, 8, 10}

\* Which handshakes, and which indices, belong to a stage.
Valid(g, p) ==
  /\ p.s \in OutStages \cup {"reset_bsp", "reset_counter"} => p.k = 0
  /\ p.s \in PreStages \cup {"find_bsp", "ap_present", "inside", "present", "arrive", "send_ipi",
                             "sync", "lockdown"} => p.k = TopK(g)
  /\ p.s \in {"signal", "gather"} => p.k \in Odd /\ p.k <= TopK(g)
  /\ p.s = "wait" => p.k \in Even /\ p.k # LoopK(g) /\ p.k <= TopK(g)
  /\ p.s = "release" => p.k \in Even /\ p.k <= TopK(g)
  /\ p.s \in {"ap_absent", "absent"} => p.k = 1
  /\ p.s \in {"busy", "handlers", "not_busy", "all_present", "outside"} => p.k = LoopK(g)
  /\ p.s \in LoopStages \cup ServiceStages => p.k = LoopK(g)
  /\ p.s \in {"arrive", "send_ipi"} \cup AllStages => Gathers(g)
  /\ p.s = "all_present" => ~Gathers(g)
  /\ p.s \in {"await", "look"} => p.i \in {1, 2}
  /\ p.s \in {"release", "not_busy"} \cup ServiceStages => p.i \in CPUs
  /\ p.s \notin {"await", "look", "release", "not_busy"} \cup ServiceStages => p.i = 0

\* The step of the program that a stage stands for.
Op(p) ==
  IF p.s \in {"wait_one", "wait_all"} THEN "not_busy" ELSE IF p.s = "bcast" THEN "release" ELSE p.s

-----------------------------------------------------------------------------
\* The turns of a loop over the processors that are left from processor i on.
From(op, i) == [j \in 1 .. N + 1 - i |-> <<op, i + j - 1>>]

\* BSPHandler from each of its places on, the last one first: a number is the handshakes left.
CLeave == Step("leave")
CEnd3  == Step("reset_sync") \o CLeave
CEnd2  == Step("reset_counter") \o CEnd3
CEnd1  == Step("reset_bsp") \o CEnd2
CG1    == Step("gather") \o CEnd1
CAbs   == Step("absent") \o CG1
CR2(i) == From("release", i) \o CAbs
CG3    == Step("gather") \o CR2(1)
CR4(i) == From("release", i) \o CG3
CG5    == Step("gather") \o CR4(1)
CR6(i) == From("release", i) \o CG5
COut(g)  == Step("outside") \o (IF g.mtrrs THEN CR6(1) ELSE CR4(1))
CAll(g)  == Step("all_present") \o COut(g)
CLockR(g) == Step("lockdown") \o CAll(g)
CSyncR(g) == Step("sync") \o CLockR(g)
CNot(g, i) == From("not_busy", i) \o (IF Gathers(g) THEN COut(g) ELSE CSyncR(g))
CHand(g) == Step("handlers") \o CNot(g, 1)
CBusy(g) == Step("busy") \o CHand(g)
CG7(g)   == Step("gather") \o CBusy(g)
CR8(g, i) == From("release", i) \o CG7(g)
CG9(g)   == Step("gather") \o CR8(g, 1)
CR10(g, i) == From("release", i) \o CG9(g)
CTop(g)  == Step("gather") \o (IF g.mtrrs THEN CR10(g, 1) ELSE CBusy(g))
CLockF(g) == Step("lockdown") \o CTop(g)
CSyncF(g) == Step("sync") \o CLockF(g)
CSend(g) == Step("send_ipi") \o CSyncF(g)
CArr(g)  == Step("arrive") \o CSend(g)
CPres(g) == Step("present") \o (IF Gathers(g) THEN CArr(g) ELSE CBusy(g))
CIns(g)  == Step("inside") \o CPres(g)

\* The services, from each of their places on.
One(op, i) == << <<op, i>> >>
CWait1(g, i) == One("not_busy", i) \o CHand(g)
CRun(g, i, b) == One("release_run", i) \o (IF b THEN CWait1(g, i) ELSE CHand(g))
CSch(g, i, b) == One("schedule", i) \o CRun(g, i, b)
CAcq(g, i, b) == One("acquire", i) \o CSch(g, i, b)
CWrap(g, i)  == One("wrap", i) \o CNot(g, 1)
CWaitA(g, i) == From("not_busy", i) \o CHand(g)
CBc(g, i, b) == From("release", i) \o (IF b THEN CWaitA(g, 1) ELSE CHand(g))
CSchA(g, i, b) == From("schedule_present", i) \o CBc(g, 1, b)
CAcqA(g, i, b) == From("acquire_present", i) \o CSchA(g, 1, b)

\* APHandler, from each of its places on.
AS1 == Step("signal") \o CLeave
AAbs == Step("ap_absent") \o AS1
AW2 == Step("wait") \o AAbs
AS3 == Step("signal") \o AW2
AW4 == Step("wait") \o AS3
AS5 == Step("signal") \o AW4
AIdle(s) == Step(s) \o CLeave
AS7 == Step("signal") \o AIdle("idle")
AW8 == Step("wait") \o AS7
AS9 == Step("signal") \o AW8
AW10 == Step("wait") \o AS9
AS11 == Step("signal") \o AW10
APre(g) == Step("ap_present") \o (IF g.mtrrs THEN AS11 ELSE IF Gathers(g) THEN AS7 ELSE AIdle("idle"))
AFind(g) == Step("find_bsp") \o APre(g)

OutCode(p) ==
  IF p.s = "out" THEN <<>>
  ELSE IF p.s = "valid_smi" THEN Step("valid_smi") \o Step("in_progress")
  ELSE IF p.s = "reset_sync" THEN CEnd3 ELSE Step(p.s)

ApCode(g, p) ==
  IF p.s = "find_bsp" THEN AFind(g)
  ELSE IF p.s = "ap_present" THEN APre(g)
  ELSE IF p.s = "ap_absent" THEN AAbs
  ELSE IF p.s = "signal"
  THEN (IF p.k = 1 THEN AS1 ELSE IF p.k = 3 THEN AS3 ELSE IF ~g.mtrrs THEN AS7
        ELSE IF p.k = 5 THEN AS5 ELSE IF p.k = 7 THEN AS7 ELSE IF p.k = 9 THEN AS9 ELSE AS11)
  ELSE IF p.s = "wait"
  THEN (IF p.k = 2 THEN AW2 ELSE IF p.k = 4 THEN AW4 ELSE IF p.k = 8 THEN AW8 ELSE AW10)
  ELSE IF p.s = "token" THEN Step("token") \o AIdle("free")
  ELSE One(p.s, p.i) \o CLeave

RoundCode(g, p) ==
  IF p.s = "gather"
  THEN (IF p.k = 1 THEN CG1 ELSE IF p.k = 3 THEN CG3 ELSE IF p.k = TopK(g) THEN CTop(g)
        ELSE IF p.k = 5 THEN CG5 ELSE IF p.k = 7 THEN CG7(g) ELSE CG9(g))
  ELSE (IF p.k = 2 THEN CR2(p.i) ELSE IF p.k = 4 THEN CR4(p.i) ELSE IF p.k = 6 THEN CR6(p.i)
        ELSE IF p.k = 8 THEN CR8(g, p.i) ELSE CR10(g, p.i))

ServiceCode(g, p) ==
  IF p.s = "wrap" THEN CWrap(g, p.i)
  ELSE IF p.s = "acquire" THEN CAcq(g, p.i, p.b)
  ELSE IF p.s = "schedule" THEN CSch(g, p.i, p.b)
  ELSE IF p.s = "release_run" THEN CRun(g, p.i, p.b)
  ELSE IF p.s = "wait_one" THEN CWait1(g, p.i)
  ELSE IF p.s = "acquire_present" THEN CAcqA(g, p.i, p.b)
  ELSE IF p.s = "schedule_present" THEN CSchA(g, p.i, p.b)
  ELSE IF p.s = "bcast" THEN CBc(g, p.i, p.b)
  ELSE CWaitA(g, p.i)

BspCode(g, p) ==
  IF p.s = "inside" THEN CIns(g)
  ELSE IF p.s = "present" THEN CPres(g)
  ELSE IF p.s = "arrive" THEN CArr(g)
  ELSE IF p.s = "send_ipi" THEN CSend(g)
  ELSE IF p.s = "sync" THEN (IF Gathers(g) THEN CSyncF(g) ELSE CSyncR(g))
  ELSE IF p.s = "lockdown" THEN (IF Gathers(g) THEN CLockF(g) ELSE CLockR(g))
  ELSE IF p.s = "busy" THEN CBusy(g)
  ELSE IF p.s = "handlers" THEN CHand(g)
  ELSE IF p.s = "not_busy" THEN CNot(g, p.i)
  ELSE IF p.s = "all_present" THEN CAll(g)
  ELSE IF p.s = "outside" THEN COut(g)
  ELSE IF p.s = "absent" THEN CAbs
  ELSE IF p.s = "reset_bsp" THEN CEnd1
  ELSE CEnd2

\* The program at a place.
Code(g, p) ==
  IF p.s \in OutStages THEN OutCode(p)
  ELSE IF p.s \in PreStages \cup ApStages THEN ApCode(g, p)
  ELSE IF p.s \in {"gather", "release"} THEN RoundCode(g, p)
  ELSE IF p.s \in ServiceStages THEN ServiceCode(g, p)
  ELSE BspCode(g, p)

-----------------------------------------------------------------------------
\* The place behind a step that just ends.
OutSucc(p) ==
  IF p.s = "valid_smi" THEN P("in_progress", 0, 0, FALSE)
  ELSE IF p.s = "reset_sync" THEN P("leave", 0, 0, FALSE)
  ELSE P("out", 0, 0, FALSE)

ApSucc(g, p) ==
  IF p.s = "find_bsp" THEN P("ap_present", TopK(g), 0, FALSE)
  ELSE IF p.s = "ap_present"
  THEN (IF Gathers(g) THEN P("signal", TopK(g), 0, FALSE) ELSE P("idle", LoopK(g), 0, FALSE))
  ELSE IF p.s = "signal" /\ p.k # 1
  THEN (IF p.k - 1 = LoopK(g) THEN P("idle", LoopK(g), 0, FALSE) ELSE P("wait", p.k - 1, 0, FALSE))
  ELSE IF p.s = "wait"
  THEN (IF p.k = 2 THEN P("ap_absent", 1, 0, FALSE) ELSE P("signal", p.k - 1, 0, FALSE))
  ELSE IF p.s = "ap_absent" THEN P("signal", 1, 0, FALSE)
  ELSE IF p.s = "token" THEN P("free", LoopK(g), 0, FALSE)
  ELSE P("leave", 0, 0, FALSE)

RoundSucc(g, p) ==
  IF p.s = "gather"
  THEN (IF p.k = 1 THEN P("reset_bsp", 0, 0, FALSE)
        ELSE IF p.k - 1 = LoopK(g) THEN P("busy", LoopK(g), 0, FALSE)
        ELSE P("release", p.k - 1, 1, FALSE))
  ELSE (IF p.i < N THEN P("release", p.k, p.i + 1, FALSE)
        ELSE IF p.k = 2 THEN P("absent", 1, 0, FALSE)
        ELSE P("gather", p.k - 1, 0, FALSE))

ServiceSucc(g, p) ==
  LET Here(s, i) == P(s, LoopK(g), i, p.b)
      Hand       == P("handlers", LoopK(g), 0, FALSE)
  IN  IF p.s = "wrap" THEN P("not_busy", LoopK(g), 1, FALSE)
      ELSE IF p.s = "acquire" THEN Here("schedule", p.i)
      ELSE IF p.s = "schedule" THEN Here("release_run", p.i)
      ELSE IF p.s = "release_run" THEN (IF p.b THEN Here("wait_one", p.i) ELSE Hand)
      ELSE IF p.s = "wait_one" THEN Hand
      ELSE IF p.i < N THEN Here(p.s, p.i + 1)
      ELSE IF p.s = "acquire_present" THEN Here("schedule_present", 1)
      ELSE IF p.s = "schedule_present" THEN Here("bcast", 1)
      ELSE IF p.s = "bcast" /\ p.b THEN Here("wait_all", 1)
      ELSE Hand

BspSucc(g, p) ==
  IF p.s = "inside" THEN P("present", TopK(g), 0, FALSE)
  ELSE IF p.s = "present"
  THEN (IF Gathers(g) THEN P("arrive", TopK(g), 0, FALSE) ELSE P("busy", LoopK(g), 0, FALSE))
  ELSE IF p.s = "arrive" THEN P("send_ipi", TopK(g), 0, FALSE)
  ELSE IF p.s = "send_ipi" THEN P("sync", TopK(g), 0, FALSE)
  ELSE IF p.s = "sync" THEN P("lockdown", TopK(g), 0, FALSE)
  ELSE IF p.s = "lockdown"
  THEN (IF Gathers(g) THEN P("gather", TopK(g), 0, FALSE) ELSE P("all_present", LoopK(g), 0, FALSE))
  ELSE IF p.s = "busy" THEN P("handlers", LoopK(g), 0, FALSE)
  ELSE IF p.s = "handlers" THEN P("not_busy", LoopK(g), 1, FALSE)
  ELSE IF p.s = "not_busy"
  THEN (IF p.i < N THEN P("not_busy", LoopK(g), p.i + 1, FALSE)
        ELSE IF Gathers(g) THEN P("outside", LoopK(g), 0, FALSE) ELSE P("sync", TopK(g), 0, FALSE))
  ELSE IF p.s = "all_present" THEN P("outside", LoopK(g), 0, FALSE)
  ELSE IF p.s = "outside" THEN P("release", LoopK(g), 1, FALSE)
  ELSE IF p.s = "absent" THEN P("gather", 1, 0, FALSE)
  ELSE IF p.s = "reset_bsp" THEN P("reset_counter", 0, 0, FALSE)
  ELSE P("reset_sync", 0, 0, FALSE)

Succ(g, p) ==
  IF p.s \in OutStages THEN OutSucc(p)
  ELSE IF p.s \in PreStages \cup ApStages THEN ApSucc(g, p)
  ELSE IF p.s \in {"gather", "release"} THEN RoundSucc(g, p)
  ELSE IF p.s \in ServiceStages THEN ServiceSucc(g, p)
  ELSE BspSucc(g, p)

-----------------------------------------------------------------------------
(***************************************************************************)
(* Programs and places.                                                    *)
(***************************************************************************)
\* The steps programs consist of.
Items == (BspOps \cup ApOps) \X (0 .. N)

\* Program s begins with step x and goes on with r.
Begins(s, x, r) == s \in Seq(Items) /\ s # <<>> /\ Head(s) = x /\ Tail(s) = r

\* A step in front of a program.
LEMMA OneBegins ==
  ASSUME NEW op \in BspOps \cup ApOps, NEW i \in 0 .. N, NEW r \in Seq(Items)
  PROVE  Begins(One(op, i) \o r, <<op, i>>, r)
<1> DEFINE x == <<op, i>>
           s == <<x>> \o r
<1>1. x \in Items
  BY DEF Items
<1> HIDE DEF x
<1>2. <<x>> \in Seq(Items) /\ Len(<<x>>) = 1 /\ <<x>>[1] = x
  BY <1>1
<1>3. /\ s \in Seq(Items) /\ Len(s) = 1 + Len(r)
      /\ \A j \in 1 .. 1 + Len(r) : s[j] = IF j <= 1 THEN x ELSE r[j - 1]
  <2>1. Len(r) \in Nat
    BY LenProperties
  <2>2. /\ s \in Seq(Items) /\ Len(s) = Len(<<x>>) + Len(r)
        /\ \A j \in 1 .. Len(<<x>>) + Len(r) : s[j] = IF j <= Len(<<x>>) THEN <<x>>[j] ELSE r[j - Len(<<x>>)]
    BY <1>2, ConcatProperties
  <2>3. QED
    BY <1>2, <2>1, <2>2
<1> HIDE DEF s
<1>4. Len(r) \in Nat /\ s # <<>>
  BY <1>3, LenProperties
<1>5. Head(s) = x
  BY <1>3, <1>4
<1>6. Tail(s) = r
  <2>1. /\ Tail(s) \in Seq(Items) /\ Len(Tail(s)) = Len(s) - 1
        /\ \A j \in 1 .. Len(Tail(s)) : Tail(s)[j] = s[j + 1]
    BY <1>3, <1>4, HeadTailProperties
  <2>2. Len(Tail(s)) = Len(r)
    BY <2>1, <1>3, <1>4
  <2>3. \A j \in 1 .. Len(r) : Tail(s)[j] = r[j]
    BY <2>1, <2>2, <1>3, <1>4
  <2>4. QED
    BY <2>1, <2>2, <2>3, SeqEqual
<1>7. QED
  BY <1>3, <1>4, <1>5, <1>6 DEF Begins, s, x, One

\* The same for the steps without an index.
LEMMA StepBegins ==
  ASSUME NEW op \in BspOps \cup ApOps, NEW r \in Seq(Items)
  PROVE  Begins(Step(op) \o r, <<op, 0>>, r)
<1>1. 0 \in 0 .. N /\ Step(op) = One(op, 0)
  BY SmmAssumption DEF Step, One
<1>2. QED
  BY <1>1, OneBegins

\* The turns of a loop over all processors.
LEMMA FromSeq ==
  ASSUME NEW op \in BspOps \cup ApOps, NEW i \in 1 .. N + 1
  PROVE  From(op, i) \in Seq(Items) /\ Len(From(op, i)) = N + 1 - i
<1>1. N + 1 - i \in Nat
  BY SmmAssumption
<1>2. \A j \in 1 .. N + 1 - i : <<op, i + j - 1>> \in Items
  BY SmmAssumption DEF Items
<1>3. QED
  BY <1>1, <1>2, IsASeq DEF From

\* A loop over the processors begins with the turn of processor i and goes on with the others.
LEMMA FromBegins ==
  ASSUME NEW op \in BspOps \cup ApOps, NEW i \in CPUs, NEW r \in Seq(Items)
  PROVE  Begins(From(op, i) \o r, <<op, i>>, IF i < N THEN From(op, i + 1) \o r ELSE r)
<1>0. N \in Nat /\ i \in 0 .. N /\ i \in 1 .. N /\ i + 1 \in 1 .. N + 1 /\ i \in 1 .. N + 1
  BY SmmAssumption DEF CPUs
<1>1. From(op, i) \in Seq(Items) /\ Len(From(op, i)) = N + 1 - i
  BY <1>0, FromSeq
<1>2. From(op, i + 1) \in Seq(Items) /\ Len(From(op, i + 1)) = N - i
  <2>1. From(op, i + 1) \in Seq(Items) /\ Len(From(op, i + 1)) = N + 1 - (i + 1)
    BY <1>0, FromSeq
  <2>2. N + 1 - (i + 1) = N - i
    BY <1>0
  <2>3. QED
    BY <2>1, <2>2
<1> DEFINE y == <<op, i>>
<1>3. y \in Items
  BY <1>0 DEF Items
<1>4. From(op, i) = <<y>> \o From(op, i + 1)
  <2>1. <<y>> \in Seq(Items) /\ Len(<<y>>) = 1 /\ <<y>>[1] = y
    BY <1>3
  <2> DEFINE t == <<y>> \o From(op, i + 1)
  <2>2. /\ t \in Seq(Items) /\ Len(t) = Len(<<y>>) + Len(From(op, i + 1))
        /\ \A j \in 1 .. Len(<<y>>) + Len(From(op, i + 1)) :
             t[j] = IF j <= Len(<<y>>) THEN <<y>>[j] ELSE From(op, i + 1)[j - Len(<<y>>)]
    BY <2>1, <1>2, ConcatProperties
  <2>3. Len(t) = N + 1 - i
    <3>1. Len(t) = 1 + (N - i)
      BY <2>1, <2>2, <1>2
    <3>2. 1 + (N - i) = N + 1 - i
      BY <1>0
    <3>3. QED
      BY <3>1, <3>2
  <2>4. ASSUME NEW j \in 1 .. N + 1 - i PROVE t[j] = From(op, i)[j]
    <3>1. From(op, i)[j] = <<op, i + j - 1>>
      BY DEF From
    <3>2. CASE j = 1
      <4>1. t[j] = y
        BY <3>2, <2>1, <2>2, <1>2, <1>0
      <4>2. i + j - 1 = i
        BY <3>2, <1>0
      <4>3. QED
        BY <4>1, <4>2, <3>1
    <3>3. CASE j # 1
      <4>1. t[j] = From(op, i + 1)[j - 1] /\ j - 1 \in 1 .. N - i
        BY <3>3, <2>1, <2>2, <1>2, <1>0
      <4>2. From(op, i + 1)[j - 1] = <<op, i + 1 + (j - 1) - 1>>
        <5>1. j - 1 \in 1 .. N + 1 - (i + 1)
          BY <4>1, <1>0
        <5>2. QED
          BY <5>1 DEF From
      <4>3. i + 1 + (j - 1) - 1 = i + j - 1
        BY <1>0
      <4>4. QED
        BY <4>1, <4>2, <4>3, <3>1
    <3>4. QED
      BY <3>2, <3>3
  <2> HIDE DEF t
  <2>5. t = From(op, i)
    BY <2>2, <2>3, <2>4, <1>1, SeqEqual
  <2>6. QED
    BY <2>5 DEF t
<1>5. (<<y>> \o From(op, i + 1)) \o r = <<y>> \o (From(op, i + 1) \o r)
  <2>1. <<y>> \in Seq(Items)
    BY <1>3
  <2>2. QED
    BY <2>1, <1>2, ConcatAssociative
<1>6. From(op, i + 1) \o r \in Seq(Items)
  BY <1>2, ConcatProperties
<1>7. Begins(From(op, i) \o r, <<op, i>>, From(op, i + 1) \o r)
  BY <1>4, <1>5, <1>6, <1>0, OneBegins DEF One
<1>8. CASE i < N
  BY <1>8, <1>7
<1>9. CASE ~(i < N)
  <2>1. Len(From(op, i + 1)) = 0
    BY <1>9, <1>2, <1>0
  <2>2. From(op, i + 1) = <<>>
    BY <2>1, <1>2, EmptySeq
  <2>3. <<>> \o r = r
    BY ConcatEmptySeq
  <2>4. QED
    BY <1>7, <1>9, <2>2, <2>3
<1>10. QED
  BY <1>8, <1>9

\* The loops of the model start with the first processor.
LEMMA ForAllIsFrom == ASSUME NEW op PROVE ForAll(op) = From(op, 1)
<1>1. N + 1 - 1 = N /\ \A j \in 1 .. N : 1 + j - 1 = j
  BY SmmAssumption
<1>2. QED
  BY <1>1 DEF ForAll, From, CPUs

\* What begins with a step is a program.
LEMMA BeginsSeq == ASSUME NEW s, NEW x, NEW r, Begins(s, x, r) PROVE s \in Seq(Items)
BY DEF Begins

\* Every step named below is a step of BSPHandler or of APHandler.
LEMMA OpsAreOps ==
  {"inside", "present", "arrive", "send_ipi", "sync", "lockdown", "gather", "release", "busy",
   "handlers", "not_busy", "all_present", "outside", "absent", "reset_bsp", "reset_counter", "wrap",
   "acquire", "acquire_present", "schedule", "schedule_present", "release_run", "valid_smi",
   "in_progress", "check_in", "elect", "leave", "late", "await", "look", "ask_bsp", "give_up",
   "find_bsp", "ap_present", "signal", "wait", "idle", "test_exit", "procedure", "token", "free",
   "ap_absent", "reset_sync"} = BspOps \cup ApOps
BY DEF BspOps, ApOps

\* The end of BSPHandler.
LEMMA EndBegins ==
  /\ Begins(CEnd3, <<"reset_sync", 0>>, CLeave)
  /\ Begins(CEnd2, <<"reset_counter", 0>>, CEnd3)
  /\ Begins(CEnd1, <<"reset_bsp", 0>>, CEnd2)
  /\ Begins(CG1, <<"gather", 0>>, CEnd1)
  /\ Begins(CAbs, <<"absent", 0>>, CG1)
  /\ \A i \in CPUs : Begins(CR2(i), <<"release", i>>, IF i < N THEN CR2(i + 1) ELSE CAbs)
  /\ Begins(CG3, <<"gather", 0>>, CR2(1))
  /\ \A i \in CPUs : Begins(CR4(i), <<"release", i>>, IF i < N THEN CR4(i + 1) ELSE CG3)
  /\ Begins(CG5, <<"gather", 0>>, CR4(1))
  /\ \A i \in CPUs : Begins(CR6(i), <<"release", i>>, IF i < N THEN CR6(i + 1) ELSE CG5)
<1>0. 1 \in CPUs
  BY SmmAssumption DEF CPUs
<1>1. CLeave \in Seq(Items)
  BY SmmAssumption, OpsAreOps DEF CLeave, Step, Items
<1>2. Begins(CEnd3, <<"reset_sync", 0>>, CLeave)
  <2>1. CLeave \in Seq(Items)
    BY <1>0, <1>1, BeginsSeq
  <2>2. QED
    BY <2>1, StepBegins, OpsAreOps DEF CEnd3
<1>3. Begins(CEnd2, <<"reset_counter", 0>>, CEnd3)
  <2>1. CEnd3 \in Seq(Items)
    BY <1>0, <1>1, <1>2, BeginsSeq
  <2>2. QED
    BY <2>1, StepBegins, OpsAreOps DEF CEnd2
<1>4. Begins(CEnd1, <<"reset_bsp", 0>>, CEnd2)
  <2>1. CEnd2 \in Seq(Items)
    BY <1>0, <1>1, <1>2, <1>3, BeginsSeq
  <2>2. QED
    BY <2>1, StepBegins, OpsAreOps DEF CEnd1
<1>5. Begins(CG1, <<"gather", 0>>, CEnd1)
  <2>1. CEnd1 \in Seq(Items)
    BY <1>0, <1>1, <1>2, <1>3, <1>4, BeginsSeq
  <2>2. QED
    BY <2>1, StepBegins, OpsAreOps DEF CG1
<1>6. Begins(CAbs, <<"absent", 0>>, CG1)
  <2>1. CG1 \in Seq(Items)
    BY <1>0, <1>1, <1>2, <1>3, <1>4, <1>5, BeginsSeq
  <2>2. QED
    BY <2>1, StepBegins, OpsAreOps DEF CAbs
<1>7. \A i \in CPUs : Begins(CR2(i), <<"release", i>>, IF i < N THEN CR2(i + 1) ELSE CAbs)
  <2>1. CAbs \in Seq(Items)
    BY <1>0, <1>1, <1>2, <1>3, <1>4, <1>5, <1>6, BeginsSeq
  <2>2. QED
    BY <2>1, FromBegins, OpsAreOps DEF CR2
<1>8. Begins(CG3, <<"gather", 0>>, CR2(1))
  <2>1. CR2(1) \in Seq(Items)
    BY <1>0, <1>1, <1>2, <1>3, <1>4, <1>5, <1>6, <1>7, BeginsSeq
  <2>2. QED
    BY <2>1, StepBegins, OpsAreOps DEF CG3
<1>9. \A i \in CPUs : Begins(CR4(i), <<"release", i>>, IF i < N THEN CR4(i + 1) ELSE CG3)
  <2>1. CG3 \in Seq(Items)
    BY <1>0, <1>1, <1>2, <1>3, <1>4, <1>5, <1>6, <1>7, <1>8, BeginsSeq
  <2>2. QED
    BY <2>1, FromBegins, OpsAreOps DEF CR4
<1>10. Begins(CG5, <<"gather", 0>>, CR4(1))
  <2>1. CR4(1) \in Seq(Items)
    BY <1>0, <1>1, <1>2, <1>3, <1>4, <1>5, <1>6, <1>7, <1>8, <1>9, BeginsSeq
  <2>2. QED
    BY <2>1, StepBegins, OpsAreOps DEF CG5
<1>11. \A i \in CPUs : Begins(CR6(i), <<"release", i>>, IF i < N THEN CR6(i + 1) ELSE CG5)
  <2>1. CG5 \in Seq(Items)
    BY <1>0, <1>1, <1>2, <1>3, <1>4, <1>5, <1>6, <1>7, <1>8, <1>9, <1>10, BeginsSeq
  <2>2. QED
    BY <2>1, FromBegins, OpsAreOps DEF CR6
<1>12. QED
  BY <1>1, <1>2, <1>3, <1>4, <1>5, <1>6, <1>7, <1>8, <1>9, <1>10, <1>11

\* APHandler.
LEMMA ApBegins ==
  /\ Begins(AS1, <<"signal", 0>>, CLeave)
  /\ Begins(AAbs, <<"ap_absent", 0>>, AS1)
  /\ Begins(AW2, <<"wait", 0>>, AAbs)
  /\ Begins(AS3, <<"signal", 0>>, AW2)
  /\ Begins(AW4, <<"wait", 0>>, AS3)
  /\ Begins(AS5, <<"signal", 0>>, AW4)
  /\ Begins(AS7, <<"signal", 0>>, AIdle("idle"))
  /\ Begins(AW8, <<"wait", 0>>, AS7)
  /\ Begins(AS9, <<"signal", 0>>, AW8)
  /\ Begins(AW10, <<"wait", 0>>, AS9)
  /\ Begins(AS11, <<"signal", 0>>, AW10)
<1>0. 1 \in CPUs
  BY SmmAssumption DEF CPUs
<1>1. CLeave \in Seq(Items)
  BY SmmAssumption, OpsAreOps DEF CLeave, Step, Items
<1>2. Begins(AIdle("idle"), <<"idle", 0>>, CLeave)
  BY <1>1, StepBegins, OpsAreOps DEF AIdle
<1>3. Begins(AS1, <<"signal", 0>>, CLeave)
  <2>1. CLeave \in Seq(Items)
    BY <1>0, <1>1, <1>2, BeginsSeq
  <2>2. QED
    BY <2>1, StepBegins, OpsAreOps DEF AS1
<1>4. Begins(AAbs, <<"ap_absent", 0>>, AS1)
  <2>1. AS1 \in Seq(Items)
    BY <1>0, <1>1, <1>2, <1>3, BeginsSeq
  <2>2. QED
    BY <2>1, StepBegins, OpsAreOps DEF AAbs
<1>5. Begins(AW2, <<"wait", 0>>, AAbs)
  <2>1. AAbs \in Seq(Items)
    BY <1>0, <1>1, <1>2, <1>3, <1>4, BeginsSeq
  <2>2. QED
    BY <2>1, StepBegins, OpsAreOps DEF AW2
<1>6. Begins(AS3, <<"signal", 0>>, AW2)
  <2>1. AW2 \in Seq(Items)
    BY <1>0, <1>1, <1>2, <1>3, <1>4, <1>5, BeginsSeq
  <2>2. QED
    BY <2>1, StepBegins, OpsAreOps DEF AS3
<1>7. Begins(AW4, <<"wait", 0>>, AS3)
  <2>1. AS3 \in Seq(Items)
    BY <1>0, <1>1, <1>2, <1>3, <1>4, <1>5, <1>6, BeginsSeq
  <2>2. QED
    BY <2>1, StepBegins, OpsAreOps DEF AW4
<1>8. Begins(AS5, <<"signal", 0>>, AW4)
  <2>1. AW4 \in Seq(Items)
    BY <1>0, <1>1, <1>2, <1>3, <1>4, <1>5, <1>6, <1>7, BeginsSeq
  <2>2. QED
    BY <2>1, StepBegins, OpsAreOps DEF AS5
<1>9. Begins(AS7, <<"signal", 0>>, AIdle("idle"))
  <2>1. AIdle("idle") \in Seq(Items)
    BY <1>0, <1>1, <1>2, <1>3, <1>4, <1>5, <1>6, <1>7, <1>8, BeginsSeq
  <2>2. QED
    BY <2>1, StepBegins, OpsAreOps DEF AS7
<1>10. Begins(AW8, <<"wait", 0>>, AS7)
  <2>1. AS7 \in Seq(Items)
    BY <1>0, <1>1, <1>2, <1>3, <1>4, <1>5, <1>6, <1>7, <1>8, <1>9, BeginsSeq
  <2>2. QED
    BY <2>1, StepBegins, OpsAreOps DEF AW8
<1>11. Begins(AS9, <<"signal", 0>>, AW8)
  <2>1. AW8 \in Seq(Items)
    BY <1>0, <1>1, <1>2, <1>3, <1>4, <1>5, <1>6, <1>7, <1>8, <1>9, <1>10, BeginsSeq
  <2>2. QED
    BY <2>1, StepBegins, OpsAreOps DEF AS9
<1>12. Begins(AW10, <<"wait", 0>>, AS9)
  <2>1. AS9 \in Seq(Items)
    BY <1>0, <1>1, <1>2, <1>3, <1>4, <1>5, <1>6, <1>7, <1>8, <1>9, <1>10, <1>11, BeginsSeq
  <2>2. QED
    BY <2>1, StepBegins, OpsAreOps DEF AW10
<1>13. Begins(AS11, <<"signal", 0>>, AW10)
  <2>1. AW10 \in Seq(Items)
    BY <1>0, <1>1, <1>2, <1>3, <1>4, <1>5, <1>6, <1>7, <1>8, <1>9, <1>10, <1>11, <1>12, BeginsSeq
  <2>2. QED
    BY <2>1, StepBegins, OpsAreOps DEF AS11
<1>14. QED
  BY <1>1, <1>2, <1>3, <1>4, <1>5, <1>6, <1>7, <1>8, <1>9, <1>10, <1>11, <1>12, <1>13

\* BSPHandler up to the exit.
LEMMA BspBegins ==
  ASSUME NEW g
  PROVE  /\ Begins(COut(g), <<"outside", 0>>, (IF g.mtrrs THEN CR6(1) ELSE CR4(1)))
         /\ Begins(CAll(g), <<"all_present", 0>>, COut(g))
         /\ Begins(CLockR(g), <<"lockdown", 0>>, CAll(g))
         /\ Begins(CSyncR(g), <<"sync", 0>>, CLockR(g))
         /\ \A i \in CPUs : Begins(CNot(g, i), <<"not_busy", i>>,
               IF i < N THEN CNot(g, i + 1) ELSE (IF Gathers(g) THEN COut(g) ELSE CSyncR(g)))
         /\ Begins(CHand(g), <<"handlers", 0>>, CNot(g, 1))
         /\ Begins(CBusy(g), <<"busy", 0>>, CHand(g))
         /\ Begins(CG7(g), <<"gather", 0>>, CBusy(g))
         /\ \A i \in CPUs : Begins(CR8(g, i), <<"release", i>>, IF i < N THEN CR8(g, i + 1) ELSE CG7(g))
         /\ Begins(CG9(g), <<"gather", 0>>, CR8(g, 1))
         /\ \A i \in CPUs : Begins(CR10(g, i), <<"release", i>>, IF i < N THEN CR10(g, i + 1) ELSE CG9(g))
         /\ Begins(CTop(g), <<"gather", 0>>, (IF g.mtrrs THEN CR10(g, 1) ELSE CBusy(g)))
         /\ Begins(CLockF(g), <<"lockdown", 0>>, CTop(g))
         /\ Begins(CSyncF(g), <<"sync", 0>>, CLockF(g))
         /\ Begins(CSend(g), <<"send_ipi", 0>>, CSyncF(g))
         /\ Begins(CArr(g), <<"arrive", 0>>, CSend(g))
         /\ Begins(CPres(g), <<"present", 0>>, (IF Gathers(g) THEN CArr(g) ELSE CBusy(g)))
         /\ Begins(CIns(g), <<"inside", 0>>, CPres(g))
<1>0. 1 \in CPUs
  BY SmmAssumption DEF CPUs
<1>1. CR4(1) \in Seq(Items) /\ CR6(1) \in Seq(Items)
  BY <1>0, EndBegins, BeginsSeq
<1>2. Begins(COut(g), <<"outside", 0>>, (IF g.mtrrs THEN CR6(1) ELSE CR4(1)))
  <2>1. (IF g.mtrrs THEN CR6(1) ELSE CR4(1)) \in Seq(Items)
    BY <1>0, <1>1, BeginsSeq
  <2>2. QED
    BY <2>1, StepBegins, OpsAreOps DEF COut
<1>3. Begins(CAll(g), <<"all_present", 0>>, COut(g))
  <2>1. COut(g) \in Seq(Items)
    BY <1>0, <1>1, <1>2, BeginsSeq
  <2>2. QED
    BY <2>1, StepBegins, OpsAreOps DEF CAll
<1>4. Begins(CLockR(g), <<"lockdown", 0>>, CAll(g))
  <2>1. CAll(g) \in Seq(Items)
    BY <1>0, <1>1, <1>2, <1>3, BeginsSeq
  <2>2. QED
    BY <2>1, StepBegins, OpsAreOps DEF CLockR
<1>5. Begins(CSyncR(g), <<"sync", 0>>, CLockR(g))
  <2>1. CLockR(g) \in Seq(Items)
    BY <1>0, <1>1, <1>2, <1>3, <1>4, BeginsSeq
  <2>2. QED
    BY <2>1, StepBegins, OpsAreOps DEF CSyncR
<1>6. \A i \in CPUs : Begins(CNot(g, i), <<"not_busy", i>>,
               IF i < N THEN CNot(g, i + 1) ELSE (IF Gathers(g) THEN COut(g) ELSE CSyncR(g)))
  <2>1. (IF Gathers(g) THEN COut(g) ELSE CSyncR(g)) \in Seq(Items)
    BY <1>0, <1>1, <1>2, <1>3, <1>4, <1>5, BeginsSeq
  <2>2. QED
    BY <2>1, FromBegins, OpsAreOps DEF CNot
<1>7. Begins(CHand(g), <<"handlers", 0>>, CNot(g, 1))
  <2>1. CNot(g, 1) \in Seq(Items)
    BY <1>0, <1>1, <1>2, <1>3, <1>4, <1>5, <1>6, BeginsSeq
  <2>2. QED
    BY <2>1, StepBegins, OpsAreOps DEF CHand
<1>8. Begins(CBusy(g), <<"busy", 0>>, CHand(g))
  <2>1. CHand(g) \in Seq(Items)
    BY <1>0, <1>1, <1>2, <1>3, <1>4, <1>5, <1>6, <1>7, BeginsSeq
  <2>2. QED
    BY <2>1, StepBegins, OpsAreOps DEF CBusy
<1>9. Begins(CG7(g), <<"gather", 0>>, CBusy(g))
  <2>1. CBusy(g) \in Seq(Items)
    BY <1>0, <1>1, <1>2, <1>3, <1>4, <1>5, <1>6, <1>7, <1>8, BeginsSeq
  <2>2. QED
    BY <2>1, StepBegins, OpsAreOps DEF CG7
<1>10. \A i \in CPUs : Begins(CR8(g, i), <<"release", i>>, IF i < N THEN CR8(g, i + 1) ELSE CG7(g))
  <2>1. CG7(g) \in Seq(Items)
    BY <1>0, <1>1, <1>2, <1>3, <1>4, <1>5, <1>6, <1>7, <1>8, <1>9, BeginsSeq
  <2>2. QED
    BY <2>1, FromBegins, OpsAreOps DEF CR8
<1>11. Begins(CG9(g), <<"gather", 0>>, CR8(g, 1))
  <2>1. CR8(g, 1) \in Seq(Items)
    BY <1>0, <1>1, <1>2, <1>3, <1>4, <1>5, <1>6, <1>7, <1>8, <1>9, <1>10, BeginsSeq
  <2>2. QED
    BY <2>1, StepBegins, OpsAreOps DEF CG9
<1>12. \A i \in CPUs : Begins(CR10(g, i), <<"release", i>>, IF i < N THEN CR10(g, i + 1) ELSE CG9(g))
  <2>1. CG9(g) \in Seq(Items)
    BY <1>0, <1>1, <1>2, <1>3, <1>4, <1>5, <1>6, <1>7, <1>8, <1>9, <1>10, <1>11, BeginsSeq
  <2>2. QED
    BY <2>1, FromBegins, OpsAreOps DEF CR10
<1>13. Begins(CTop(g), <<"gather", 0>>, (IF g.mtrrs THEN CR10(g, 1) ELSE CBusy(g)))
  <2>1. (IF g.mtrrs THEN CR10(g, 1) ELSE CBusy(g)) \in Seq(Items)
    BY <1>0, <1>1, <1>2, <1>3, <1>4, <1>5, <1>6, <1>7, <1>8, <1>9, <1>10, <1>11, <1>12, BeginsSeq
  <2>2. QED
    BY <2>1, StepBegins, OpsAreOps DEF CTop
<1>14. Begins(CLockF(g), <<"lockdown", 0>>, CTop(g))
  <2>1. CTop(g) \in Seq(Items)
    BY <1>0, <1>1, <1>2, <1>3, <1>4, <1>5, <1>6, <1>7, <1>8, <1>9, <1>10, <1>11, <1>12, <1>13,
       BeginsSeq
  <2>2. QED
    BY <2>1, StepBegins, OpsAreOps DEF CLockF
<1>15. Begins(CSyncF(g), <<"sync", 0>>, CLockF(g))
  <2>1. CLockF(g) \in Seq(Items)
    BY <1>0, <1>1, <1>2, <1>3, <1>4, <1>5, <1>6, <1>7, <1>8, <1>9, <1>10, <1>11, <1>12, <1>13, <1>14,
       BeginsSeq
  <2>2. QED
    BY <2>1, StepBegins, OpsAreOps DEF CSyncF
<1>16. Begins(CSend(g), <<"send_ipi", 0>>, CSyncF(g))
  <2>1. CSyncF(g) \in Seq(Items)
    BY <1>0, <1>1, <1>2, <1>3, <1>4, <1>5, <1>6, <1>7, <1>8, <1>9, <1>10, <1>11, <1>12, <1>13, <1>14,
       <1>15, BeginsSeq
  <2>2. QED
    BY <2>1, StepBegins, OpsAreOps DEF CSend
<1>17. Begins(CArr(g), <<"arrive", 0>>, CSend(g))
  <2>1. CSend(g) \in Seq(Items)
    BY <1>0, <1>1, <1>2, <1>3, <1>4, <1>5, <1>6, <1>7, <1>8, <1>9, <1>10, <1>11, <1>12, <1>13, <1>14,
       <1>15, <1>16, BeginsSeq
  <2>2. QED
    BY <2>1, StepBegins, OpsAreOps DEF CArr
<1>18. Begins(CPres(g), <<"present", 0>>, (IF Gathers(g) THEN CArr(g) ELSE CBusy(g)))
  <2>1. (IF Gathers(g) THEN CArr(g) ELSE CBusy(g)) \in Seq(Items)
    BY <1>0, <1>1, <1>2, <1>3, <1>4, <1>5, <1>6, <1>7, <1>8, <1>9, <1>10, <1>11, <1>12, <1>13, <1>14,
       <1>15, <1>16, <1>17, BeginsSeq
  <2>2. QED
    BY <2>1, StepBegins, OpsAreOps DEF CPres
<1>19. Begins(CIns(g), <<"inside", 0>>, CPres(g))
  <2>1. CPres(g) \in Seq(Items)
    BY <1>0, <1>1, <1>2, <1>3, <1>4, <1>5, <1>6, <1>7, <1>8, <1>9, <1>10, <1>11, <1>12, <1>13, <1>14,
       <1>15, <1>16, <1>17, <1>18, BeginsSeq
  <2>2. QED
    BY <2>1, StepBegins, OpsAreOps DEF CIns
<1>20. QED
  BY <1>1, <1>2, <1>3, <1>4, <1>5, <1>6, <1>7, <1>8, <1>9, <1>10, <1>11, <1>12, <1>13, <1>14, <1>15,
     <1>16, <1>17, <1>18, <1>19

\* APHandler from its start.
LEMMA ApStartBegins ==
  ASSUME NEW g
  PROVE  /\ Begins(APre(g), <<"ap_present", 0>>,
                   IF g.mtrrs THEN AS11 ELSE IF Gathers(g) THEN AS7 ELSE AIdle("idle"))
         /\ Begins(AFind(g), <<"find_bsp", 0>>, APre(g))
<1>1. CLeave \in Seq(Items)
  BY SmmAssumption, OpsAreOps DEF CLeave, Step, Items
<1>2. AIdle("idle") \in Seq(Items)
  BY <1>1, StepBegins, OpsAreOps, BeginsSeq DEF AIdle
<1>3. AS11 \in Seq(Items) /\ AS7 \in Seq(Items)
  BY ApBegins, BeginsSeq
<1>4. Begins(APre(g), <<"ap_present", 0>>,
             IF g.mtrrs THEN AS11 ELSE IF Gathers(g) THEN AS7 ELSE AIdle("idle"))
  BY <1>2, <1>3, StepBegins, OpsAreOps DEF APre
<1>5. APre(g) \in Seq(Items)
  BY <1>4, BeginsSeq
<1>6. QED
  BY <1>4, <1>5, StepBegins, OpsAreOps DEF AFind

\* The services of the SMI handlers.
LEMMA ServiceBegins ==
  ASSUME NEW g, NEW i \in CPUs, NEW b \in BOOLEAN
  PROVE  /\ Begins(CWait1(g, i), <<"not_busy", i>>, CHand(g))
         /\ Begins(CRun(g, i, b), <<"release_run", i>>, IF b THEN CWait1(g, i) ELSE CHand(g))
         /\ Begins(CSch(g, i, b), <<"schedule", i>>, CRun(g, i, b))
         /\ Begins(CAcq(g, i, b), <<"acquire", i>>, CSch(g, i, b))
         /\ Begins(CWrap(g, i), <<"wrap", i>>, CNot(g, 1))
         /\ Begins(CWaitA(g, i), <<"not_busy", i>>, IF i < N THEN CWaitA(g, i + 1) ELSE CHand(g))
         /\ Begins(CBc(g, i, b), <<"release", i>>,
                   IF i < N THEN CBc(g, i + 1, b) ELSE IF b THEN CWaitA(g, 1) ELSE CHand(g))
         /\ Begins(CSchA(g, i, b), <<"schedule_present", i>>,
                   IF i < N THEN CSchA(g, i + 1, b) ELSE CBc(g, 1, b))
         /\ Begins(CAcqA(g, i, b), <<"acquire_present", i>>,
                   IF i < N THEN CAcqA(g, i + 1, b) ELSE CSchA(g, 1, b))
<1>0. 1 \in CPUs /\ i \in 0 .. N
  BY SmmAssumption DEF CPUs
<1>1. CHand(g) \in Seq(Items) /\ CNot(g, 1) \in Seq(Items)
  BY <1>0, BspBegins, BeginsSeq
<1>2. Begins(CWait1(g, i), <<"not_busy", i>>, CHand(g))
  BY <1>0, <1>1, OneBegins, OpsAreOps DEF CWait1
<1>3. CWait1(g, i) \in Seq(Items)
  BY <1>2, BeginsSeq
<1>4. Begins(CRun(g, i, b), <<"release_run", i>>, IF b THEN CWait1(g, i) ELSE CHand(g))
  BY <1>0, <1>1, <1>3, OneBegins, OpsAreOps DEF CRun
<1>5. CRun(g, i, b) \in Seq(Items)
  BY <1>4, BeginsSeq
<1>6. Begins(CSch(g, i, b), <<"schedule", i>>, CRun(g, i, b))
  BY <1>0, <1>5, OneBegins, OpsAreOps DEF CSch
<1>7. CSch(g, i, b) \in Seq(Items)
  BY <1>6, BeginsSeq
<1>8. Begins(CAcq(g, i, b), <<"acquire", i>>, CSch(g, i, b))
  BY <1>0, <1>7, OneBegins, OpsAreOps DEF CAcq
<1>9. Begins(CWrap(g, i), <<"wrap", i>>, CNot(g, 1))
  BY <1>0, <1>1, OneBegins, OpsAreOps DEF CWrap
<1>10. \A j \in CPUs : Begins(CWaitA(g, j), <<"not_busy", j>>, IF j < N THEN CWaitA(g, j + 1) ELSE CHand(g))
  BY <1>1, FromBegins, OpsAreOps DEF CWaitA
<1>11. CWaitA(g, 1) \in Seq(Items)
  BY <1>0, <1>10, BeginsSeq
<1>12. \A j \in CPUs : Begins(CBc(g, j, b), <<"release", j>>,
                   IF j < N THEN CBc(g, j + 1, b) ELSE IF b THEN CWaitA(g, 1) ELSE CHand(g))
  <2>1. (IF b THEN CWaitA(g, 1) ELSE CHand(g)) \in Seq(Items)
    BY <1>1, <1>11
  <2>2. QED
    BY <2>1, FromBegins, OpsAreOps DEF CBc
<1>13. CBc(g, 1, b) \in Seq(Items)
  BY <1>0, <1>12, BeginsSeq
<1>14. \A j \in CPUs : Begins(CSchA(g, j, b), <<"schedule_present", j>>,
                   IF j < N THEN CSchA(g, j + 1, b) ELSE CBc(g, 1, b))
  BY <1>13, FromBegins, OpsAreOps DEF CSchA
<1>15. CSchA(g, 1, b) \in Seq(Items)
  BY <1>0, <1>14, BeginsSeq
<1>16. \A j \in CPUs : Begins(CAcqA(g, j, b), <<"acquire_present", j>>,
                   IF j < N THEN CAcqA(g, j + 1, b) ELSE CSchA(g, 1, b))
  BY <1>15, FromBegins, OpsAreOps DEF CAcqA
<1>17. QED
  BY <1>2, <1>4, <1>6, <1>8, <1>9, <1>10, <1>12, <1>14, <1>16

\* A program of one step.
LEMMA StepAlone ==
  ASSUME NEW op \in BspOps \cup ApOps
  PROVE  Begins(Step(op), <<op, 0>>, <<>>)
<1>1. Step(op) \in Seq(Items)
  BY SmmAssumption DEF Step, Items
<1>2. Step(op) \o <<>> = Step(op)
  BY <1>1, ConcatEmptySeq
<1>3. <<>> \in Seq(Items)
  OBVIOUS
<1>4. QED
  BY <1>2, <1>3, StepBegins

\* The return from SmiRendezvous is a program.
LEMMA LeaveSeq == CLeave \in Seq(Items)
BY SmmAssumption, OpsAreOps DEF CLeave, Step, Items

\* So is the end of a turn of the loop of APHandler.
LEMMA FreeSeq == AIdle("free") \in Seq(Items)
BY LeaveSeq, StepBegins, OpsAreOps, BeginsSeq DEF AIdle

\* What the platform decides.
LEMMA Numbers ==
  ASSUME NEW g \in Configs
  PROVE  \/ g.mtrrs /\ Gathers(g) /\ LoopK(g) = 6 /\ TopK(g) = 11
         \/ ~g.mtrrs /\ Gathers(g) /\ LoopK(g) = 4 /\ TopK(g) = 5
         \/ ~g.mtrrs /\ ~Gathers(g) /\ LoopK(g) = 4 /\ TopK(g) = 4
BY SmmAssumption DEF Gathers, LoopK, TopK

\* The program at place p begins with the step of its stage; the program at the next
\* place follows.
Follows(g, p) ==
  /\ Begins(Code(g, p), <<Op(p), p.i>>, Code(g, Succ(g, p)))
  /\ Succ(g, p) \in Place /\ Valid(g, Succ(g, p))

\* Places outside the rendezvous.
LEMMA OutFollows ==
  ASSUME NEW g \in Configs, NEW p \in Place, Valid(g, p), p.s \in OutStages \ {"out"}
  PROVE  Follows(g, p)
<1> USE DEF OutStages, PreStages, ApStages, BspStages, LoopStages,
         OneStages, AllStages, ServiceStages
<1>0. /\ 1 \in CPUs /\ N \in Nat /\ CPUs = 1 .. N
      /\ p.k \in 0 .. 11 /\ p.i \in 0 .. N /\ p.b \in BOOLEAN
  BY SmmAssumption DEF CPUs, Place
<1>1. CASE p.s = "valid_smi"
  <2>1. p.k = 0 /\ p.i = 0
    BY <1>0, <1>1 DEF Valid, Odd, Even
  <2>2. Follows(g, p)
    <3>1. Succ(g, p) = P("in_progress", 0, 0, FALSE)
      BY <1>0, <1>1, <2>1 DEF Succ, OutSucc
    <3>2. Succ(g, p) \in Place /\ Valid(g, Succ(g, p))
      BY <1>0, <2>1, <3>1, Numbers DEF Valid, P, Place, Odd, Even
    <3>3. Code(g, p) = Step("valid_smi") \o Step("in_progress")
      BY <1>0, <1>1, <2>1 DEF Code, OutCode
    <3>4. Code(g, Succ(g, p)) = Step("in_progress")
      BY <1>0, <2>1, <3>1, Numbers DEF Code, P, OutCode, ApCode, RoundCode, ServiceCode, BspCode
    <3>5. Begins(Step("valid_smi") \o Step("in_progress"), <<Op(p), p.i>>, Step("in_progress"))
      BY <1>0, <1>1, <2>1, StepAlone, BeginsSeq, StepBegins, OpsAreOps DEF Op
    <3>6. QED
      BY <3>1, <3>2, <3>3, <3>4, <3>5 DEF Follows
  <2>3. QED
    BY <2>2
<1>2. CASE p.s = "in_progress"
  <2>1. p.k = 0 /\ p.i = 0
    BY <1>0, <1>2 DEF Valid, Odd, Even
  <2>2. Follows(g, p)
    <3>1. Succ(g, p) = P("out", 0, 0, FALSE)
      BY <1>0, <1>2, <2>1 DEF Succ, OutSucc
    <3>2. Succ(g, p) \in Place /\ Valid(g, Succ(g, p))
      BY <1>0, <2>1, <3>1, Numbers DEF Valid, P, Place, Odd, Even
    <3>3. Code(g, p) = Step("in_progress")
      BY <1>0, <1>2, <2>1 DEF Code, OutCode
    <3>4. Code(g, Succ(g, p)) = <<>>
      BY <1>0, <2>1, <3>1, Numbers DEF Code, P, OutCode, ApCode, RoundCode, ServiceCode, BspCode
    <3>5. Begins(Step("in_progress"), <<Op(p), p.i>>, <<>>)
      BY <1>0, <1>2, <2>1, StepAlone, StepBegins, OpsAreOps DEF Op
    <3>6. QED
      BY <3>1, <3>2, <3>3, <3>4, <3>5 DEF Follows
  <2>3. QED
    BY <2>2
<1>3. CASE p.s = "check_in"
  <2>1. p.k = 0 /\ p.i = 0
    BY <1>0, <1>3 DEF Valid, Odd, Even
  <2>2. Follows(g, p)
    <3>1. Succ(g, p) = P("out", 0, 0, FALSE)
      BY <1>0, <1>3, <2>1 DEF Succ, OutSucc
    <3>2. Succ(g, p) \in Place /\ Valid(g, Succ(g, p))
      BY <1>0, <2>1, <3>1, Numbers DEF Valid, P, Place, Odd, Even
    <3>3. Code(g, p) = Step("check_in")
      BY <1>0, <1>3, <2>1 DEF Code, OutCode
    <3>4. Code(g, Succ(g, p)) = <<>>
      BY <1>0, <2>1, <3>1, Numbers DEF Code, P, OutCode, ApCode, RoundCode, ServiceCode, BspCode
    <3>5. Begins(Step("check_in"), <<Op(p), p.i>>, <<>>)
      BY <1>0, <1>3, <2>1, StepAlone, StepBegins, OpsAreOps DEF Op
    <3>6. QED
      BY <3>1, <3>2, <3>3, <3>4, <3>5 DEF Follows
  <2>3. QED
    BY <2>2
<1>4. CASE p.s = "late"
  <2>1. p.k = 0 /\ p.i = 0
    BY <1>0, <1>4 DEF Valid, Odd, Even
  <2>2. Follows(g, p)
    <3>1. Succ(g, p) = P("out", 0, 0, FALSE)
      BY <1>0, <1>4, <2>1 DEF Succ, OutSucc
    <3>2. Succ(g, p) \in Place /\ Valid(g, Succ(g, p))
      BY <1>0, <2>1, <3>1, Numbers DEF Valid, P, Place, Odd, Even
    <3>3. Code(g, p) = Step("late")
      BY <1>0, <1>4, <2>1 DEF Code, OutCode
    <3>4. Code(g, Succ(g, p)) = <<>>
      BY <1>0, <2>1, <3>1, Numbers DEF Code, P, OutCode, ApCode, RoundCode, ServiceCode, BspCode
    <3>5. Begins(Step("late"), <<Op(p), p.i>>, <<>>)
      BY <1>0, <1>4, <2>1, StepAlone, StepBegins, OpsAreOps DEF Op
    <3>6. QED
      BY <3>1, <3>2, <3>3, <3>4, <3>5 DEF Follows
  <2>3. QED
    BY <2>2
<1>5. CASE p.s = "leave"
  <2>1. p.k = 0 /\ p.i = 0
    BY <1>0, <1>5 DEF Valid, Odd, Even
  <2>2. Follows(g, p)
    <3>1. Succ(g, p) = P("out", 0, 0, FALSE)
      BY <1>0, <1>5, <2>1 DEF Succ, OutSucc
    <3>2. Succ(g, p) \in Place /\ Valid(g, Succ(g, p))
      BY <1>0, <2>1, <3>1, Numbers DEF Valid, P, Place, Odd, Even
    <3>3. Code(g, p) = Step("leave")
      BY <1>0, <1>5, <2>1 DEF Code, OutCode
    <3>4. Code(g, Succ(g, p)) = <<>>
      BY <1>0, <2>1, <3>1, Numbers DEF Code, P, OutCode, ApCode, RoundCode, ServiceCode, BspCode
    <3>5. Begins(Step("leave"), <<Op(p), p.i>>, <<>>)
      BY <1>0, <1>5, <2>1, StepAlone, StepBegins, OpsAreOps DEF Op
    <3>6. QED
      BY <3>1, <3>2, <3>3, <3>4, <3>5 DEF Follows
  <2>3. QED
    BY <2>2
<1>6. CASE p.s = "reset_sync"
  <2>1. p.k = 0 /\ p.i = 0
    BY <1>0, <1>6 DEF Valid, Odd, Even
  <2>2. Follows(g, p)
    <3>1. Succ(g, p) = P("leave", 0, 0, FALSE)
      BY <1>0, <1>6, <2>1 DEF Succ, OutSucc
    <3>2. Succ(g, p) \in Place /\ Valid(g, Succ(g, p))
      BY <1>0, <2>1, <3>1, Numbers DEF Valid, P, Place, Odd, Even
    <3>3. Code(g, p) = CEnd3
      BY <1>0, <1>6, <2>1 DEF Code, OutCode
    <3>4. Code(g, Succ(g, p)) = CLeave
      BY <1>0, <2>1, <3>1, Numbers DEF Code, P, OutCode, ApCode, RoundCode, ServiceCode, BspCode,
         CLeave
    <3>5. Begins(CEnd3, <<Op(p), p.i>>, CLeave)
      BY <1>0, <1>6, <2>1, EndBegins DEF Op
    <3>6. QED
      BY <3>1, <3>2, <3>3, <3>4, <3>5 DEF Follows
  <2>3. QED
    BY <2>2
<1>7. QED
  BY <1>1, <1>2, <1>3, <1>4, <1>5, <1>6

\* Places of a processor that has checked in.
LEMMA PreFollows ==
  ASSUME NEW g \in Configs, NEW p \in Place, Valid(g, p), p.s \in PreStages
  PROVE  Follows(g, p)
<1> USE DEF OutStages, PreStages, ApStages, BspStages, LoopStages,
         OneStages, AllStages, ServiceStages
<1>0. /\ 1 \in CPUs /\ N \in Nat /\ CPUs = 1 .. N
      /\ p.k \in 0 .. 11 /\ p.i \in 0 .. N /\ p.b \in BOOLEAN
  BY SmmAssumption DEF CPUs, Place
<1>1. CASE p.s = "elect"
  <2>1. p.k = TopK(g) /\ p.i = 0
    BY <1>0, <1>1 DEF Valid, Odd, Even
  <2>2. Follows(g, p)
    <3>1. Succ(g, p) = P("leave", 0, 0, FALSE)
      BY <1>0, <1>1, <2>1 DEF Succ, ApSucc
    <3>2. Succ(g, p) \in Place /\ Valid(g, Succ(g, p))
      BY <1>0, <2>1, <3>1, Numbers DEF Valid, P, Place, Odd, Even
    <3>3. Code(g, p) = One(p.s, p.i) \o CLeave
      BY <1>0, <1>1, <2>1 DEF Code, ApCode
    <3>4. Code(g, Succ(g, p)) = CLeave
      BY <1>0, <2>1, <3>1, Numbers DEF Code, P, OutCode, ApCode, RoundCode, ServiceCode, BspCode,
         CLeave
    <3>5. Begins(One(p.s, p.i) \o CLeave, <<Op(p), p.i>>, CLeave)
      BY <1>0, <1>1, <2>1, LeaveSeq, OneBegins, OpsAreOps DEF Op
    <3>6. QED
      BY <3>1, <3>2, <3>3, <3>4, <3>5 DEF Follows
  <2>3. QED
    BY <2>2
<1>2. CASE p.s = "await"
  <2>1. p.k = TopK(g) /\ p.i \in {1, 2} /\ p.i \in 0 .. N
    BY <1>0, <1>2 DEF Valid, Odd, Even
  <2>2. Follows(g, p)
    <3>1. Succ(g, p) = P("leave", 0, 0, FALSE)
      BY <1>0, <1>2, <2>1 DEF Succ, ApSucc
    <3>2. Succ(g, p) \in Place /\ Valid(g, Succ(g, p))
      BY <1>0, <2>1, <3>1, Numbers DEF Valid, P, Place, Odd, Even
    <3>3. Code(g, p) = One(p.s, p.i) \o CLeave
      BY <1>0, <1>2, <2>1 DEF Code, ApCode
    <3>4. Code(g, Succ(g, p)) = CLeave
      BY <1>0, <2>1, <3>1, Numbers DEF Code, P, OutCode, ApCode, RoundCode, ServiceCode, BspCode,
         CLeave
    <3>5. Begins(One(p.s, p.i) \o CLeave, <<Op(p), p.i>>, CLeave)
      BY <1>0, <1>2, <2>1, LeaveSeq, OneBegins, OpsAreOps DEF Op
    <3>6. QED
      BY <3>1, <3>2, <3>3, <3>4, <3>5 DEF Follows
  <2>3. QED
    BY <2>2
<1>3. CASE p.s = "look"
  <2>1. p.k = TopK(g) /\ p.i \in {1, 2} /\ p.i \in 0 .. N
    BY <1>0, <1>3 DEF Valid, Odd, Even
  <2>2. Follows(g, p)
    <3>1. Succ(g, p) = P("leave", 0, 0, FALSE)
      BY <1>0, <1>3, <2>1 DEF Succ, ApSucc
    <3>2. Succ(g, p) \in Place /\ Valid(g, Succ(g, p))
      BY <1>0, <2>1, <3>1, Numbers DEF Valid, P, Place, Odd, Even
    <3>3. Code(g, p) = One(p.s, p.i) \o CLeave
      BY <1>0, <1>3, <2>1 DEF Code, ApCode
    <3>4. Code(g, Succ(g, p)) = CLeave
      BY <1>0, <2>1, <3>1, Numbers DEF Code, P, OutCode, ApCode, RoundCode, ServiceCode, BspCode,
         CLeave
    <3>5. Begins(One(p.s, p.i) \o CLeave, <<Op(p), p.i>>, CLeave)
      BY <1>0, <1>3, <2>1, LeaveSeq, OneBegins, OpsAreOps DEF Op
    <3>6. QED
      BY <3>1, <3>2, <3>3, <3>4, <3>5 DEF Follows
  <2>3. QED
    BY <2>2
<1>4. CASE p.s = "ask_bsp"
  <2>1. p.k = TopK(g) /\ p.i = 0
    BY <1>0, <1>4 DEF Valid, Odd, Even
  <2>2. Follows(g, p)
    <3>1. Succ(g, p) = P("leave", 0, 0, FALSE)
      BY <1>0, <1>4, <2>1 DEF Succ, ApSucc
    <3>2. Succ(g, p) \in Place /\ Valid(g, Succ(g, p))
      BY <1>0, <2>1, <3>1, Numbers DEF Valid, P, Place, Odd, Even
    <3>3. Code(g, p) = One(p.s, p.i) \o CLeave
      BY <1>0, <1>4, <2>1 DEF Code, ApCode
    <3>4. Code(g, Succ(g, p)) = CLeave
      BY <1>0, <2>1, <3>1, Numbers DEF Code, P, OutCode, ApCode, RoundCode, ServiceCode, BspCode,
         CLeave
    <3>5. Begins(One(p.s, p.i) \o CLeave, <<Op(p), p.i>>, CLeave)
      BY <1>0, <1>4, <2>1, LeaveSeq, OneBegins, OpsAreOps DEF Op
    <3>6. QED
      BY <3>1, <3>2, <3>3, <3>4, <3>5 DEF Follows
  <2>3. QED
    BY <2>2
<1>5. CASE p.s = "give_up"
  <2>1. p.k = TopK(g) /\ p.i = 0
    BY <1>0, <1>5 DEF Valid, Odd, Even
  <2>2. Follows(g, p)
    <3>1. Succ(g, p) = P("leave", 0, 0, FALSE)
      BY <1>0, <1>5, <2>1 DEF Succ, ApSucc
    <3>2. Succ(g, p) \in Place /\ Valid(g, Succ(g, p))
      BY <1>0, <2>1, <3>1, Numbers DEF Valid, P, Place, Odd, Even
    <3>3. Code(g, p) = One(p.s, p.i) \o CLeave
      BY <1>0, <1>5, <2>1 DEF Code, ApCode
    <3>4. Code(g, Succ(g, p)) = CLeave
      BY <1>0, <2>1, <3>1, Numbers DEF Code, P, OutCode, ApCode, RoundCode, ServiceCode, BspCode,
         CLeave
    <3>5. Begins(One(p.s, p.i) \o CLeave, <<Op(p), p.i>>, CLeave)
      BY <1>0, <1>5, <2>1, LeaveSeq, OneBegins, OpsAreOps DEF Op
    <3>6. QED
      BY <3>1, <3>2, <3>3, <3>4, <3>5 DEF Follows
  <2>3. QED
    BY <2>2
<1>6. QED
  BY <1>1, <1>2, <1>3, <1>4, <1>5

\* Places of an AP.
LEMMA ApFollows ==
  ASSUME NEW g \in Configs, NEW p \in Place, Valid(g, p), p.s \in ApStages
  PROVE  Follows(g, p)
<1> USE DEF OutStages, PreStages, ApStages, BspStages, LoopStages,
         OneStages, AllStages, ServiceStages
<1>0. /\ 1 \in CPUs /\ N \in Nat /\ CPUs = 1 .. N
      /\ p.k \in 0 .. 11 /\ p.i \in 0 .. N /\ p.b \in BOOLEAN
  BY SmmAssumption DEF CPUs, Place
<1>1. CASE p.s = "find_bsp"
  <2>1. p.k = TopK(g) /\ p.i = 0
    BY <1>0, <1>1 DEF Valid, Odd, Even
  <2>2. Follows(g, p)
    <3>1. Succ(g, p) = P("ap_present", TopK(g), 0, FALSE)
      BY <1>0, <1>1, <2>1 DEF Succ, ApSucc
    <3>2. Succ(g, p) \in Place /\ Valid(g, Succ(g, p))
      BY <1>0, <2>1, <3>1, Numbers DEF Valid, P, Place, Odd, Even
    <3>3. Code(g, p) = AFind(g)
      BY <1>0, <1>1, <2>1 DEF Code, ApCode
    <3>4. Code(g, Succ(g, p)) = APre(g)
      BY <1>0, <2>1, <3>1, Numbers DEF Code, P, OutCode, ApCode, RoundCode, ServiceCode, BspCode
    <3>5. Begins(AFind(g), <<Op(p), p.i>>, APre(g))
      BY <1>0, <1>1, <2>1, ApStartBegins DEF Op
    <3>6. QED
      BY <3>1, <3>2, <3>3, <3>4, <3>5 DEF Follows
  <2>3. QED
    BY <2>2
<1>2. CASE p.s = "ap_present"
  <2>1. p.k = TopK(g) /\ p.i = 0
    BY <1>0, <1>2 DEF Valid, Odd, Even
  <2>2. CASE g.mtrrs /\ Gathers(g) /\ LoopK(g) = 6 /\ TopK(g) = 11
    <3>1. Succ(g, p) = P("signal", 11, 0, FALSE)
      BY <1>0, <1>2, <2>1, <2>2 DEF Succ, ApSucc
    <3>2. Succ(g, p) \in Place /\ Valid(g, Succ(g, p))
      BY <1>0, <2>1, <3>1, Numbers, <2>2 DEF Valid, P, Place, Odd, Even
    <3>3. Code(g, p) = APre(g)
      BY <1>0, <1>2, <2>1, <2>2 DEF Code, ApCode
    <3>4. Code(g, Succ(g, p)) = AS11
      BY <1>0, <2>1, <3>1, Numbers, <2>2 DEF Code, P, OutCode, ApCode, RoundCode, ServiceCode, BspCode
    <3>5. Begins(APre(g), <<Op(p), p.i>>, AS11)
      BY <1>0, <1>2, <2>1, <2>2, ApStartBegins DEF Op
    <3>6. QED
      BY <3>1, <3>2, <3>3, <3>4, <3>5 DEF Follows
  <2>3. CASE ~g.mtrrs /\ Gathers(g) /\ LoopK(g) = 4 /\ TopK(g) = 5
    <3>1. Succ(g, p) = P("signal", 5, 0, FALSE)
      BY <1>0, <1>2, <2>1, <2>3 DEF Succ, ApSucc
    <3>2. Succ(g, p) \in Place /\ Valid(g, Succ(g, p))
      BY <1>0, <2>1, <3>1, Numbers, <2>3 DEF Valid, P, Place, Odd, Even
    <3>3. Code(g, p) = APre(g)
      BY <1>0, <1>2, <2>1, <2>3 DEF Code, ApCode
    <3>4. Code(g, Succ(g, p)) = AS7
      BY <1>0, <2>1, <3>1, Numbers, <2>3 DEF Code, P, OutCode, ApCode, RoundCode, ServiceCode, BspCode
    <3>5. Begins(APre(g), <<Op(p), p.i>>, AS7)
      BY <1>0, <1>2, <2>1, <2>3, ApStartBegins DEF Op
    <3>6. QED
      BY <3>1, <3>2, <3>3, <3>4, <3>5 DEF Follows
  <2>4. CASE ~g.mtrrs /\ ~Gathers(g) /\ LoopK(g) = 4 /\ TopK(g) = 4
    <3>1. Succ(g, p) = P("idle", 4, 0, FALSE)
      BY <1>0, <1>2, <2>1, <2>4 DEF Succ, ApSucc
    <3>2. Succ(g, p) \in Place /\ Valid(g, Succ(g, p))
      BY <1>0, <2>1, <3>1, Numbers, <2>4 DEF Valid, P, Place, Odd, Even
    <3>3. Code(g, p) = APre(g)
      BY <1>0, <1>2, <2>1, <2>4 DEF Code, ApCode
    <3>4. Code(g, Succ(g, p)) = AIdle("idle")
      BY <1>0, <2>1, <3>1, Numbers, <2>4 DEF Code, P, OutCode, ApCode, RoundCode, ServiceCode,
         BspCode, AIdle, One, Step
    <3>5. Begins(APre(g), <<Op(p), p.i>>, AIdle("idle"))
      BY <1>0, <1>2, <2>1, <2>4, ApStartBegins DEF Op
    <3>6. QED
      BY <3>1, <3>2, <3>3, <3>4, <3>5 DEF Follows
  <2>5. QED
    BY <2>2, <2>3, <2>4, <2>1, Numbers DEF Odd, Even
<1>3. CASE p.s = "signal"
  <2>1. p.k \in Odd /\ p.k <= TopK(g) /\ p.i = 0
    BY <1>0, <1>3 DEF Valid, Odd, Even
  <2>2. CASE g.mtrrs /\ Gathers(g) /\ LoopK(g) = 6 /\ TopK(g) = 11 /\ p.k = 1
    <3>1. Succ(g, p) = P("leave", 0, 0, FALSE)
      BY <1>0, <1>3, <2>1, <2>2 DEF Succ, ApSucc
    <3>2. Succ(g, p) \in Place /\ Valid(g, Succ(g, p))
      BY <1>0, <2>1, <3>1, Numbers, <2>2 DEF Valid, P, Place, Odd, Even
    <3>3. Code(g, p) = AS1
      BY <1>0, <1>3, <2>1, <2>2 DEF Code, ApCode
    <3>4. Code(g, Succ(g, p)) = CLeave
      BY <1>0, <2>1, <3>1, Numbers, <2>2 DEF Code, P, OutCode, ApCode, RoundCode, ServiceCode,
         BspCode, CLeave
    <3>5. Begins(AS1, <<Op(p), p.i>>, CLeave)
      BY <1>0, <1>3, <2>1, <2>2, ApBegins DEF Op
    <3>6. QED
      BY <3>1, <3>2, <3>3, <3>4, <3>5 DEF Follows
  <2>3. CASE g.mtrrs /\ Gathers(g) /\ LoopK(g) = 6 /\ TopK(g) = 11 /\ p.k = 3
    <3>1. Succ(g, p) = P("wait", 2, 0, FALSE)
      BY <1>0, <1>3, <2>1, <2>3 DEF Succ, ApSucc
    <3>2. Succ(g, p) \in Place /\ Valid(g, Succ(g, p))
      BY <1>0, <2>1, <3>1, Numbers, <2>3 DEF Valid, P, Place, Odd, Even
    <3>3. Code(g, p) = AS3
      BY <1>0, <1>3, <2>1, <2>3 DEF Code, ApCode
    <3>4. Code(g, Succ(g, p)) = AW2
      BY <1>0, <2>1, <3>1, Numbers, <2>3 DEF Code, P, OutCode, ApCode, RoundCode, ServiceCode, BspCode
    <3>5. Begins(AS3, <<Op(p), p.i>>, AW2)
      BY <1>0, <1>3, <2>1, <2>3, ApBegins DEF Op
    <3>6. QED
      BY <3>1, <3>2, <3>3, <3>4, <3>5 DEF Follows
  <2>4. CASE g.mtrrs /\ Gathers(g) /\ LoopK(g) = 6 /\ TopK(g) = 11 /\ p.k = 5
    <3>1. Succ(g, p) = P("wait", 4, 0, FALSE)
      BY <1>0, <1>3, <2>1, <2>4 DEF Succ, ApSucc
    <3>2. Succ(g, p) \in Place /\ Valid(g, Succ(g, p))
      BY <1>0, <2>1, <3>1, Numbers, <2>4 DEF Valid, P, Place, Odd, Even
    <3>3. Code(g, p) = AS5
      BY <1>0, <1>3, <2>1, <2>4 DEF Code, ApCode
    <3>4. Code(g, Succ(g, p)) = AW4
      BY <1>0, <2>1, <3>1, Numbers, <2>4 DEF Code, P, OutCode, ApCode, RoundCode, ServiceCode, BspCode
    <3>5. Begins(AS5, <<Op(p), p.i>>, AW4)
      BY <1>0, <1>3, <2>1, <2>4, ApBegins DEF Op
    <3>6. QED
      BY <3>1, <3>2, <3>3, <3>4, <3>5 DEF Follows
  <2>5. CASE g.mtrrs /\ Gathers(g) /\ LoopK(g) = 6 /\ TopK(g) = 11 /\ p.k = 7
    <3>1. Succ(g, p) = P("idle", 6, 0, FALSE)
      BY <1>0, <1>3, <2>1, <2>5 DEF Succ, ApSucc
    <3>2. Succ(g, p) \in Place /\ Valid(g, Succ(g, p))
      BY <1>0, <2>1, <3>1, Numbers, <2>5 DEF Valid, P, Place, Odd, Even
    <3>3. Code(g, p) = AS7
      BY <1>0, <1>3, <2>1, <2>5 DEF Code, ApCode
    <3>4. Code(g, Succ(g, p)) = AIdle("idle")
      BY <1>0, <2>1, <3>1, Numbers, <2>5 DEF Code, P, OutCode, ApCode, RoundCode, ServiceCode,
         BspCode, AIdle, One, Step
    <3>5. Begins(AS7, <<Op(p), p.i>>, AIdle("idle"))
      BY <1>0, <1>3, <2>1, <2>5, ApBegins DEF Op
    <3>6. QED
      BY <3>1, <3>2, <3>3, <3>4, <3>5 DEF Follows
  <2>6. CASE g.mtrrs /\ Gathers(g) /\ LoopK(g) = 6 /\ TopK(g) = 11 /\ p.k = 9
    <3>1. Succ(g, p) = P("wait", 8, 0, FALSE)
      BY <1>0, <1>3, <2>1, <2>6 DEF Succ, ApSucc
    <3>2. Succ(g, p) \in Place /\ Valid(g, Succ(g, p))
      BY <1>0, <2>1, <3>1, Numbers, <2>6 DEF Valid, P, Place, Odd, Even
    <3>3. Code(g, p) = AS9
      BY <1>0, <1>3, <2>1, <2>6 DEF Code, ApCode
    <3>4. Code(g, Succ(g, p)) = AW8
      BY <1>0, <2>1, <3>1, Numbers, <2>6 DEF Code, P, OutCode, ApCode, RoundCode, ServiceCode, BspCode
    <3>5. Begins(AS9, <<Op(p), p.i>>, AW8)
      BY <1>0, <1>3, <2>1, <2>6, ApBegins DEF Op
    <3>6. QED
      BY <3>1, <3>2, <3>3, <3>4, <3>5 DEF Follows
  <2>7. CASE g.mtrrs /\ Gathers(g) /\ LoopK(g) = 6 /\ TopK(g) = 11 /\ p.k = 11
    <3>1. Succ(g, p) = P("wait", 10, 0, FALSE)
      BY <1>0, <1>3, <2>1, <2>7 DEF Succ, ApSucc
    <3>2. Succ(g, p) \in Place /\ Valid(g, Succ(g, p))
      BY <1>0, <2>1, <3>1, Numbers, <2>7 DEF Valid, P, Place, Odd, Even
    <3>3. Code(g, p) = AS11
      BY <1>0, <1>3, <2>1, <2>7 DEF Code, ApCode
    <3>4. Code(g, Succ(g, p)) = AW10
      BY <1>0, <2>1, <3>1, Numbers, <2>7 DEF Code, P, OutCode, ApCode, RoundCode, ServiceCode, BspCode
    <3>5. Begins(AS11, <<Op(p), p.i>>, AW10)
      BY <1>0, <1>3, <2>1, <2>7, ApBegins DEF Op
    <3>6. QED
      BY <3>1, <3>2, <3>3, <3>4, <3>5 DEF Follows
  <2>8. CASE ~g.mtrrs /\ Gathers(g) /\ LoopK(g) = 4 /\ TopK(g) = 5 /\ p.k = 1
    <3>1. Succ(g, p) = P("leave", 0, 0, FALSE)
      BY <1>0, <1>3, <2>1, <2>8 DEF Succ, ApSucc
    <3>2. Succ(g, p) \in Place /\ Valid(g, Succ(g, p))
      BY <1>0, <2>1, <3>1, Numbers, <2>8 DEF Valid, P, Place, Odd, Even
    <3>3. Code(g, p) = AS1
      BY <1>0, <1>3, <2>1, <2>8 DEF Code, ApCode
    <3>4. Code(g, Succ(g, p)) = CLeave
      BY <1>0, <2>1, <3>1, Numbers, <2>8 DEF Code, P, OutCode, ApCode, RoundCode, ServiceCode,
         BspCode, CLeave
    <3>5. Begins(AS1, <<Op(p), p.i>>, CLeave)
      BY <1>0, <1>3, <2>1, <2>8, ApBegins DEF Op
    <3>6. QED
      BY <3>1, <3>2, <3>3, <3>4, <3>5 DEF Follows
  <2>9. CASE ~g.mtrrs /\ Gathers(g) /\ LoopK(g) = 4 /\ TopK(g) = 5 /\ p.k = 3
    <3>1. Succ(g, p) = P("wait", 2, 0, FALSE)
      BY <1>0, <1>3, <2>1, <2>9 DEF Succ, ApSucc
    <3>2. Succ(g, p) \in Place /\ Valid(g, Succ(g, p))
      BY <1>0, <2>1, <3>1, Numbers, <2>9 DEF Valid, P, Place, Odd, Even
    <3>3. Code(g, p) = AS3
      BY <1>0, <1>3, <2>1, <2>9 DEF Code, ApCode
    <3>4. Code(g, Succ(g, p)) = AW2
      BY <1>0, <2>1, <3>1, Numbers, <2>9 DEF Code, P, OutCode, ApCode, RoundCode, ServiceCode, BspCode
    <3>5. Begins(AS3, <<Op(p), p.i>>, AW2)
      BY <1>0, <1>3, <2>1, <2>9, ApBegins DEF Op
    <3>6. QED
      BY <3>1, <3>2, <3>3, <3>4, <3>5 DEF Follows
  <2>10. CASE ~g.mtrrs /\ Gathers(g) /\ LoopK(g) = 4 /\ TopK(g) = 5 /\ p.k = 5
    <3>1. Succ(g, p) = P("idle", 4, 0, FALSE)
      BY <1>0, <1>3, <2>1, <2>10 DEF Succ, ApSucc
    <3>2. Succ(g, p) \in Place /\ Valid(g, Succ(g, p))
      BY <1>0, <2>1, <3>1, Numbers, <2>10 DEF Valid, P, Place, Odd, Even
    <3>3. Code(g, p) = AS7
      BY <1>0, <1>3, <2>1, <2>10 DEF Code, ApCode
    <3>4. Code(g, Succ(g, p)) = AIdle("idle")
      BY <1>0, <2>1, <3>1, Numbers, <2>10 DEF Code, P, OutCode, ApCode, RoundCode, ServiceCode,
         BspCode, AIdle, One, Step
    <3>5. Begins(AS7, <<Op(p), p.i>>, AIdle("idle"))
      BY <1>0, <1>3, <2>1, <2>10, ApBegins DEF Op
    <3>6. QED
      BY <3>1, <3>2, <3>3, <3>4, <3>5 DEF Follows
  <2>11. CASE ~g.mtrrs /\ ~Gathers(g) /\ LoopK(g) = 4 /\ TopK(g) = 4 /\ p.k = 1
    <3>1. Succ(g, p) = P("leave", 0, 0, FALSE)
      BY <1>0, <1>3, <2>1, <2>11 DEF Succ, ApSucc
    <3>2. Succ(g, p) \in Place /\ Valid(g, Succ(g, p))
      BY <1>0, <2>1, <3>1, Numbers, <2>11 DEF Valid, P, Place, Odd, Even
    <3>3. Code(g, p) = AS1
      BY <1>0, <1>3, <2>1, <2>11 DEF Code, ApCode
    <3>4. Code(g, Succ(g, p)) = CLeave
      BY <1>0, <2>1, <3>1, Numbers, <2>11 DEF Code, P, OutCode, ApCode, RoundCode, ServiceCode,
         BspCode, CLeave
    <3>5. Begins(AS1, <<Op(p), p.i>>, CLeave)
      BY <1>0, <1>3, <2>1, <2>11, ApBegins DEF Op
    <3>6. QED
      BY <3>1, <3>2, <3>3, <3>4, <3>5 DEF Follows
  <2>12. CASE ~g.mtrrs /\ ~Gathers(g) /\ LoopK(g) = 4 /\ TopK(g) = 4 /\ p.k = 3
    <3>1. Succ(g, p) = P("wait", 2, 0, FALSE)
      BY <1>0, <1>3, <2>1, <2>12 DEF Succ, ApSucc
    <3>2. Succ(g, p) \in Place /\ Valid(g, Succ(g, p))
      BY <1>0, <2>1, <3>1, Numbers, <2>12 DEF Valid, P, Place, Odd, Even
    <3>3. Code(g, p) = AS3
      BY <1>0, <1>3, <2>1, <2>12 DEF Code, ApCode
    <3>4. Code(g, Succ(g, p)) = AW2
      BY <1>0, <2>1, <3>1, Numbers, <2>12 DEF Code, P, OutCode, ApCode, RoundCode, ServiceCode,
         BspCode
    <3>5. Begins(AS3, <<Op(p), p.i>>, AW2)
      BY <1>0, <1>3, <2>1, <2>12, ApBegins DEF Op
    <3>6. QED
      BY <3>1, <3>2, <3>3, <3>4, <3>5 DEF Follows
  <2>13. QED
    BY <2>2, <2>3, <2>4, <2>5, <2>6, <2>7, <2>8, <2>9, <2>10, <2>11, <2>12, <2>1, Numbers DEF Odd,
       Even
<1>4. CASE p.s = "wait"
  <2>1. p.k \in Even /\ p.k # LoopK(g) /\ p.k <= TopK(g) /\ p.i = 0
    BY <1>0, <1>4 DEF Valid, Odd, Even
  <2>2. CASE g.mtrrs /\ Gathers(g) /\ LoopK(g) = 6 /\ TopK(g) = 11 /\ p.k = 2
    <3>1. Succ(g, p) = P("ap_absent", 1, 0, FALSE)
      BY <1>0, <1>4, <2>1, <2>2 DEF Succ, ApSucc
    <3>2. Succ(g, p) \in Place /\ Valid(g, Succ(g, p))
      BY <1>0, <2>1, <3>1, Numbers, <2>2 DEF Valid, P, Place, Odd, Even
    <3>3. Code(g, p) = AW2
      BY <1>0, <1>4, <2>1, <2>2 DEF Code, ApCode
    <3>4. Code(g, Succ(g, p)) = AAbs
      BY <1>0, <2>1, <3>1, Numbers, <2>2 DEF Code, P, OutCode, ApCode, RoundCode, ServiceCode, BspCode
    <3>5. Begins(AW2, <<Op(p), p.i>>, AAbs)
      BY <1>0, <1>4, <2>1, <2>2, ApBegins DEF Op
    <3>6. QED
      BY <3>1, <3>2, <3>3, <3>4, <3>5 DEF Follows
  <2>3. CASE g.mtrrs /\ Gathers(g) /\ LoopK(g) = 6 /\ TopK(g) = 11 /\ p.k = 4
    <3>1. Succ(g, p) = P("signal", 3, 0, FALSE)
      BY <1>0, <1>4, <2>1, <2>3 DEF Succ, ApSucc
    <3>2. Succ(g, p) \in Place /\ Valid(g, Succ(g, p))
      BY <1>0, <2>1, <3>1, Numbers, <2>3 DEF Valid, P, Place, Odd, Even
    <3>3. Code(g, p) = AW4
      BY <1>0, <1>4, <2>1, <2>3 DEF Code, ApCode
    <3>4. Code(g, Succ(g, p)) = AS3
      BY <1>0, <2>1, <3>1, Numbers, <2>3 DEF Code, P, OutCode, ApCode, RoundCode, ServiceCode, BspCode
    <3>5. Begins(AW4, <<Op(p), p.i>>, AS3)
      BY <1>0, <1>4, <2>1, <2>3, ApBegins DEF Op
    <3>6. QED
      BY <3>1, <3>2, <3>3, <3>4, <3>5 DEF Follows
  <2>4. CASE g.mtrrs /\ Gathers(g) /\ LoopK(g) = 6 /\ TopK(g) = 11 /\ p.k = 8
    <3>1. Succ(g, p) = P("signal", 7, 0, FALSE)
      BY <1>0, <1>4, <2>1, <2>4 DEF Succ, ApSucc
    <3>2. Succ(g, p) \in Place /\ Valid(g, Succ(g, p))
      BY <1>0, <2>1, <3>1, Numbers, <2>4 DEF Valid, P, Place, Odd, Even
    <3>3. Code(g, p) = AW8
      BY <1>0, <1>4, <2>1, <2>4 DEF Code, ApCode
    <3>4. Code(g, Succ(g, p)) = AS7
      BY <1>0, <2>1, <3>1, Numbers, <2>4 DEF Code, P, OutCode, ApCode, RoundCode, ServiceCode, BspCode
    <3>5. Begins(AW8, <<Op(p), p.i>>, AS7)
      BY <1>0, <1>4, <2>1, <2>4, ApBegins DEF Op
    <3>6. QED
      BY <3>1, <3>2, <3>3, <3>4, <3>5 DEF Follows
  <2>5. CASE g.mtrrs /\ Gathers(g) /\ LoopK(g) = 6 /\ TopK(g) = 11 /\ p.k = 10
    <3>1. Succ(g, p) = P("signal", 9, 0, FALSE)
      BY <1>0, <1>4, <2>1, <2>5 DEF Succ, ApSucc
    <3>2. Succ(g, p) \in Place /\ Valid(g, Succ(g, p))
      BY <1>0, <2>1, <3>1, Numbers, <2>5 DEF Valid, P, Place, Odd, Even
    <3>3. Code(g, p) = AW10
      BY <1>0, <1>4, <2>1, <2>5 DEF Code, ApCode
    <3>4. Code(g, Succ(g, p)) = AS9
      BY <1>0, <2>1, <3>1, Numbers, <2>5 DEF Code, P, OutCode, ApCode, RoundCode, ServiceCode, BspCode
    <3>5. Begins(AW10, <<Op(p), p.i>>, AS9)
      BY <1>0, <1>4, <2>1, <2>5, ApBegins DEF Op
    <3>6. QED
      BY <3>1, <3>2, <3>3, <3>4, <3>5 DEF Follows
  <2>6. CASE ~g.mtrrs /\ Gathers(g) /\ LoopK(g) = 4 /\ TopK(g) = 5 /\ p.k = 2
    <3>1. Succ(g, p) = P("ap_absent", 1, 0, FALSE)
      BY <1>0, <1>4, <2>1, <2>6 DEF Succ, ApSucc
    <3>2. Succ(g, p) \in Place /\ Valid(g, Succ(g, p))
      BY <1>0, <2>1, <3>1, Numbers, <2>6 DEF Valid, P, Place, Odd, Even
    <3>3. Code(g, p) = AW2
      BY <1>0, <1>4, <2>1, <2>6 DEF Code, ApCode
    <3>4. Code(g, Succ(g, p)) = AAbs
      BY <1>0, <2>1, <3>1, Numbers, <2>6 DEF Code, P, OutCode, ApCode, RoundCode, ServiceCode, BspCode
    <3>5. Begins(AW2, <<Op(p), p.i>>, AAbs)
      BY <1>0, <1>4, <2>1, <2>6, ApBegins DEF Op
    <3>6. QED
      BY <3>1, <3>2, <3>3, <3>4, <3>5 DEF Follows
  <2>7. CASE ~g.mtrrs /\ ~Gathers(g) /\ LoopK(g) = 4 /\ TopK(g) = 4 /\ p.k = 2
    <3>1. Succ(g, p) = P("ap_absent", 1, 0, FALSE)
      BY <1>0, <1>4, <2>1, <2>7 DEF Succ, ApSucc
    <3>2. Succ(g, p) \in Place /\ Valid(g, Succ(g, p))
      BY <1>0, <2>1, <3>1, Numbers, <2>7 DEF Valid, P, Place, Odd, Even
    <3>3. Code(g, p) = AW2
      BY <1>0, <1>4, <2>1, <2>7 DEF Code, ApCode
    <3>4. Code(g, Succ(g, p)) = AAbs
      BY <1>0, <2>1, <3>1, Numbers, <2>7 DEF Code, P, OutCode, ApCode, RoundCode, ServiceCode, BspCode
    <3>5. Begins(AW2, <<Op(p), p.i>>, AAbs)
      BY <1>0, <1>4, <2>1, <2>7, ApBegins DEF Op
    <3>6. QED
      BY <3>1, <3>2, <3>3, <3>4, <3>5 DEF Follows
  <2>8. QED
    BY <2>2, <2>3, <2>4, <2>5, <2>6, <2>7, <2>1, Numbers DEF Odd, Even
<1>5. CASE p.s = "ap_absent"
  <2>1. p.k = 1 /\ p.i = 0
    BY <1>0, <1>5 DEF Valid, Odd, Even
  <2>2. Follows(g, p)
    <3>1. Succ(g, p) = P("signal", 1, 0, FALSE)
      BY <1>0, <1>5, <2>1 DEF Succ, ApSucc
    <3>2. Succ(g, p) \in Place /\ Valid(g, Succ(g, p))
      BY <1>0, <2>1, <3>1, Numbers DEF Valid, P, Place, Odd, Even
    <3>3. Code(g, p) = AAbs
      BY <1>0, <1>5, <2>1 DEF Code, ApCode
    <3>4. Code(g, Succ(g, p)) = AS1
      BY <1>0, <2>1, <3>1, Numbers DEF Code, P, OutCode, ApCode, RoundCode, ServiceCode, BspCode
    <3>5. Begins(AAbs, <<Op(p), p.i>>, AS1)
      BY <1>0, <1>5, <2>1, ApBegins DEF Op
    <3>6. QED
      BY <3>1, <3>2, <3>3, <3>4, <3>5 DEF Follows
  <2>3. QED
    BY <2>2
<1>6. CASE p.s = "idle"
  <2>1. p.k = LoopK(g) /\ p.i = 0
    BY <1>0, <1>6 DEF Valid, Odd, Even
  <2>2. Follows(g, p)
    <3>1. Succ(g, p) = P("leave", 0, 0, FALSE)
      BY <1>0, <1>6, <2>1 DEF Succ, ApSucc
    <3>2. Succ(g, p) \in Place /\ Valid(g, Succ(g, p))
      BY <1>0, <2>1, <3>1, Numbers DEF Valid, P, Place, Odd, Even
    <3>3. Code(g, p) = One(p.s, p.i) \o CLeave
      BY <1>0, <1>6, <2>1 DEF Code, ApCode
    <3>4. Code(g, Succ(g, p)) = CLeave
      BY <1>0, <2>1, <3>1, Numbers DEF Code, P, OutCode, ApCode, RoundCode, ServiceCode, BspCode,
         CLeave
    <3>5. Begins(One(p.s, p.i) \o CLeave, <<Op(p), p.i>>, CLeave)
      BY <1>0, <1>6, <2>1, LeaveSeq, OneBegins, OpsAreOps DEF Op
    <3>6. QED
      BY <3>1, <3>2, <3>3, <3>4, <3>5 DEF Follows
  <2>3. QED
    BY <2>2
<1>7. CASE p.s = "test_exit"
  <2>1. p.k = LoopK(g) /\ p.i = 0
    BY <1>0, <1>7 DEF Valid, Odd, Even
  <2>2. Follows(g, p)
    <3>1. Succ(g, p) = P("leave", 0, 0, FALSE)
      BY <1>0, <1>7, <2>1 DEF Succ, ApSucc
    <3>2. Succ(g, p) \in Place /\ Valid(g, Succ(g, p))
      BY <1>0, <2>1, <3>1, Numbers DEF Valid, P, Place, Odd, Even
    <3>3. Code(g, p) = One(p.s, p.i) \o CLeave
      BY <1>0, <1>7, <2>1 DEF Code, ApCode
    <3>4. Code(g, Succ(g, p)) = CLeave
      BY <1>0, <2>1, <3>1, Numbers DEF Code, P, OutCode, ApCode, RoundCode, ServiceCode, BspCode,
         CLeave
    <3>5. Begins(One(p.s, p.i) \o CLeave, <<Op(p), p.i>>, CLeave)
      BY <1>0, <1>7, <2>1, LeaveSeq, OneBegins, OpsAreOps DEF Op
    <3>6. QED
      BY <3>1, <3>2, <3>3, <3>4, <3>5 DEF Follows
  <2>3. QED
    BY <2>2
<1>8. CASE p.s = "procedure"
  <2>1. p.k = LoopK(g) /\ p.i = 0
    BY <1>0, <1>8 DEF Valid, Odd, Even
  <2>2. Follows(g, p)
    <3>1. Succ(g, p) = P("leave", 0, 0, FALSE)
      BY <1>0, <1>8, <2>1 DEF Succ, ApSucc
    <3>2. Succ(g, p) \in Place /\ Valid(g, Succ(g, p))
      BY <1>0, <2>1, <3>1, Numbers DEF Valid, P, Place, Odd, Even
    <3>3. Code(g, p) = One(p.s, p.i) \o CLeave
      BY <1>0, <1>8, <2>1 DEF Code, ApCode
    <3>4. Code(g, Succ(g, p)) = CLeave
      BY <1>0, <2>1, <3>1, Numbers DEF Code, P, OutCode, ApCode, RoundCode, ServiceCode, BspCode,
         CLeave
    <3>5. Begins(One(p.s, p.i) \o CLeave, <<Op(p), p.i>>, CLeave)
      BY <1>0, <1>8, <2>1, LeaveSeq, OneBegins, OpsAreOps DEF Op
    <3>6. QED
      BY <3>1, <3>2, <3>3, <3>4, <3>5 DEF Follows
  <2>3. QED
    BY <2>2
<1>9. CASE p.s = "token"
  <2>1. p.k = LoopK(g) /\ p.i = 0
    BY <1>0, <1>9 DEF Valid, Odd, Even
  <2>2. Follows(g, p)
    <3>1. Succ(g, p) = P("free", LoopK(g), 0, FALSE)
      BY <1>0, <1>9, <2>1 DEF Succ, ApSucc
    <3>2. Succ(g, p) \in Place /\ Valid(g, Succ(g, p))
      BY <1>0, <2>1, <3>1, Numbers DEF Valid, P, Place, Odd, Even
    <3>3. Code(g, p) = Step("token") \o AIdle("free")
      BY <1>0, <1>9, <2>1 DEF Code, ApCode
    <3>4. Code(g, Succ(g, p)) = AIdle("free")
      BY <1>0, <2>1, <3>1, Numbers DEF Code, P, OutCode, ApCode, RoundCode, ServiceCode, BspCode,
         AIdle, One, Step
    <3>5. Begins(Step("token") \o AIdle("free"), <<Op(p), p.i>>, AIdle("free"))
      BY <1>0, <1>9, <2>1, FreeSeq, StepBegins, OpsAreOps DEF Op
    <3>6. QED
      BY <3>1, <3>2, <3>3, <3>4, <3>5 DEF Follows
  <2>3. QED
    BY <2>2
<1>10. CASE p.s = "free"
  <2>1. p.k = LoopK(g) /\ p.i = 0
    BY <1>0, <1>10 DEF Valid, Odd, Even
  <2>2. Follows(g, p)
    <3>1. Succ(g, p) = P("leave", 0, 0, FALSE)
      BY <1>0, <1>10, <2>1 DEF Succ, ApSucc
    <3>2. Succ(g, p) \in Place /\ Valid(g, Succ(g, p))
      BY <1>0, <2>1, <3>1, Numbers DEF Valid, P, Place, Odd, Even
    <3>3. Code(g, p) = One(p.s, p.i) \o CLeave
      BY <1>0, <1>10, <2>1 DEF Code, ApCode
    <3>4. Code(g, Succ(g, p)) = CLeave
      BY <1>0, <2>1, <3>1, Numbers DEF Code, P, OutCode, ApCode, RoundCode, ServiceCode, BspCode,
         CLeave
    <3>5. Begins(One(p.s, p.i) \o CLeave, <<Op(p), p.i>>, CLeave)
      BY <1>0, <1>10, <2>1, LeaveSeq, OneBegins, OpsAreOps DEF Op
    <3>6. QED
      BY <3>1, <3>2, <3>3, <3>4, <3>5 DEF Follows
  <2>3. QED
    BY <2>2
<1>11. QED
  BY <1>1, <1>2, <1>3, <1>4, <1>5, <1>6, <1>7, <1>8, <1>9, <1>10

\* Places of the BSP that gathers or releases the APs.
LEMMA RoundFollows ==
  ASSUME NEW g \in Configs, NEW p \in Place, Valid(g, p), p.s \in {"gather", "release"}
  PROVE  Follows(g, p)
<1> USE DEF OutStages, PreStages, ApStages, BspStages, LoopStages,
         OneStages, AllStages, ServiceStages
<1>0. /\ 1 \in CPUs /\ N \in Nat /\ CPUs = 1 .. N
      /\ p.k \in 0 .. 11 /\ p.i \in 0 .. N /\ p.b \in BOOLEAN
  BY SmmAssumption DEF CPUs, Place
<1>1. CASE p.s = "gather"
  <2>1. p.k \in Odd /\ p.k <= TopK(g) /\ p.i = 0
    BY <1>0, <1>1 DEF Valid, Odd, Even
  <2>2. CASE g.mtrrs /\ Gathers(g) /\ LoopK(g) = 6 /\ TopK(g) = 11 /\ p.k = 1
    <3>1. Succ(g, p) = P("reset_bsp", 0, 0, FALSE)
      BY <1>0, <1>1, <2>1, <2>2 DEF Succ, RoundSucc
    <3>2. Succ(g, p) \in Place /\ Valid(g, Succ(g, p))
      BY <1>0, <2>1, <3>1, Numbers, <2>2 DEF Valid, P, Place, Odd, Even
    <3>3. Code(g, p) = CG1
      BY <1>0, <1>1, <2>1, <2>2 DEF Code, RoundCode
    <3>4. Code(g, Succ(g, p)) = CEnd1
      BY <1>0, <2>1, <3>1, Numbers, <2>2 DEF Code, P, OutCode, ApCode, RoundCode, ServiceCode, BspCode
    <3>5. Begins(CG1, <<Op(p), p.i>>, CEnd1)
      BY <1>0, <1>1, <2>1, <2>2, EndBegins, BspBegins DEF Op
    <3>6. QED
      BY <3>1, <3>2, <3>3, <3>4, <3>5 DEF Follows
  <2>3. CASE g.mtrrs /\ Gathers(g) /\ LoopK(g) = 6 /\ TopK(g) = 11 /\ p.k = 3
    <3>1. Succ(g, p) = P("release", 2, 1, FALSE)
      BY <1>0, <1>1, <2>1, <2>3 DEF Succ, RoundSucc
    <3>2. Succ(g, p) \in Place /\ Valid(g, Succ(g, p))
      BY <1>0, <2>1, <3>1, Numbers, <2>3 DEF Valid, P, Place, Odd, Even
    <3>3. Code(g, p) = CG3
      BY <1>0, <1>1, <2>1, <2>3 DEF Code, RoundCode
    <3>4. Code(g, Succ(g, p)) = CR2(1)
      BY <1>0, <2>1, <3>1, Numbers, <2>3 DEF Code, P, OutCode, ApCode, RoundCode, ServiceCode, BspCode
    <3>5. Begins(CG3, <<Op(p), p.i>>, CR2(1))
      BY <1>0, <1>1, <2>1, <2>3, EndBegins, BspBegins DEF Op
    <3>6. QED
      BY <3>1, <3>2, <3>3, <3>4, <3>5 DEF Follows
  <2>4. CASE g.mtrrs /\ Gathers(g) /\ LoopK(g) = 6 /\ TopK(g) = 11 /\ p.k = 5
    <3>1. Succ(g, p) = P("release", 4, 1, FALSE)
      BY <1>0, <1>1, <2>1, <2>4 DEF Succ, RoundSucc
    <3>2. Succ(g, p) \in Place /\ Valid(g, Succ(g, p))
      BY <1>0, <2>1, <3>1, Numbers, <2>4 DEF Valid, P, Place, Odd, Even
    <3>3. Code(g, p) = CG5
      BY <1>0, <1>1, <2>1, <2>4 DEF Code, RoundCode
    <3>4. Code(g, Succ(g, p)) = CR4(1)
      BY <1>0, <2>1, <3>1, Numbers, <2>4 DEF Code, P, OutCode, ApCode, RoundCode, ServiceCode, BspCode
    <3>5. Begins(CG5, <<Op(p), p.i>>, CR4(1))
      BY <1>0, <1>1, <2>1, <2>4, EndBegins, BspBegins DEF Op
    <3>6. QED
      BY <3>1, <3>2, <3>3, <3>4, <3>5 DEF Follows
  <2>5. CASE g.mtrrs /\ Gathers(g) /\ LoopK(g) = 6 /\ TopK(g) = 11 /\ p.k = 7
    <3>1. Succ(g, p) = P("busy", 6, 0, FALSE)
      BY <1>0, <1>1, <2>1, <2>5 DEF Succ, RoundSucc
    <3>2. Succ(g, p) \in Place /\ Valid(g, Succ(g, p))
      BY <1>0, <2>1, <3>1, Numbers, <2>5 DEF Valid, P, Place, Odd, Even
    <3>3. Code(g, p) = CG7(g)
      BY <1>0, <1>1, <2>1, <2>5 DEF Code, RoundCode
    <3>4. Code(g, Succ(g, p)) = CBusy(g)
      BY <1>0, <2>1, <3>1, Numbers, <2>5 DEF Code, P, OutCode, ApCode, RoundCode, ServiceCode, BspCode
    <3>5. Begins(CG7(g), <<Op(p), p.i>>, CBusy(g))
      BY <1>0, <1>1, <2>1, <2>5, EndBegins, BspBegins DEF Op
    <3>6. QED
      BY <3>1, <3>2, <3>3, <3>4, <3>5 DEF Follows
  <2>6. CASE g.mtrrs /\ Gathers(g) /\ LoopK(g) = 6 /\ TopK(g) = 11 /\ p.k = 9
    <3>1. Succ(g, p) = P("release", 8, 1, FALSE)
      BY <1>0, <1>1, <2>1, <2>6 DEF Succ, RoundSucc
    <3>2. Succ(g, p) \in Place /\ Valid(g, Succ(g, p))
      BY <1>0, <2>1, <3>1, Numbers, <2>6 DEF Valid, P, Place, Odd, Even
    <3>3. Code(g, p) = CG9(g)
      BY <1>0, <1>1, <2>1, <2>6 DEF Code, RoundCode
    <3>4. Code(g, Succ(g, p)) = CR8(g, 1)
      BY <1>0, <2>1, <3>1, Numbers, <2>6 DEF Code, P, OutCode, ApCode, RoundCode, ServiceCode, BspCode
    <3>5. Begins(CG9(g), <<Op(p), p.i>>, CR8(g, 1))
      BY <1>0, <1>1, <2>1, <2>6, EndBegins, BspBegins DEF Op
    <3>6. QED
      BY <3>1, <3>2, <3>3, <3>4, <3>5 DEF Follows
  <2>7. CASE g.mtrrs /\ Gathers(g) /\ LoopK(g) = 6 /\ TopK(g) = 11 /\ p.k = 11
    <3>1. Succ(g, p) = P("release", 10, 1, FALSE)
      BY <1>0, <1>1, <2>1, <2>7 DEF Succ, RoundSucc
    <3>2. Succ(g, p) \in Place /\ Valid(g, Succ(g, p))
      BY <1>0, <2>1, <3>1, Numbers, <2>7 DEF Valid, P, Place, Odd, Even
    <3>3. Code(g, p) = CTop(g)
      BY <1>0, <1>1, <2>1, <2>7 DEF Code, RoundCode
    <3>4. Code(g, Succ(g, p)) = CR10(g, 1)
      BY <1>0, <2>1, <3>1, Numbers, <2>7 DEF Code, P, OutCode, ApCode, RoundCode, ServiceCode, BspCode
    <3>5. Begins(CTop(g), <<Op(p), p.i>>, CR10(g, 1))
      BY <1>0, <1>1, <2>1, <2>7, EndBegins, BspBegins DEF Op
    <3>6. QED
      BY <3>1, <3>2, <3>3, <3>4, <3>5 DEF Follows
  <2>8. CASE ~g.mtrrs /\ Gathers(g) /\ LoopK(g) = 4 /\ TopK(g) = 5 /\ p.k = 1
    <3>1. Succ(g, p) = P("reset_bsp", 0, 0, FALSE)
      BY <1>0, <1>1, <2>1, <2>8 DEF Succ, RoundSucc
    <3>2. Succ(g, p) \in Place /\ Valid(g, Succ(g, p))
      BY <1>0, <2>1, <3>1, Numbers, <2>8 DEF Valid, P, Place, Odd, Even
    <3>3. Code(g, p) = CG1
      BY <1>0, <1>1, <2>1, <2>8 DEF Code, RoundCode
    <3>4. Code(g, Succ(g, p)) = CEnd1
      BY <1>0, <2>1, <3>1, Numbers, <2>8 DEF Code, P, OutCode, ApCode, RoundCode, ServiceCode, BspCode
    <3>5. Begins(CG1, <<Op(p), p.i>>, CEnd1)
      BY <1>0, <1>1, <2>1, <2>8, EndBegins, BspBegins DEF Op
    <3>6. QED
      BY <3>1, <3>2, <3>3, <3>4, <3>5 DEF Follows
  <2>9. CASE ~g.mtrrs /\ Gathers(g) /\ LoopK(g) = 4 /\ TopK(g) = 5 /\ p.k = 3
    <3>1. Succ(g, p) = P("release", 2, 1, FALSE)
      BY <1>0, <1>1, <2>1, <2>9 DEF Succ, RoundSucc
    <3>2. Succ(g, p) \in Place /\ Valid(g, Succ(g, p))
      BY <1>0, <2>1, <3>1, Numbers, <2>9 DEF Valid, P, Place, Odd, Even
    <3>3. Code(g, p) = CG3
      BY <1>0, <1>1, <2>1, <2>9 DEF Code, RoundCode
    <3>4. Code(g, Succ(g, p)) = CR2(1)
      BY <1>0, <2>1, <3>1, Numbers, <2>9 DEF Code, P, OutCode, ApCode, RoundCode, ServiceCode, BspCode
    <3>5. Begins(CG3, <<Op(p), p.i>>, CR2(1))
      BY <1>0, <1>1, <2>1, <2>9, EndBegins, BspBegins DEF Op
    <3>6. QED
      BY <3>1, <3>2, <3>3, <3>4, <3>5 DEF Follows
  <2>10. CASE ~g.mtrrs /\ Gathers(g) /\ LoopK(g) = 4 /\ TopK(g) = 5 /\ p.k = 5
    <3>1. Succ(g, p) = P("busy", 4, 0, FALSE)
      BY <1>0, <1>1, <2>1, <2>10 DEF Succ, RoundSucc
    <3>2. Succ(g, p) \in Place /\ Valid(g, Succ(g, p))
      BY <1>0, <2>1, <3>1, Numbers, <2>10 DEF Valid, P, Place, Odd, Even
    <3>3. Code(g, p) = CTop(g)
      BY <1>0, <1>1, <2>1, <2>10 DEF Code, RoundCode
    <3>4. Code(g, Succ(g, p)) = CBusy(g)
      BY <1>0, <2>1, <3>1, Numbers, <2>10 DEF Code, P, OutCode, ApCode, RoundCode, ServiceCode,
         BspCode
    <3>5. Begins(CTop(g), <<Op(p), p.i>>, CBusy(g))
      BY <1>0, <1>1, <2>1, <2>10, EndBegins, BspBegins DEF Op
    <3>6. QED
      BY <3>1, <3>2, <3>3, <3>4, <3>5 DEF Follows
  <2>11. CASE ~g.mtrrs /\ ~Gathers(g) /\ LoopK(g) = 4 /\ TopK(g) = 4 /\ p.k = 1
    <3>1. Succ(g, p) = P("reset_bsp", 0, 0, FALSE)
      BY <1>0, <1>1, <2>1, <2>11 DEF Succ, RoundSucc
    <3>2. Succ(g, p) \in Place /\ Valid(g, Succ(g, p))
      BY <1>0, <2>1, <3>1, Numbers, <2>11 DEF Valid, P, Place, Odd, Even
    <3>3. Code(g, p) = CG1
      BY <1>0, <1>1, <2>1, <2>11 DEF Code, RoundCode
    <3>4. Code(g, Succ(g, p)) = CEnd1
      BY <1>0, <2>1, <3>1, Numbers, <2>11 DEF Code, P, OutCode, ApCode, RoundCode, ServiceCode,
         BspCode
    <3>5. Begins(CG1, <<Op(p), p.i>>, CEnd1)
      BY <1>0, <1>1, <2>1, <2>11, EndBegins, BspBegins DEF Op
    <3>6. QED
      BY <3>1, <3>2, <3>3, <3>4, <3>5 DEF Follows
  <2>12. CASE ~g.mtrrs /\ ~Gathers(g) /\ LoopK(g) = 4 /\ TopK(g) = 4 /\ p.k = 3
    <3>1. Succ(g, p) = P("release", 2, 1, FALSE)
      BY <1>0, <1>1, <2>1, <2>12 DEF Succ, RoundSucc
    <3>2. Succ(g, p) \in Place /\ Valid(g, Succ(g, p))
      BY <1>0, <2>1, <3>1, Numbers, <2>12 DEF Valid, P, Place, Odd, Even
    <3>3. Code(g, p) = CG3
      BY <1>0, <1>1, <2>1, <2>12 DEF Code, RoundCode
    <3>4. Code(g, Succ(g, p)) = CR2(1)
      BY <1>0, <2>1, <3>1, Numbers, <2>12 DEF Code, P, OutCode, ApCode, RoundCode, ServiceCode,
         BspCode
    <3>5. Begins(CG3, <<Op(p), p.i>>, CR2(1))
      BY <1>0, <1>1, <2>1, <2>12, EndBegins, BspBegins DEF Op
    <3>6. QED
      BY <3>1, <3>2, <3>3, <3>4, <3>5 DEF Follows
  <2>13. QED
    BY <2>2, <2>3, <2>4, <2>5, <2>6, <2>7, <2>8, <2>9, <2>10, <2>11, <2>12, <2>1, Numbers DEF Odd,
       Even
<1>2. CASE p.s = "release"
  <2>1. p.k \in Even /\ p.k <= TopK(g) /\ p.i \in 1 .. N
    BY <1>0, <1>2 DEF Valid, Odd, Even
  <2>2. CASE g.mtrrs /\ Gathers(g) /\ LoopK(g) = 6 /\ TopK(g) = 11 /\ p.k = 2 /\ p.i < N
    <3>1. Succ(g, p) = P("release", 2, p.i + 1, FALSE)
      BY <1>0, <1>2, <2>1, <2>2 DEF Succ, RoundSucc
    <3>2. Succ(g, p) \in Place /\ Valid(g, Succ(g, p))
      BY <1>0, <2>1, <3>1, Numbers, <2>2 DEF Valid, P, Place, Odd, Even
    <3>3. Code(g, p) = CR2(p.i)
      BY <1>0, <1>2, <2>1, <2>2 DEF Code, RoundCode
    <3>4. Code(g, Succ(g, p)) = CR2(p.i + 1)
      BY <1>0, <2>1, <3>1, Numbers, <2>2 DEF Code, P, OutCode, ApCode, RoundCode, ServiceCode, BspCode
    <3>5. Begins(CR2(p.i), <<Op(p), p.i>>, CR2(p.i + 1))
      BY <1>0, <1>2, <2>1, <2>2, EndBegins, BspBegins DEF Op
    <3>6. QED
      BY <3>1, <3>2, <3>3, <3>4, <3>5 DEF Follows
  <2>3. CASE g.mtrrs /\ Gathers(g) /\ LoopK(g) = 6 /\ TopK(g) = 11 /\ p.k = 2 /\ ~(p.i < N)
    <3>1. Succ(g, p) = P("absent", 1, 0, FALSE)
      BY <1>0, <1>2, <2>1, <2>3 DEF Succ, RoundSucc
    <3>2. Succ(g, p) \in Place /\ Valid(g, Succ(g, p))
      BY <1>0, <2>1, <3>1, Numbers, <2>3 DEF Valid, P, Place, Odd, Even
    <3>3. Code(g, p) = CR2(p.i)
      BY <1>0, <1>2, <2>1, <2>3 DEF Code, RoundCode
    <3>4. Code(g, Succ(g, p)) = CAbs
      BY <1>0, <2>1, <3>1, Numbers, <2>3 DEF Code, P, OutCode, ApCode, RoundCode, ServiceCode, BspCode
    <3>5. Begins(CR2(p.i), <<Op(p), p.i>>, CAbs)
      BY <1>0, <1>2, <2>1, <2>3, EndBegins, BspBegins DEF Op
    <3>6. QED
      BY <3>1, <3>2, <3>3, <3>4, <3>5 DEF Follows
  <2>4. CASE g.mtrrs /\ Gathers(g) /\ LoopK(g) = 6 /\ TopK(g) = 11 /\ p.k = 4 /\ p.i < N
    <3>1. Succ(g, p) = P("release", 4, p.i + 1, FALSE)
      BY <1>0, <1>2, <2>1, <2>4 DEF Succ, RoundSucc
    <3>2. Succ(g, p) \in Place /\ Valid(g, Succ(g, p))
      BY <1>0, <2>1, <3>1, Numbers, <2>4 DEF Valid, P, Place, Odd, Even
    <3>3. Code(g, p) = CR4(p.i)
      BY <1>0, <1>2, <2>1, <2>4 DEF Code, RoundCode
    <3>4. Code(g, Succ(g, p)) = CR4(p.i + 1)
      BY <1>0, <2>1, <3>1, Numbers, <2>4 DEF Code, P, OutCode, ApCode, RoundCode, ServiceCode, BspCode
    <3>5. Begins(CR4(p.i), <<Op(p), p.i>>, CR4(p.i + 1))
      BY <1>0, <1>2, <2>1, <2>4, EndBegins, BspBegins DEF Op
    <3>6. QED
      BY <3>1, <3>2, <3>3, <3>4, <3>5 DEF Follows
  <2>5. CASE g.mtrrs /\ Gathers(g) /\ LoopK(g) = 6 /\ TopK(g) = 11 /\ p.k = 4 /\ ~(p.i < N)
    <3>1. Succ(g, p) = P("gather", 3, 0, FALSE)
      BY <1>0, <1>2, <2>1, <2>5 DEF Succ, RoundSucc
    <3>2. Succ(g, p) \in Place /\ Valid(g, Succ(g, p))
      BY <1>0, <2>1, <3>1, Numbers, <2>5 DEF Valid, P, Place, Odd, Even
    <3>3. Code(g, p) = CR4(p.i)
      BY <1>0, <1>2, <2>1, <2>5 DEF Code, RoundCode
    <3>4. Code(g, Succ(g, p)) = CG3
      BY <1>0, <2>1, <3>1, Numbers, <2>5 DEF Code, P, OutCode, ApCode, RoundCode, ServiceCode, BspCode
    <3>5. Begins(CR4(p.i), <<Op(p), p.i>>, CG3)
      BY <1>0, <1>2, <2>1, <2>5, EndBegins, BspBegins DEF Op
    <3>6. QED
      BY <3>1, <3>2, <3>3, <3>4, <3>5 DEF Follows
  <2>6. CASE g.mtrrs /\ Gathers(g) /\ LoopK(g) = 6 /\ TopK(g) = 11 /\ p.k = 6 /\ p.i < N
    <3>1. Succ(g, p) = P("release", 6, p.i + 1, FALSE)
      BY <1>0, <1>2, <2>1, <2>6 DEF Succ, RoundSucc
    <3>2. Succ(g, p) \in Place /\ Valid(g, Succ(g, p))
      BY <1>0, <2>1, <3>1, Numbers, <2>6 DEF Valid, P, Place, Odd, Even
    <3>3. Code(g, p) = CR6(p.i)
      BY <1>0, <1>2, <2>1, <2>6 DEF Code, RoundCode
    <3>4. Code(g, Succ(g, p)) = CR6(p.i + 1)
      BY <1>0, <2>1, <3>1, Numbers, <2>6 DEF Code, P, OutCode, ApCode, RoundCode, ServiceCode, BspCode
    <3>5. Begins(CR6(p.i), <<Op(p), p.i>>, CR6(p.i + 1))
      BY <1>0, <1>2, <2>1, <2>6, EndBegins, BspBegins DEF Op
    <3>6. QED
      BY <3>1, <3>2, <3>3, <3>4, <3>5 DEF Follows
  <2>7. CASE g.mtrrs /\ Gathers(g) /\ LoopK(g) = 6 /\ TopK(g) = 11 /\ p.k = 6 /\ ~(p.i < N)
    <3>1. Succ(g, p) = P("gather", 5, 0, FALSE)
      BY <1>0, <1>2, <2>1, <2>7 DEF Succ, RoundSucc
    <3>2. Succ(g, p) \in Place /\ Valid(g, Succ(g, p))
      BY <1>0, <2>1, <3>1, Numbers, <2>7 DEF Valid, P, Place, Odd, Even
    <3>3. Code(g, p) = CR6(p.i)
      BY <1>0, <1>2, <2>1, <2>7 DEF Code, RoundCode
    <3>4. Code(g, Succ(g, p)) = CG5
      BY <1>0, <2>1, <3>1, Numbers, <2>7 DEF Code, P, OutCode, ApCode, RoundCode, ServiceCode, BspCode
    <3>5. Begins(CR6(p.i), <<Op(p), p.i>>, CG5)
      BY <1>0, <1>2, <2>1, <2>7, EndBegins, BspBegins DEF Op
    <3>6. QED
      BY <3>1, <3>2, <3>3, <3>4, <3>5 DEF Follows
  <2>8. CASE g.mtrrs /\ Gathers(g) /\ LoopK(g) = 6 /\ TopK(g) = 11 /\ p.k = 8 /\ p.i < N
    <3>1. Succ(g, p) = P("release", 8, p.i + 1, FALSE)
      BY <1>0, <1>2, <2>1, <2>8 DEF Succ, RoundSucc
    <3>2. Succ(g, p) \in Place /\ Valid(g, Succ(g, p))
      BY <1>0, <2>1, <3>1, Numbers, <2>8 DEF Valid, P, Place, Odd, Even
    <3>3. Code(g, p) = CR8(g, p.i)
      BY <1>0, <1>2, <2>1, <2>8 DEF Code, RoundCode
    <3>4. Code(g, Succ(g, p)) = CR8(g, p.i + 1)
      BY <1>0, <2>1, <3>1, Numbers, <2>8 DEF Code, P, OutCode, ApCode, RoundCode, ServiceCode, BspCode
    <3>5. Begins(CR8(g, p.i), <<Op(p), p.i>>, CR8(g, p.i + 1))
      BY <1>0, <1>2, <2>1, <2>8, EndBegins, BspBegins DEF Op
    <3>6. QED
      BY <3>1, <3>2, <3>3, <3>4, <3>5 DEF Follows
  <2>9. CASE g.mtrrs /\ Gathers(g) /\ LoopK(g) = 6 /\ TopK(g) = 11 /\ p.k = 8 /\ ~(p.i < N)
    <3>1. Succ(g, p) = P("gather", 7, 0, FALSE)
      BY <1>0, <1>2, <2>1, <2>9 DEF Succ, RoundSucc
    <3>2. Succ(g, p) \in Place /\ Valid(g, Succ(g, p))
      BY <1>0, <2>1, <3>1, Numbers, <2>9 DEF Valid, P, Place, Odd, Even
    <3>3. Code(g, p) = CR8(g, p.i)
      BY <1>0, <1>2, <2>1, <2>9 DEF Code, RoundCode
    <3>4. Code(g, Succ(g, p)) = CG7(g)
      BY <1>0, <2>1, <3>1, Numbers, <2>9 DEF Code, P, OutCode, ApCode, RoundCode, ServiceCode, BspCode
    <3>5. Begins(CR8(g, p.i), <<Op(p), p.i>>, CG7(g))
      BY <1>0, <1>2, <2>1, <2>9, EndBegins, BspBegins DEF Op
    <3>6. QED
      BY <3>1, <3>2, <3>3, <3>4, <3>5 DEF Follows
  <2>10. CASE g.mtrrs /\ Gathers(g) /\ LoopK(g) = 6 /\ TopK(g) = 11 /\ p.k = 10 /\ p.i < N
    <3>1. Succ(g, p) = P("release", 10, p.i + 1, FALSE)
      BY <1>0, <1>2, <2>1, <2>10 DEF Succ, RoundSucc
    <3>2. Succ(g, p) \in Place /\ Valid(g, Succ(g, p))
      BY <1>0, <2>1, <3>1, Numbers, <2>10 DEF Valid, P, Place, Odd, Even
    <3>3. Code(g, p) = CR10(g, p.i)
      BY <1>0, <1>2, <2>1, <2>10 DEF Code, RoundCode
    <3>4. Code(g, Succ(g, p)) = CR10(g, p.i + 1)
      BY <1>0, <2>1, <3>1, Numbers, <2>10 DEF Code, P, OutCode, ApCode, RoundCode, ServiceCode,
         BspCode
    <3>5. Begins(CR10(g, p.i), <<Op(p), p.i>>, CR10(g, p.i + 1))
      BY <1>0, <1>2, <2>1, <2>10, EndBegins, BspBegins DEF Op
    <3>6. QED
      BY <3>1, <3>2, <3>3, <3>4, <3>5 DEF Follows
  <2>11. CASE g.mtrrs /\ Gathers(g) /\ LoopK(g) = 6 /\ TopK(g) = 11 /\ p.k = 10 /\ ~(p.i < N)
    <3>1. Succ(g, p) = P("gather", 9, 0, FALSE)
      BY <1>0, <1>2, <2>1, <2>11 DEF Succ, RoundSucc
    <3>2. Succ(g, p) \in Place /\ Valid(g, Succ(g, p))
      BY <1>0, <2>1, <3>1, Numbers, <2>11 DEF Valid, P, Place, Odd, Even
    <3>3. Code(g, p) = CR10(g, p.i)
      BY <1>0, <1>2, <2>1, <2>11 DEF Code, RoundCode
    <3>4. Code(g, Succ(g, p)) = CG9(g)
      BY <1>0, <2>1, <3>1, Numbers, <2>11 DEF Code, P, OutCode, ApCode, RoundCode, ServiceCode,
         BspCode
    <3>5. Begins(CR10(g, p.i), <<Op(p), p.i>>, CG9(g))
      BY <1>0, <1>2, <2>1, <2>11, EndBegins, BspBegins DEF Op
    <3>6. QED
      BY <3>1, <3>2, <3>3, <3>4, <3>5 DEF Follows
  <2>12. CASE ~g.mtrrs /\ Gathers(g) /\ LoopK(g) = 4 /\ TopK(g) = 5 /\ p.k = 2 /\ p.i < N
    <3>1. Succ(g, p) = P("release", 2, p.i + 1, FALSE)
      BY <1>0, <1>2, <2>1, <2>12 DEF Succ, RoundSucc
    <3>2. Succ(g, p) \in Place /\ Valid(g, Succ(g, p))
      BY <1>0, <2>1, <3>1, Numbers, <2>12 DEF Valid, P, Place, Odd, Even
    <3>3. Code(g, p) = CR2(p.i)
      BY <1>0, <1>2, <2>1, <2>12 DEF Code, RoundCode
    <3>4. Code(g, Succ(g, p)) = CR2(p.i + 1)
      BY <1>0, <2>1, <3>1, Numbers, <2>12 DEF Code, P, OutCode, ApCode, RoundCode, ServiceCode,
         BspCode
    <3>5. Begins(CR2(p.i), <<Op(p), p.i>>, CR2(p.i + 1))
      BY <1>0, <1>2, <2>1, <2>12, EndBegins, BspBegins DEF Op
    <3>6. QED
      BY <3>1, <3>2, <3>3, <3>4, <3>5 DEF Follows
  <2>13. CASE ~g.mtrrs /\ Gathers(g) /\ LoopK(g) = 4 /\ TopK(g) = 5 /\ p.k = 2 /\ ~(p.i < N)
    <3>1. Succ(g, p) = P("absent", 1, 0, FALSE)
      BY <1>0, <1>2, <2>1, <2>13 DEF Succ, RoundSucc
    <3>2. Succ(g, p) \in Place /\ Valid(g, Succ(g, p))
      BY <1>0, <2>1, <3>1, Numbers, <2>13 DEF Valid, P, Place, Odd, Even
    <3>3. Code(g, p) = CR2(p.i)
      BY <1>0, <1>2, <2>1, <2>13 DEF Code, RoundCode
    <3>4. Code(g, Succ(g, p)) = CAbs
      BY <1>0, <2>1, <3>1, Numbers, <2>13 DEF Code, P, OutCode, ApCode, RoundCode, ServiceCode,
         BspCode
    <3>5. Begins(CR2(p.i), <<Op(p), p.i>>, CAbs)
      BY <1>0, <1>2, <2>1, <2>13, EndBegins, BspBegins DEF Op
    <3>6. QED
      BY <3>1, <3>2, <3>3, <3>4, <3>5 DEF Follows
  <2>14. CASE ~g.mtrrs /\ Gathers(g) /\ LoopK(g) = 4 /\ TopK(g) = 5 /\ p.k = 4 /\ p.i < N
    <3>1. Succ(g, p) = P("release", 4, p.i + 1, FALSE)
      BY <1>0, <1>2, <2>1, <2>14 DEF Succ, RoundSucc
    <3>2. Succ(g, p) \in Place /\ Valid(g, Succ(g, p))
      BY <1>0, <2>1, <3>1, Numbers, <2>14 DEF Valid, P, Place, Odd, Even
    <3>3. Code(g, p) = CR4(p.i)
      BY <1>0, <1>2, <2>1, <2>14 DEF Code, RoundCode
    <3>4. Code(g, Succ(g, p)) = CR4(p.i + 1)
      BY <1>0, <2>1, <3>1, Numbers, <2>14 DEF Code, P, OutCode, ApCode, RoundCode, ServiceCode,
         BspCode
    <3>5. Begins(CR4(p.i), <<Op(p), p.i>>, CR4(p.i + 1))
      BY <1>0, <1>2, <2>1, <2>14, EndBegins, BspBegins DEF Op
    <3>6. QED
      BY <3>1, <3>2, <3>3, <3>4, <3>5 DEF Follows
  <2>15. CASE ~g.mtrrs /\ Gathers(g) /\ LoopK(g) = 4 /\ TopK(g) = 5 /\ p.k = 4 /\ ~(p.i < N)
    <3>1. Succ(g, p) = P("gather", 3, 0, FALSE)
      BY <1>0, <1>2, <2>1, <2>15 DEF Succ, RoundSucc
    <3>2. Succ(g, p) \in Place /\ Valid(g, Succ(g, p))
      BY <1>0, <2>1, <3>1, Numbers, <2>15 DEF Valid, P, Place, Odd, Even
    <3>3. Code(g, p) = CR4(p.i)
      BY <1>0, <1>2, <2>1, <2>15 DEF Code, RoundCode
    <3>4. Code(g, Succ(g, p)) = CG3
      BY <1>0, <2>1, <3>1, Numbers, <2>15 DEF Code, P, OutCode, ApCode, RoundCode, ServiceCode,
         BspCode
    <3>5. Begins(CR4(p.i), <<Op(p), p.i>>, CG3)
      BY <1>0, <1>2, <2>1, <2>15, EndBegins, BspBegins DEF Op
    <3>6. QED
      BY <3>1, <3>2, <3>3, <3>4, <3>5 DEF Follows
  <2>16. CASE ~g.mtrrs /\ ~Gathers(g) /\ LoopK(g) = 4 /\ TopK(g) = 4 /\ p.k = 2 /\ p.i < N
    <3>1. Succ(g, p) = P("release", 2, p.i + 1, FALSE)
      BY <1>0, <1>2, <2>1, <2>16 DEF Succ, RoundSucc
    <3>2. Succ(g, p) \in Place /\ Valid(g, Succ(g, p))
      BY <1>0, <2>1, <3>1, Numbers, <2>16 DEF Valid, P, Place, Odd, Even
    <3>3. Code(g, p) = CR2(p.i)
      BY <1>0, <1>2, <2>1, <2>16 DEF Code, RoundCode
    <3>4. Code(g, Succ(g, p)) = CR2(p.i + 1)
      BY <1>0, <2>1, <3>1, Numbers, <2>16 DEF Code, P, OutCode, ApCode, RoundCode, ServiceCode,
         BspCode
    <3>5. Begins(CR2(p.i), <<Op(p), p.i>>, CR2(p.i + 1))
      BY <1>0, <1>2, <2>1, <2>16, EndBegins, BspBegins DEF Op
    <3>6. QED
      BY <3>1, <3>2, <3>3, <3>4, <3>5 DEF Follows
  <2>17. CASE ~g.mtrrs /\ ~Gathers(g) /\ LoopK(g) = 4 /\ TopK(g) = 4 /\ p.k = 2 /\ ~(p.i < N)
    <3>1. Succ(g, p) = P("absent", 1, 0, FALSE)
      BY <1>0, <1>2, <2>1, <2>17 DEF Succ, RoundSucc
    <3>2. Succ(g, p) \in Place /\ Valid(g, Succ(g, p))
      BY <1>0, <2>1, <3>1, Numbers, <2>17 DEF Valid, P, Place, Odd, Even
    <3>3. Code(g, p) = CR2(p.i)
      BY <1>0, <1>2, <2>1, <2>17 DEF Code, RoundCode
    <3>4. Code(g, Succ(g, p)) = CAbs
      BY <1>0, <2>1, <3>1, Numbers, <2>17 DEF Code, P, OutCode, ApCode, RoundCode, ServiceCode,
         BspCode
    <3>5. Begins(CR2(p.i), <<Op(p), p.i>>, CAbs)
      BY <1>0, <1>2, <2>1, <2>17, EndBegins, BspBegins DEF Op
    <3>6. QED
      BY <3>1, <3>2, <3>3, <3>4, <3>5 DEF Follows
  <2>18. CASE ~g.mtrrs /\ ~Gathers(g) /\ LoopK(g) = 4 /\ TopK(g) = 4 /\ p.k = 4 /\ p.i < N
    <3>1. Succ(g, p) = P("release", 4, p.i + 1, FALSE)
      BY <1>0, <1>2, <2>1, <2>18 DEF Succ, RoundSucc
    <3>2. Succ(g, p) \in Place /\ Valid(g, Succ(g, p))
      BY <1>0, <2>1, <3>1, Numbers, <2>18 DEF Valid, P, Place, Odd, Even
    <3>3. Code(g, p) = CR4(p.i)
      BY <1>0, <1>2, <2>1, <2>18 DEF Code, RoundCode
    <3>4. Code(g, Succ(g, p)) = CR4(p.i + 1)
      BY <1>0, <2>1, <3>1, Numbers, <2>18 DEF Code, P, OutCode, ApCode, RoundCode, ServiceCode,
         BspCode
    <3>5. Begins(CR4(p.i), <<Op(p), p.i>>, CR4(p.i + 1))
      BY <1>0, <1>2, <2>1, <2>18, EndBegins, BspBegins DEF Op
    <3>6. QED
      BY <3>1, <3>2, <3>3, <3>4, <3>5 DEF Follows
  <2>19. CASE ~g.mtrrs /\ ~Gathers(g) /\ LoopK(g) = 4 /\ TopK(g) = 4 /\ p.k = 4 /\ ~(p.i < N)
    <3>1. Succ(g, p) = P("gather", 3, 0, FALSE)
      BY <1>0, <1>2, <2>1, <2>19 DEF Succ, RoundSucc
    <3>2. Succ(g, p) \in Place /\ Valid(g, Succ(g, p))
      BY <1>0, <2>1, <3>1, Numbers, <2>19 DEF Valid, P, Place, Odd, Even
    <3>3. Code(g, p) = CR4(p.i)
      BY <1>0, <1>2, <2>1, <2>19 DEF Code, RoundCode
    <3>4. Code(g, Succ(g, p)) = CG3
      BY <1>0, <2>1, <3>1, Numbers, <2>19 DEF Code, P, OutCode, ApCode, RoundCode, ServiceCode,
         BspCode
    <3>5. Begins(CR4(p.i), <<Op(p), p.i>>, CG3)
      BY <1>0, <1>2, <2>1, <2>19, EndBegins, BspBegins DEF Op
    <3>6. QED
      BY <3>1, <3>2, <3>3, <3>4, <3>5 DEF Follows
  <2>20. QED
    BY <2>2, <2>3, <2>4, <2>5, <2>6, <2>7, <2>8, <2>9, <2>10, <2>11, <2>12, <2>13, <2>14, <2>15,
       <2>16, <2>17, <2>18, <2>19, <2>1, Numbers DEF Odd, Even
<1>3. QED
  BY <1>1, <1>2

\* Places of the BSP in a service.
LEMMA ServiceFollows ==
  ASSUME NEW g \in Configs, NEW p \in Place, Valid(g, p), p.s \in ServiceStages
  PROVE  Follows(g, p)
<1> USE DEF OutStages, PreStages, ApStages, BspStages, LoopStages,
         OneStages, AllStages, ServiceStages
<1>0. /\ 1 \in CPUs /\ N \in Nat /\ CPUs = 1 .. N
      /\ p.k \in 0 .. 11 /\ p.i \in 0 .. N /\ p.b \in BOOLEAN
  BY SmmAssumption DEF CPUs, Place
<1>1. CASE p.s = "wrap"
  <2>1. p.k = LoopK(g) /\ p.i \in 1 .. N
    BY <1>0, <1>1 DEF Valid, Odd, Even
  <2>2. Follows(g, p)
    <3>1. Succ(g, p) = P("not_busy", LoopK(g), 1, FALSE)
      BY <1>0, <1>1, <2>1 DEF Succ, ServiceSucc
    <3>2. Succ(g, p) \in Place /\ Valid(g, Succ(g, p))
      BY <1>0, <2>1, <3>1, Numbers DEF Valid, P, Place, Odd, Even
    <3>3. Code(g, p) = CWrap(g, p.i)
      BY <1>0, <1>1, <2>1 DEF Code, ServiceCode
    <3>4. Code(g, Succ(g, p)) = CNot(g, 1)
      BY <1>0, <2>1, <3>1, Numbers DEF Code, P, OutCode, ApCode, RoundCode, ServiceCode, BspCode
    <3>5. Begins(CWrap(g, p.i), <<Op(p), p.i>>, CNot(g, 1))
      BY <1>0, <1>1, <2>1, ServiceBegins, BspBegins DEF Op
    <3>6. QED
      BY <3>1, <3>2, <3>3, <3>4, <3>5 DEF Follows
  <2>3. QED
    BY <2>2
<1>2. CASE p.s = "wait_one"
  <2>1. p.k = LoopK(g) /\ p.i \in 1 .. N
    BY <1>0, <1>2 DEF Valid, Odd, Even
  <2>2. Follows(g, p)
    <3>1. Succ(g, p) = P("handlers", LoopK(g), 0, FALSE)
      BY <1>0, <1>2, <2>1 DEF Succ, ServiceSucc
    <3>2. Succ(g, p) \in Place /\ Valid(g, Succ(g, p))
      BY <1>0, <2>1, <3>1, Numbers DEF Valid, P, Place, Odd, Even
    <3>3. Code(g, p) = CWait1(g, p.i)
      BY <1>0, <1>2, <2>1 DEF Code, ServiceCode
    <3>4. Code(g, Succ(g, p)) = CHand(g)
      BY <1>0, <2>1, <3>1, Numbers DEF Code, P, OutCode, ApCode, RoundCode, ServiceCode, BspCode
    <3>5. Begins(CWait1(g, p.i), <<Op(p), p.i>>, CHand(g))
      BY <1>0, <1>2, <2>1, ServiceBegins, BspBegins DEF Op
    <3>6. QED
      BY <3>1, <3>2, <3>3, <3>4, <3>5 DEF Follows
  <2>3. QED
    BY <2>2
<1>3. CASE p.s = "acquire"
  <2>1. p.k = LoopK(g) /\ p.i \in 1 .. N
    BY <1>0, <1>3 DEF Valid, Odd, Even
  <2>2. Follows(g, p)
    <3>1. Succ(g, p) = P("schedule", LoopK(g), p.i, p.b)
      BY <1>0, <1>3, <2>1 DEF Succ, ServiceSucc
    <3>2. Succ(g, p) \in Place /\ Valid(g, Succ(g, p))
      BY <1>0, <2>1, <3>1, Numbers DEF Valid, P, Place, Odd, Even
    <3>3. Code(g, p) = CAcq(g, p.i, p.b)
      BY <1>0, <1>3, <2>1 DEF Code, ServiceCode
    <3>4. Code(g, Succ(g, p)) = CSch(g, p.i, p.b)
      BY <1>0, <2>1, <3>1, Numbers DEF Code, P, OutCode, ApCode, RoundCode, ServiceCode, BspCode
    <3>5. Begins(CAcq(g, p.i, p.b), <<Op(p), p.i>>, CSch(g, p.i, p.b))
      BY <1>0, <1>3, <2>1, ServiceBegins, BspBegins DEF Op
    <3>6. QED
      BY <3>1, <3>2, <3>3, <3>4, <3>5 DEF Follows
  <2>3. QED
    BY <2>2
<1>4. CASE p.s = "schedule"
  <2>1. p.k = LoopK(g) /\ p.i \in 1 .. N
    BY <1>0, <1>4 DEF Valid, Odd, Even
  <2>2. Follows(g, p)
    <3>1. Succ(g, p) = P("release_run", LoopK(g), p.i, p.b)
      BY <1>0, <1>4, <2>1 DEF Succ, ServiceSucc
    <3>2. Succ(g, p) \in Place /\ Valid(g, Succ(g, p))
      BY <1>0, <2>1, <3>1, Numbers DEF Valid, P, Place, Odd, Even
    <3>3. Code(g, p) = CSch(g, p.i, p.b)
      BY <1>0, <1>4, <2>1 DEF Code, ServiceCode
    <3>4. Code(g, Succ(g, p)) = CRun(g, p.i, p.b)
      BY <1>0, <2>1, <3>1, Numbers DEF Code, P, OutCode, ApCode, RoundCode, ServiceCode, BspCode
    <3>5. Begins(CSch(g, p.i, p.b), <<Op(p), p.i>>, CRun(g, p.i, p.b))
      BY <1>0, <1>4, <2>1, ServiceBegins, BspBegins DEF Op
    <3>6. QED
      BY <3>1, <3>2, <3>3, <3>4, <3>5 DEF Follows
  <2>3. QED
    BY <2>2
<1>5. CASE p.s = "release_run"
  <2>1. p.k = LoopK(g) /\ p.i \in 1 .. N
    BY <1>0, <1>5 DEF Valid, Odd, Even
  <2>2. CASE p.b
    <3>1. Succ(g, p) = P("wait_one", LoopK(g), p.i, p.b)
      BY <1>0, <1>5, <2>1, <2>2 DEF Succ, ServiceSucc
    <3>2. Succ(g, p) \in Place /\ Valid(g, Succ(g, p))
      BY <1>0, <2>1, <3>1, Numbers, <2>2 DEF Valid, P, Place, Odd, Even
    <3>3. Code(g, p) = CRun(g, p.i, p.b)
      BY <1>0, <1>5, <2>1, <2>2 DEF Code, ServiceCode
    <3>4. Code(g, Succ(g, p)) = CWait1(g, p.i)
      BY <1>0, <2>1, <3>1, Numbers, <2>2 DEF Code, P, OutCode, ApCode, RoundCode, ServiceCode, BspCode
    <3>5. Begins(CRun(g, p.i, p.b), <<Op(p), p.i>>, CWait1(g, p.i))
      BY <1>0, <1>5, <2>1, <2>2, ServiceBegins, BspBegins DEF Op
    <3>6. QED
      BY <3>1, <3>2, <3>3, <3>4, <3>5 DEF Follows
  <2>3. CASE ~p.b
    <3>1. Succ(g, p) = P("handlers", LoopK(g), 0, FALSE)
      BY <1>0, <1>5, <2>1, <2>3 DEF Succ, ServiceSucc
    <3>2. Succ(g, p) \in Place /\ Valid(g, Succ(g, p))
      BY <1>0, <2>1, <3>1, Numbers, <2>3 DEF Valid, P, Place, Odd, Even
    <3>3. Code(g, p) = CRun(g, p.i, p.b)
      BY <1>0, <1>5, <2>1, <2>3 DEF Code, ServiceCode
    <3>4. Code(g, Succ(g, p)) = CHand(g)
      BY <1>0, <2>1, <3>1, Numbers, <2>3 DEF Code, P, OutCode, ApCode, RoundCode, ServiceCode, BspCode
    <3>5. Begins(CRun(g, p.i, p.b), <<Op(p), p.i>>, CHand(g))
      BY <1>0, <1>5, <2>1, <2>3, ServiceBegins, BspBegins DEF Op
    <3>6. QED
      BY <3>1, <3>2, <3>3, <3>4, <3>5 DEF Follows
  <2>4. QED
    BY <2>2, <2>3, <2>1, Numbers DEF Odd, Even
<1>6. CASE p.s = "acquire_present"
  <2>1. p.k = LoopK(g) /\ p.i \in 1 .. N /\ Gathers(g)
    BY <1>0, <1>6 DEF Valid, Odd, Even
  <2>2. CASE p.i < N
    <3>1. Succ(g, p) = P("acquire_present", LoopK(g), p.i + 1, p.b)
      BY <1>0, <1>6, <2>1, <2>2 DEF Succ, ServiceSucc
    <3>2. Succ(g, p) \in Place /\ Valid(g, Succ(g, p))
      BY <1>0, <2>1, <3>1, Numbers, <2>2 DEF Valid, P, Place, Odd, Even
    <3>3. Code(g, p) = CAcqA(g, p.i, p.b)
      BY <1>0, <1>6, <2>1, <2>2 DEF Code, ServiceCode
    <3>4. Code(g, Succ(g, p)) = CAcqA(g, p.i + 1, p.b)
      BY <1>0, <2>1, <3>1, Numbers, <2>2 DEF Code, P, OutCode, ApCode, RoundCode, ServiceCode, BspCode
    <3>5. Begins(CAcqA(g, p.i, p.b), <<Op(p), p.i>>, CAcqA(g, p.i + 1, p.b))
      BY <1>0, <1>6, <2>1, <2>2, ServiceBegins, BspBegins DEF Op
    <3>6. QED
      BY <3>1, <3>2, <3>3, <3>4, <3>5 DEF Follows
  <2>3. CASE ~(p.i < N)
    <3>1. Succ(g, p) = P("schedule_present", LoopK(g), 1, p.b)
      BY <1>0, <1>6, <2>1, <2>3 DEF Succ, ServiceSucc
    <3>2. Succ(g, p) \in Place /\ Valid(g, Succ(g, p))
      BY <1>0, <2>1, <3>1, Numbers, <2>3 DEF Valid, P, Place, Odd, Even
    <3>3. Code(g, p) = CAcqA(g, p.i, p.b)
      BY <1>0, <1>6, <2>1, <2>3 DEF Code, ServiceCode
    <3>4. Code(g, Succ(g, p)) = CSchA(g, 1, p.b)
      BY <1>0, <2>1, <3>1, Numbers, <2>3 DEF Code, P, OutCode, ApCode, RoundCode, ServiceCode, BspCode
    <3>5. Begins(CAcqA(g, p.i, p.b), <<Op(p), p.i>>, CSchA(g, 1, p.b))
      BY <1>0, <1>6, <2>1, <2>3, ServiceBegins, BspBegins DEF Op
    <3>6. QED
      BY <3>1, <3>2, <3>3, <3>4, <3>5 DEF Follows
  <2>4. QED
    BY <2>2, <2>3, <2>1, Numbers DEF Odd, Even
<1>7. CASE p.s = "schedule_present"
  <2>1. p.k = LoopK(g) /\ p.i \in 1 .. N /\ Gathers(g)
    BY <1>0, <1>7 DEF Valid, Odd, Even
  <2>2. CASE p.i < N
    <3>1. Succ(g, p) = P("schedule_present", LoopK(g), p.i + 1, p.b)
      BY <1>0, <1>7, <2>1, <2>2 DEF Succ, ServiceSucc
    <3>2. Succ(g, p) \in Place /\ Valid(g, Succ(g, p))
      BY <1>0, <2>1, <3>1, Numbers, <2>2 DEF Valid, P, Place, Odd, Even
    <3>3. Code(g, p) = CSchA(g, p.i, p.b)
      BY <1>0, <1>7, <2>1, <2>2 DEF Code, ServiceCode
    <3>4. Code(g, Succ(g, p)) = CSchA(g, p.i + 1, p.b)
      BY <1>0, <2>1, <3>1, Numbers, <2>2 DEF Code, P, OutCode, ApCode, RoundCode, ServiceCode, BspCode
    <3>5. Begins(CSchA(g, p.i, p.b), <<Op(p), p.i>>, CSchA(g, p.i + 1, p.b))
      BY <1>0, <1>7, <2>1, <2>2, ServiceBegins, BspBegins DEF Op
    <3>6. QED
      BY <3>1, <3>2, <3>3, <3>4, <3>5 DEF Follows
  <2>3. CASE ~(p.i < N)
    <3>1. Succ(g, p) = P("bcast", LoopK(g), 1, p.b)
      BY <1>0, <1>7, <2>1, <2>3 DEF Succ, ServiceSucc
    <3>2. Succ(g, p) \in Place /\ Valid(g, Succ(g, p))
      BY <1>0, <2>1, <3>1, Numbers, <2>3 DEF Valid, P, Place, Odd, Even
    <3>3. Code(g, p) = CSchA(g, p.i, p.b)
      BY <1>0, <1>7, <2>1, <2>3 DEF Code, ServiceCode
    <3>4. Code(g, Succ(g, p)) = CBc(g, 1, p.b)
      BY <1>0, <2>1, <3>1, Numbers, <2>3 DEF Code, P, OutCode, ApCode, RoundCode, ServiceCode, BspCode
    <3>5. Begins(CSchA(g, p.i, p.b), <<Op(p), p.i>>, CBc(g, 1, p.b))
      BY <1>0, <1>7, <2>1, <2>3, ServiceBegins, BspBegins DEF Op
    <3>6. QED
      BY <3>1, <3>2, <3>3, <3>4, <3>5 DEF Follows
  <2>4. QED
    BY <2>2, <2>3, <2>1, Numbers DEF Odd, Even
<1>8. CASE p.s = "bcast"
  <2>1. p.k = LoopK(g) /\ p.i \in 1 .. N /\ Gathers(g)
    BY <1>0, <1>8 DEF Valid, Odd, Even
  <2>2. CASE p.i < N
    <3>1. Succ(g, p) = P("bcast", LoopK(g), p.i + 1, p.b)
      BY <1>0, <1>8, <2>1, <2>2 DEF Succ, ServiceSucc
    <3>2. Succ(g, p) \in Place /\ Valid(g, Succ(g, p))
      BY <1>0, <2>1, <3>1, Numbers, <2>2 DEF Valid, P, Place, Odd, Even
    <3>3. Code(g, p) = CBc(g, p.i, p.b)
      BY <1>0, <1>8, <2>1, <2>2 DEF Code, ServiceCode
    <3>4. Code(g, Succ(g, p)) = CBc(g, p.i + 1, p.b)
      BY <1>0, <2>1, <3>1, Numbers, <2>2 DEF Code, P, OutCode, ApCode, RoundCode, ServiceCode, BspCode
    <3>5. Begins(CBc(g, p.i, p.b), <<Op(p), p.i>>, CBc(g, p.i + 1, p.b))
      BY <1>0, <1>8, <2>1, <2>2, ServiceBegins, BspBegins DEF Op
    <3>6. QED
      BY <3>1, <3>2, <3>3, <3>4, <3>5 DEF Follows
  <2>3. CASE ~(p.i < N) /\ p.b
    <3>1. Succ(g, p) = P("wait_all", LoopK(g), 1, p.b)
      BY <1>0, <1>8, <2>1, <2>3 DEF Succ, ServiceSucc
    <3>2. Succ(g, p) \in Place /\ Valid(g, Succ(g, p))
      BY <1>0, <2>1, <3>1, Numbers, <2>3 DEF Valid, P, Place, Odd, Even
    <3>3. Code(g, p) = CBc(g, p.i, p.b)
      BY <1>0, <1>8, <2>1, <2>3 DEF Code, ServiceCode
    <3>4. Code(g, Succ(g, p)) = CWaitA(g, 1)
      BY <1>0, <2>1, <3>1, Numbers, <2>3 DEF Code, P, OutCode, ApCode, RoundCode, ServiceCode, BspCode
    <3>5. Begins(CBc(g, p.i, p.b), <<Op(p), p.i>>, CWaitA(g, 1))
      BY <1>0, <1>8, <2>1, <2>3, ServiceBegins, BspBegins DEF Op
    <3>6. QED
      BY <3>1, <3>2, <3>3, <3>4, <3>5 DEF Follows
  <2>4. CASE ~(p.i < N) /\ ~p.b
    <3>1. Succ(g, p) = P("handlers", LoopK(g), 0, FALSE)
      BY <1>0, <1>8, <2>1, <2>4 DEF Succ, ServiceSucc
    <3>2. Succ(g, p) \in Place /\ Valid(g, Succ(g, p))
      BY <1>0, <2>1, <3>1, Numbers, <2>4 DEF Valid, P, Place, Odd, Even
    <3>3. Code(g, p) = CBc(g, p.i, p.b)
      BY <1>0, <1>8, <2>1, <2>4 DEF Code, ServiceCode
    <3>4. Code(g, Succ(g, p)) = CHand(g)
      BY <1>0, <2>1, <3>1, Numbers, <2>4 DEF Code, P, OutCode, ApCode, RoundCode, ServiceCode, BspCode
    <3>5. Begins(CBc(g, p.i, p.b), <<Op(p), p.i>>, CHand(g))
      BY <1>0, <1>8, <2>1, <2>4, ServiceBegins, BspBegins DEF Op
    <3>6. QED
      BY <3>1, <3>2, <3>3, <3>4, <3>5 DEF Follows
  <2>5. QED
    BY <2>2, <2>3, <2>4, <2>1, Numbers DEF Odd, Even
<1>9. CASE p.s = "wait_all"
  <2>1. p.k = LoopK(g) /\ p.i \in 1 .. N /\ Gathers(g)
    BY <1>0, <1>9 DEF Valid, Odd, Even
  <2>2. CASE p.i < N
    <3>1. Succ(g, p) = P("wait_all", LoopK(g), p.i + 1, p.b)
      BY <1>0, <1>9, <2>1, <2>2 DEF Succ, ServiceSucc
    <3>2. Succ(g, p) \in Place /\ Valid(g, Succ(g, p))
      BY <1>0, <2>1, <3>1, Numbers, <2>2 DEF Valid, P, Place, Odd, Even
    <3>3. Code(g, p) = CWaitA(g, p.i)
      BY <1>0, <1>9, <2>1, <2>2 DEF Code, ServiceCode
    <3>4. Code(g, Succ(g, p)) = CWaitA(g, p.i + 1)
      BY <1>0, <2>1, <3>1, Numbers, <2>2 DEF Code, P, OutCode, ApCode, RoundCode, ServiceCode, BspCode
    <3>5. Begins(CWaitA(g, p.i), <<Op(p), p.i>>, CWaitA(g, p.i + 1))
      BY <1>0, <1>9, <2>1, <2>2, ServiceBegins, BspBegins DEF Op
    <3>6. QED
      BY <3>1, <3>2, <3>3, <3>4, <3>5 DEF Follows
  <2>3. CASE ~(p.i < N)
    <3>1. Succ(g, p) = P("handlers", LoopK(g), 0, FALSE)
      BY <1>0, <1>9, <2>1, <2>3 DEF Succ, ServiceSucc
    <3>2. Succ(g, p) \in Place /\ Valid(g, Succ(g, p))
      BY <1>0, <2>1, <3>1, Numbers, <2>3 DEF Valid, P, Place, Odd, Even
    <3>3. Code(g, p) = CWaitA(g, p.i)
      BY <1>0, <1>9, <2>1, <2>3 DEF Code, ServiceCode
    <3>4. Code(g, Succ(g, p)) = CHand(g)
      BY <1>0, <2>1, <3>1, Numbers, <2>3 DEF Code, P, OutCode, ApCode, RoundCode, ServiceCode, BspCode
    <3>5. Begins(CWaitA(g, p.i), <<Op(p), p.i>>, CHand(g))
      BY <1>0, <1>9, <2>1, <2>3, ServiceBegins, BspBegins DEF Op
    <3>6. QED
      BY <3>1, <3>2, <3>3, <3>4, <3>5 DEF Follows
  <2>4. QED
    BY <2>2, <2>3, <2>1, Numbers DEF Odd, Even
<1>10. QED
  BY <1>1, <1>2, <1>3, <1>4, <1>5, <1>6, <1>7, <1>8, <1>9

\* The other places of the BSP.
LEMMA BspFollows ==
  ASSUME NEW g \in Configs, NEW p \in Place, Valid(g, p),
         p.s \in BspStages \ ({"gather", "release"} \cup ServiceStages)
  PROVE  Follows(g, p)
<1> USE DEF OutStages, PreStages, ApStages, BspStages, LoopStages,
         OneStages, AllStages, ServiceStages
<1>0. /\ 1 \in CPUs /\ N \in Nat /\ CPUs = 1 .. N
      /\ p.k \in 0 .. 11 /\ p.i \in 0 .. N /\ p.b \in BOOLEAN
  BY SmmAssumption DEF CPUs, Place
<1>1. CASE p.s = "inside"
  <2>1. p.k = TopK(g) /\ p.i = 0
    BY <1>0, <1>1 DEF Valid, Odd, Even
  <2>2. Follows(g, p)
    <3>1. Succ(g, p) = P("present", TopK(g), 0, FALSE)
      BY <1>0, <1>1, <2>1 DEF Succ, BspSucc
    <3>2. Succ(g, p) \in Place /\ Valid(g, Succ(g, p))
      BY <1>0, <2>1, <3>1, Numbers DEF Valid, P, Place, Odd, Even
    <3>3. Code(g, p) = CIns(g)
      BY <1>0, <1>1, <2>1 DEF Code, BspCode
    <3>4. Code(g, Succ(g, p)) = CPres(g)
      BY <1>0, <2>1, <3>1, Numbers DEF Code, P, OutCode, ApCode, RoundCode, ServiceCode, BspCode
    <3>5. Begins(CIns(g), <<Op(p), p.i>>, CPres(g))
      BY <1>0, <1>1, <2>1, EndBegins, BspBegins DEF Op
    <3>6. QED
      BY <3>1, <3>2, <3>3, <3>4, <3>5 DEF Follows
  <2>3. QED
    BY <2>2
<1>2. CASE p.s = "present"
  <2>1. p.k = TopK(g) /\ p.i = 0
    BY <1>0, <1>2 DEF Valid, Odd, Even
  <2>2. CASE Gathers(g)
    <3>1. Succ(g, p) = P("arrive", TopK(g), 0, FALSE)
      BY <1>0, <1>2, <2>1, <2>2 DEF Succ, BspSucc
    <3>2. Succ(g, p) \in Place /\ Valid(g, Succ(g, p))
      BY <1>0, <2>1, <3>1, Numbers, <2>2 DEF Valid, P, Place, Odd, Even
    <3>3. Code(g, p) = CPres(g)
      BY <1>0, <1>2, <2>1, <2>2 DEF Code, BspCode
    <3>4. Code(g, Succ(g, p)) = CArr(g)
      BY <1>0, <2>1, <3>1, Numbers, <2>2 DEF Code, P, OutCode, ApCode, RoundCode, ServiceCode, BspCode
    <3>5. Begins(CPres(g), <<Op(p), p.i>>, CArr(g))
      BY <1>0, <1>2, <2>1, <2>2, EndBegins, BspBegins DEF Op
    <3>6. QED
      BY <3>1, <3>2, <3>3, <3>4, <3>5 DEF Follows
  <2>3. CASE ~Gathers(g)
    <3>1. Succ(g, p) = P("busy", LoopK(g), 0, FALSE)
      BY <1>0, <1>2, <2>1, <2>3 DEF Succ, BspSucc
    <3>2. Succ(g, p) \in Place /\ Valid(g, Succ(g, p))
      BY <1>0, <2>1, <3>1, Numbers, <2>3 DEF Valid, P, Place, Odd, Even
    <3>3. Code(g, p) = CPres(g)
      BY <1>0, <1>2, <2>1, <2>3 DEF Code, BspCode
    <3>4. Code(g, Succ(g, p)) = CBusy(g)
      BY <1>0, <2>1, <3>1, Numbers, <2>3 DEF Code, P, OutCode, ApCode, RoundCode, ServiceCode, BspCode
    <3>5. Begins(CPres(g), <<Op(p), p.i>>, CBusy(g))
      BY <1>0, <1>2, <2>1, <2>3, EndBegins, BspBegins DEF Op
    <3>6. QED
      BY <3>1, <3>2, <3>3, <3>4, <3>5 DEF Follows
  <2>4. QED
    BY <2>2, <2>3, <2>1, Numbers DEF Odd, Even
<1>3. CASE p.s = "arrive"
  <2>1. p.k = TopK(g) /\ p.i = 0 /\ Gathers(g)
    BY <1>0, <1>3 DEF Valid, Odd, Even
  <2>2. Follows(g, p)
    <3>1. Succ(g, p) = P("send_ipi", TopK(g), 0, FALSE)
      BY <1>0, <1>3, <2>1 DEF Succ, BspSucc
    <3>2. Succ(g, p) \in Place /\ Valid(g, Succ(g, p))
      BY <1>0, <2>1, <3>1, Numbers DEF Valid, P, Place, Odd, Even
    <3>3. Code(g, p) = CArr(g)
      BY <1>0, <1>3, <2>1 DEF Code, BspCode
    <3>4. Code(g, Succ(g, p)) = CSend(g)
      BY <1>0, <2>1, <3>1, Numbers DEF Code, P, OutCode, ApCode, RoundCode, ServiceCode, BspCode
    <3>5. Begins(CArr(g), <<Op(p), p.i>>, CSend(g))
      BY <1>0, <1>3, <2>1, EndBegins, BspBegins DEF Op
    <3>6. QED
      BY <3>1, <3>2, <3>3, <3>4, <3>5 DEF Follows
  <2>3. QED
    BY <2>2
<1>4. CASE p.s = "send_ipi"
  <2>1. p.k = TopK(g) /\ p.i = 0 /\ Gathers(g)
    BY <1>0, <1>4 DEF Valid, Odd, Even
  <2>2. Follows(g, p)
    <3>1. Succ(g, p) = P("sync", TopK(g), 0, FALSE)
      BY <1>0, <1>4, <2>1 DEF Succ, BspSucc
    <3>2. Succ(g, p) \in Place /\ Valid(g, Succ(g, p))
      BY <1>0, <2>1, <3>1, Numbers DEF Valid, P, Place, Odd, Even
    <3>3. Code(g, p) = CSend(g)
      BY <1>0, <1>4, <2>1 DEF Code, BspCode
    <3>4. Code(g, Succ(g, p)) = CSyncF(g)
      BY <1>0, <2>1, <3>1, Numbers DEF Code, P, OutCode, ApCode, RoundCode, ServiceCode, BspCode
    <3>5. Begins(CSend(g), <<Op(p), p.i>>, CSyncF(g))
      BY <1>0, <1>4, <2>1, EndBegins, BspBegins DEF Op
    <3>6. QED
      BY <3>1, <3>2, <3>3, <3>4, <3>5 DEF Follows
  <2>3. QED
    BY <2>2
<1>5. CASE p.s = "sync"
  <2>1. p.k = TopK(g) /\ p.i = 0
    BY <1>0, <1>5 DEF Valid, Odd, Even
  <2>2. CASE Gathers(g)
    <3>1. Succ(g, p) = P("lockdown", TopK(g), 0, FALSE)
      BY <1>0, <1>5, <2>1, <2>2 DEF Succ, BspSucc
    <3>2. Succ(g, p) \in Place /\ Valid(g, Succ(g, p))
      BY <1>0, <2>1, <3>1, Numbers, <2>2 DEF Valid, P, Place, Odd, Even
    <3>3. Code(g, p) = CSyncF(g)
      BY <1>0, <1>5, <2>1, <2>2 DEF Code, BspCode
    <3>4. Code(g, Succ(g, p)) = CLockF(g)
      BY <1>0, <2>1, <3>1, Numbers, <2>2 DEF Code, P, OutCode, ApCode, RoundCode, ServiceCode, BspCode
    <3>5. Begins(CSyncF(g), <<Op(p), p.i>>, CLockF(g))
      BY <1>0, <1>5, <2>1, <2>2, EndBegins, BspBegins DEF Op
    <3>6. QED
      BY <3>1, <3>2, <3>3, <3>4, <3>5 DEF Follows
  <2>3. CASE ~Gathers(g)
    <3>1. Succ(g, p) = P("lockdown", TopK(g), 0, FALSE)
      BY <1>0, <1>5, <2>1, <2>3 DEF Succ, BspSucc
    <3>2. Succ(g, p) \in Place /\ Valid(g, Succ(g, p))
      BY <1>0, <2>1, <3>1, Numbers, <2>3 DEF Valid, P, Place, Odd, Even
    <3>3. Code(g, p) = CSyncR(g)
      BY <1>0, <1>5, <2>1, <2>3 DEF Code, BspCode
    <3>4. Code(g, Succ(g, p)) = CLockR(g)
      BY <1>0, <2>1, <3>1, Numbers, <2>3 DEF Code, P, OutCode, ApCode, RoundCode, ServiceCode, BspCode
    <3>5. Begins(CSyncR(g), <<Op(p), p.i>>, CLockR(g))
      BY <1>0, <1>5, <2>1, <2>3, EndBegins, BspBegins DEF Op
    <3>6. QED
      BY <3>1, <3>2, <3>3, <3>4, <3>5 DEF Follows
  <2>4. QED
    BY <2>2, <2>3, <2>1, Numbers DEF Odd, Even
<1>6. CASE p.s = "lockdown"
  <2>1. p.k = TopK(g) /\ p.i = 0
    BY <1>0, <1>6 DEF Valid, Odd, Even
  <2>2. CASE g.mtrrs /\ Gathers(g) /\ LoopK(g) = 6 /\ TopK(g) = 11
    <3>1. Succ(g, p) = P("gather", TopK(g), 0, FALSE)
      BY <1>0, <1>6, <2>1, <2>2 DEF Succ, BspSucc
    <3>2. Succ(g, p) \in Place /\ Valid(g, Succ(g, p))
      BY <1>0, <2>1, <3>1, Numbers, <2>2 DEF Valid, P, Place, Odd, Even
    <3>3. Code(g, p) = CLockF(g)
      BY <1>0, <1>6, <2>1, <2>2 DEF Code, BspCode
    <3>4. Code(g, Succ(g, p)) = CTop(g)
      BY <1>0, <2>1, <3>1, Numbers, <2>2 DEF Code, P, OutCode, ApCode, RoundCode, ServiceCode, BspCode
    <3>5. Begins(CLockF(g), <<Op(p), p.i>>, CTop(g))
      BY <1>0, <1>6, <2>1, <2>2, EndBegins, BspBegins DEF Op
    <3>6. QED
      BY <3>1, <3>2, <3>3, <3>4, <3>5 DEF Follows
  <2>3. CASE ~g.mtrrs /\ Gathers(g) /\ LoopK(g) = 4 /\ TopK(g) = 5
    <3>1. Succ(g, p) = P("gather", TopK(g), 0, FALSE)
      BY <1>0, <1>6, <2>1, <2>3 DEF Succ, BspSucc
    <3>2. Succ(g, p) \in Place /\ Valid(g, Succ(g, p))
      BY <1>0, <2>1, <3>1, Numbers, <2>3 DEF Valid, P, Place, Odd, Even
    <3>3. Code(g, p) = CLockF(g)
      BY <1>0, <1>6, <2>1, <2>3 DEF Code, BspCode
    <3>4. Code(g, Succ(g, p)) = CTop(g)
      BY <1>0, <2>1, <3>1, Numbers, <2>3 DEF Code, P, OutCode, ApCode, RoundCode, ServiceCode, BspCode
    <3>5. Begins(CLockF(g), <<Op(p), p.i>>, CTop(g))
      BY <1>0, <1>6, <2>1, <2>3, EndBegins, BspBegins DEF Op
    <3>6. QED
      BY <3>1, <3>2, <3>3, <3>4, <3>5 DEF Follows
  <2>4. CASE ~g.mtrrs /\ ~Gathers(g) /\ LoopK(g) = 4 /\ TopK(g) = 4
    <3>1. Succ(g, p) = P("all_present", LoopK(g), 0, FALSE)
      BY <1>0, <1>6, <2>1, <2>4 DEF Succ, BspSucc
    <3>2. Succ(g, p) \in Place /\ Valid(g, Succ(g, p))
      BY <1>0, <2>1, <3>1, Numbers, <2>4 DEF Valid, P, Place, Odd, Even
    <3>3. Code(g, p) = CLockR(g)
      BY <1>0, <1>6, <2>1, <2>4 DEF Code, BspCode
    <3>4. Code(g, Succ(g, p)) = CAll(g)
      BY <1>0, <2>1, <3>1, Numbers, <2>4 DEF Code, P, OutCode, ApCode, RoundCode, ServiceCode, BspCode
    <3>5. Begins(CLockR(g), <<Op(p), p.i>>, CAll(g))
      BY <1>0, <1>6, <2>1, <2>4, EndBegins, BspBegins DEF Op
    <3>6. QED
      BY <3>1, <3>2, <3>3, <3>4, <3>5 DEF Follows
  <2>5. QED
    BY <2>2, <2>3, <2>4, <2>1, Numbers DEF Odd, Even
<1>7. CASE p.s = "busy"
  <2>1. p.k = LoopK(g) /\ p.i = 0
    BY <1>0, <1>7 DEF Valid, Odd, Even
  <2>2. Follows(g, p)
    <3>1. Succ(g, p) = P("handlers", LoopK(g), 0, FALSE)
      BY <1>0, <1>7, <2>1 DEF Succ, BspSucc
    <3>2. Succ(g, p) \in Place /\ Valid(g, Succ(g, p))
      BY <1>0, <2>1, <3>1, Numbers DEF Valid, P, Place, Odd, Even
    <3>3. Code(g, p) = CBusy(g)
      BY <1>0, <1>7, <2>1 DEF Code, BspCode
    <3>4. Code(g, Succ(g, p)) = CHand(g)
      BY <1>0, <2>1, <3>1, Numbers DEF Code, P, OutCode, ApCode, RoundCode, ServiceCode, BspCode
    <3>5. Begins(CBusy(g), <<Op(p), p.i>>, CHand(g))
      BY <1>0, <1>7, <2>1, EndBegins, BspBegins DEF Op
    <3>6. QED
      BY <3>1, <3>2, <3>3, <3>4, <3>5 DEF Follows
  <2>3. QED
    BY <2>2
<1>8. CASE p.s = "handlers"
  <2>1. p.k = LoopK(g) /\ p.i = 0
    BY <1>0, <1>8 DEF Valid, Odd, Even
  <2>2. Follows(g, p)
    <3>1. Succ(g, p) = P("not_busy", LoopK(g), 1, FALSE)
      BY <1>0, <1>8, <2>1 DEF Succ, BspSucc
    <3>2. Succ(g, p) \in Place /\ Valid(g, Succ(g, p))
      BY <1>0, <2>1, <3>1, Numbers DEF Valid, P, Place, Odd, Even
    <3>3. Code(g, p) = CHand(g)
      BY <1>0, <1>8, <2>1 DEF Code, BspCode
    <3>4. Code(g, Succ(g, p)) = CNot(g, 1)
      BY <1>0, <2>1, <3>1, Numbers DEF Code, P, OutCode, ApCode, RoundCode, ServiceCode, BspCode
    <3>5. Begins(CHand(g), <<Op(p), p.i>>, CNot(g, 1))
      BY <1>0, <1>8, <2>1, EndBegins, BspBegins DEF Op
    <3>6. QED
      BY <3>1, <3>2, <3>3, <3>4, <3>5 DEF Follows
  <2>3. QED
    BY <2>2
<1>9. CASE p.s = "not_busy"
  <2>1. p.k = LoopK(g) /\ p.i \in 1 .. N
    BY <1>0, <1>9 DEF Valid, Odd, Even
  <2>2. CASE p.i < N
    <3>1. Succ(g, p) = P("not_busy", LoopK(g), p.i + 1, FALSE)
      BY <1>0, <1>9, <2>1, <2>2 DEF Succ, BspSucc
    <3>2. Succ(g, p) \in Place /\ Valid(g, Succ(g, p))
      BY <1>0, <2>1, <3>1, Numbers, <2>2 DEF Valid, P, Place, Odd, Even
    <3>3. Code(g, p) = CNot(g, p.i)
      BY <1>0, <1>9, <2>1, <2>2 DEF Code, BspCode
    <3>4. Code(g, Succ(g, p)) = CNot(g, p.i + 1)
      BY <1>0, <2>1, <3>1, Numbers, <2>2 DEF Code, P, OutCode, ApCode, RoundCode, ServiceCode, BspCode
    <3>5. Begins(CNot(g, p.i), <<Op(p), p.i>>, CNot(g, p.i + 1))
      BY <1>0, <1>9, <2>1, <2>2, EndBegins, BspBegins DEF Op
    <3>6. QED
      BY <3>1, <3>2, <3>3, <3>4, <3>5 DEF Follows
  <2>3. CASE ~(p.i < N) /\ Gathers(g)
    <3>1. Succ(g, p) = P("outside", LoopK(g), 0, FALSE)
      BY <1>0, <1>9, <2>1, <2>3 DEF Succ, BspSucc
    <3>2. Succ(g, p) \in Place /\ Valid(g, Succ(g, p))
      BY <1>0, <2>1, <3>1, Numbers, <2>3 DEF Valid, P, Place, Odd, Even
    <3>3. Code(g, p) = CNot(g, p.i)
      BY <1>0, <1>9, <2>1, <2>3 DEF Code, BspCode
    <3>4. Code(g, Succ(g, p)) = COut(g)
      BY <1>0, <2>1, <3>1, Numbers, <2>3 DEF Code, P, OutCode, ApCode, RoundCode, ServiceCode, BspCode
    <3>5. Begins(CNot(g, p.i), <<Op(p), p.i>>, COut(g))
      BY <1>0, <1>9, <2>1, <2>3, EndBegins, BspBegins DEF Op
    <3>6. QED
      BY <3>1, <3>2, <3>3, <3>4, <3>5 DEF Follows
  <2>4. CASE ~(p.i < N) /\ ~Gathers(g)
    <3>1. Succ(g, p) = P("sync", TopK(g), 0, FALSE)
      BY <1>0, <1>9, <2>1, <2>4 DEF Succ, BspSucc
    <3>2. Succ(g, p) \in Place /\ Valid(g, Succ(g, p))
      BY <1>0, <2>1, <3>1, Numbers, <2>4 DEF Valid, P, Place, Odd, Even
    <3>3. Code(g, p) = CNot(g, p.i)
      BY <1>0, <1>9, <2>1, <2>4 DEF Code, BspCode
    <3>4. Code(g, Succ(g, p)) = CSyncR(g)
      BY <1>0, <2>1, <3>1, Numbers, <2>4 DEF Code, P, OutCode, ApCode, RoundCode, ServiceCode, BspCode
    <3>5. Begins(CNot(g, p.i), <<Op(p), p.i>>, CSyncR(g))
      BY <1>0, <1>9, <2>1, <2>4, EndBegins, BspBegins DEF Op
    <3>6. QED
      BY <3>1, <3>2, <3>3, <3>4, <3>5 DEF Follows
  <2>5. QED
    BY <2>2, <2>3, <2>4, <2>1, Numbers DEF Odd, Even
<1>10. CASE p.s = "all_present"
  <2>1. p.k = LoopK(g) /\ p.i = 0 /\ ~Gathers(g)
    BY <1>0, <1>10 DEF Valid, Odd, Even
  <2>2. Follows(g, p)
    <3>1. Succ(g, p) = P("outside", LoopK(g), 0, FALSE)
      BY <1>0, <1>10, <2>1 DEF Succ, BspSucc
    <3>2. Succ(g, p) \in Place /\ Valid(g, Succ(g, p))
      BY <1>0, <2>1, <3>1, Numbers DEF Valid, P, Place, Odd, Even
    <3>3. Code(g, p) = CAll(g)
      BY <1>0, <1>10, <2>1 DEF Code, BspCode
    <3>4. Code(g, Succ(g, p)) = COut(g)
      BY <1>0, <2>1, <3>1, Numbers DEF Code, P, OutCode, ApCode, RoundCode, ServiceCode, BspCode
    <3>5. Begins(CAll(g), <<Op(p), p.i>>, COut(g))
      BY <1>0, <1>10, <2>1, EndBegins, BspBegins DEF Op
    <3>6. QED
      BY <3>1, <3>2, <3>3, <3>4, <3>5 DEF Follows
  <2>3. QED
    BY <2>2
<1>11. CASE p.s = "outside"
  <2>1. p.k = LoopK(g) /\ p.i = 0
    BY <1>0, <1>11 DEF Valid, Odd, Even
  <2>2. CASE g.mtrrs /\ Gathers(g) /\ LoopK(g) = 6 /\ TopK(g) = 11
    <3>1. Succ(g, p) = P("release", 6, 1, FALSE)
      BY <1>0, <1>11, <2>1, <2>2 DEF Succ, BspSucc
    <3>2. Succ(g, p) \in Place /\ Valid(g, Succ(g, p))
      BY <1>0, <2>1, <3>1, Numbers, <2>2 DEF Valid, P, Place, Odd, Even
    <3>3. Code(g, p) = COut(g)
      BY <1>0, <1>11, <2>1, <2>2 DEF Code, BspCode
    <3>4. Code(g, Succ(g, p)) = CR6(1)
      BY <1>0, <2>1, <3>1, Numbers, <2>2 DEF Code, P, OutCode, ApCode, RoundCode, ServiceCode, BspCode
    <3>5. Begins(COut(g), <<Op(p), p.i>>, CR6(1))
      BY <1>0, <1>11, <2>1, <2>2, EndBegins, BspBegins DEF Op
    <3>6. QED
      BY <3>1, <3>2, <3>3, <3>4, <3>5 DEF Follows
  <2>3. CASE ~g.mtrrs /\ Gathers(g) /\ LoopK(g) = 4 /\ TopK(g) = 5
    <3>1. Succ(g, p) = P("release", 4, 1, FALSE)
      BY <1>0, <1>11, <2>1, <2>3 DEF Succ, BspSucc
    <3>2. Succ(g, p) \in Place /\ Valid(g, Succ(g, p))
      BY <1>0, <2>1, <3>1, Numbers, <2>3 DEF Valid, P, Place, Odd, Even
    <3>3. Code(g, p) = COut(g)
      BY <1>0, <1>11, <2>1, <2>3 DEF Code, BspCode
    <3>4. Code(g, Succ(g, p)) = CR4(1)
      BY <1>0, <2>1, <3>1, Numbers, <2>3 DEF Code, P, OutCode, ApCode, RoundCode, ServiceCode, BspCode
    <3>5. Begins(COut(g), <<Op(p), p.i>>, CR4(1))
      BY <1>0, <1>11, <2>1, <2>3, EndBegins, BspBegins DEF Op
    <3>6. QED
      BY <3>1, <3>2, <3>3, <3>4, <3>5 DEF Follows
  <2>4. CASE ~g.mtrrs /\ ~Gathers(g) /\ LoopK(g) = 4 /\ TopK(g) = 4
    <3>1. Succ(g, p) = P("release", 4, 1, FALSE)
      BY <1>0, <1>11, <2>1, <2>4 DEF Succ, BspSucc
    <3>2. Succ(g, p) \in Place /\ Valid(g, Succ(g, p))
      BY <1>0, <2>1, <3>1, Numbers, <2>4 DEF Valid, P, Place, Odd, Even
    <3>3. Code(g, p) = COut(g)
      BY <1>0, <1>11, <2>1, <2>4 DEF Code, BspCode
    <3>4. Code(g, Succ(g, p)) = CR4(1)
      BY <1>0, <2>1, <3>1, Numbers, <2>4 DEF Code, P, OutCode, ApCode, RoundCode, ServiceCode, BspCode
    <3>5. Begins(COut(g), <<Op(p), p.i>>, CR4(1))
      BY <1>0, <1>11, <2>1, <2>4, EndBegins, BspBegins DEF Op
    <3>6. QED
      BY <3>1, <3>2, <3>3, <3>4, <3>5 DEF Follows
  <2>5. QED
    BY <2>2, <2>3, <2>4, <2>1, Numbers DEF Odd, Even
<1>12. CASE p.s = "absent"
  <2>1. p.k = 1 /\ p.i = 0
    BY <1>0, <1>12 DEF Valid, Odd, Even
  <2>2. Follows(g, p)
    <3>1. Succ(g, p) = P("gather", 1, 0, FALSE)
      BY <1>0, <1>12, <2>1 DEF Succ, BspSucc
    <3>2. Succ(g, p) \in Place /\ Valid(g, Succ(g, p))
      BY <1>0, <2>1, <3>1, Numbers DEF Valid, P, Place, Odd, Even
    <3>3. Code(g, p) = CAbs
      BY <1>0, <1>12, <2>1 DEF Code, BspCode
    <3>4. Code(g, Succ(g, p)) = CG1
      BY <1>0, <2>1, <3>1, Numbers DEF Code, P, OutCode, ApCode, RoundCode, ServiceCode, BspCode
    <3>5. Begins(CAbs, <<Op(p), p.i>>, CG1)
      BY <1>0, <1>12, <2>1, EndBegins, BspBegins DEF Op
    <3>6. QED
      BY <3>1, <3>2, <3>3, <3>4, <3>5 DEF Follows
  <2>3. QED
    BY <2>2
<1>13. CASE p.s = "reset_bsp"
  <2>1. p.k = 0 /\ p.i = 0
    BY <1>0, <1>13 DEF Valid, Odd, Even
  <2>2. Follows(g, p)
    <3>1. Succ(g, p) = P("reset_counter", 0, 0, FALSE)
      BY <1>0, <1>13, <2>1 DEF Succ, BspSucc
    <3>2. Succ(g, p) \in Place /\ Valid(g, Succ(g, p))
      BY <1>0, <2>1, <3>1, Numbers DEF Valid, P, Place, Odd, Even
    <3>3. Code(g, p) = CEnd1
      BY <1>0, <1>13, <2>1 DEF Code, BspCode
    <3>4. Code(g, Succ(g, p)) = CEnd2
      BY <1>0, <2>1, <3>1, Numbers DEF Code, P, OutCode, ApCode, RoundCode, ServiceCode, BspCode
    <3>5. Begins(CEnd1, <<Op(p), p.i>>, CEnd2)
      BY <1>0, <1>13, <2>1, EndBegins, BspBegins DEF Op
    <3>6. QED
      BY <3>1, <3>2, <3>3, <3>4, <3>5 DEF Follows
  <2>3. QED
    BY <2>2
<1>14. CASE p.s = "reset_counter"
  <2>1. p.k = 0 /\ p.i = 0
    BY <1>0, <1>14 DEF Valid, Odd, Even
  <2>2. Follows(g, p)
    <3>1. Succ(g, p) = P("reset_sync", 0, 0, FALSE)
      BY <1>0, <1>14, <2>1 DEF Succ, BspSucc
    <3>2. Succ(g, p) \in Place /\ Valid(g, Succ(g, p))
      BY <1>0, <2>1, <3>1, Numbers DEF Valid, P, Place, Odd, Even
    <3>3. Code(g, p) = CEnd2
      BY <1>0, <1>14, <2>1 DEF Code, BspCode
    <3>4. Code(g, Succ(g, p)) = CEnd3
      BY <1>0, <2>1, <3>1, Numbers DEF Code, P, OutCode, ApCode, RoundCode, ServiceCode, BspCode
    <3>5. Begins(CEnd2, <<Op(p), p.i>>, CEnd3)
      BY <1>0, <1>14, <2>1, EndBegins, BspBegins DEF Op
    <3>6. QED
      BY <3>1, <3>2, <3>3, <3>4, <3>5 DEF Follows
  <2>3. QED
    BY <2>2
<1>15. QED
  BY <1>1, <1>2, <1>3, <1>4, <1>5, <1>6, <1>7, <1>8, <1>9, <1>10, <1>11, <1>12, <1>13, <1>14

\* The program at a place begins with the step of its stage, and what follows is the
\* program at the next place.
LEMMA CodeFollows ==
  ASSUME NEW g \in Configs, NEW p \in Place, Valid(g, p), p.s # "out"
  PROVE  Follows(g, p)
<1>1. p.s \in OutStages \cup PreStages \cup ApStages \cup BspStages
  BY DEF Place
<1>2. QED
  BY <1>1, OutFollows, PreFollows, ApFollows, RoundFollows, ServiceFollows, BspFollows

-----------------------------------------------------------------------------
(***************************************************************************)
(* The functions of the model as programs at places.                       *)
(***************************************************************************)
\* The code at every place is a program.
LEMMA CodeSeq ==
  ASSUME NEW g \in Configs, NEW p \in Place, Valid(g, p)
  PROVE  Code(g, p) \in Seq(Items)
<1>1. CASE p.s = "out"
  <2>1. Code(g, p) = <<>>
    BY <1>1 DEF Code, OutCode, OutStages
  <2>2. QED
    BY <2>1
<1>2. CASE p.s # "out"
  BY <1>2, CodeFollows DEF Follows, Begins
<1>3. QED
  BY <1>1, <1>2

\* Concatenation, for the provers to rewrite with.
Then(x, y) == x \o y

\* Programs are closed under concatenation.
LEMMA ThenSeq ==
  ASSUME NEW x \in Seq(Items), NEW y \in Seq(Items)
  PROVE  Then(x, y) \in Seq(Items)
BY ConcatProperties DEF Then

\* Concatenation is associative,
LEMMA ThenAssoc ==
  ASSUME NEW x \in Seq(Items), NEW y \in Seq(Items), NEW z \in Seq(Items)
  PROVE  Then(Then(x, y), z) = Then(x, Then(y, z))
BY ConcatAssociative DEF Then

\* and the empty program is its unit.
LEMMA ThenEmpty ==
  ASSUME NEW x \in Seq(Items)
  PROVE  Then(<<>>, x) = x /\ Then(x, <<>>) = x
BY ConcatEmptySeq DEF Then

\* Single steps are programs.
LEMMA OneSeq ==
  ASSUME NEW op \in BspOps \cup ApOps, NEW i \in 0 .. N
  PROVE  One(op, i) \in Seq(Items) /\ Step(op) \in Seq(Items) /\ Step(op) = One(op, 0)
BY SmmAssumption DEF One, Step, Items

\* Loops over the processors are programs.
LEMMA ForAllSeq ==
  ASSUME NEW op \in BspOps \cup ApOps
  PROVE  ForAll(op) \in Seq(Items) /\ ForAll(op) = From(op, 1)
<1>1. 1 \in 1 .. N + 1
  BY SmmAssumption
<1>2. QED
  BY <1>1, ForAllIsFrom, FromSeq

\* A list of three, four or five parts in front of a program.
LEMMA ThenThree ==
  ASSUME NEW a \in Seq(Items), NEW b \in Seq(Items), NEW c \in Seq(Items), NEW r \in Seq(Items)
  PROVE  /\ Then(Then(a, b), c) \in Seq(Items)
         /\ Then(Then(Then(a, b), c), r) = Then(a, Then(b, Then(c, r)))
BY ThenSeq, ThenAssoc

\* The same for four parts.
LEMMA ThenFour ==
  ASSUME NEW a \in Seq(Items), NEW b \in Seq(Items), NEW c \in Seq(Items), NEW d \in Seq(Items),
         NEW r \in Seq(Items)
  PROVE  /\ Then(Then(Then(a, b), c), d) \in Seq(Items)
         /\ Then(Then(Then(Then(a, b), c), d), r) = Then(a, Then(b, Then(c, Then(d, r))))
<1> DEFINE abc == Then(Then(a, b), c)
<1>1. abc \in Seq(Items) /\ Then(d, r) \in Seq(Items)
  BY ThenThree, ThenSeq
<1>2. Then(abc, Then(d, r)) = Then(a, Then(b, Then(c, Then(d, r))))
  BY <1>1, ThenThree
<1> HIDE DEF abc
<1>3. Then(abc, d) \in Seq(Items) /\ Then(Then(abc, d), r) = Then(abc, Then(d, r))
  BY <1>1, ThenSeq, ThenAssoc
<1>4. QED
  BY <1>2, <1>3 DEF abc

\* The same for five parts.
LEMMA ThenFive ==
  ASSUME NEW a \in Seq(Items), NEW b \in Seq(Items), NEW c \in Seq(Items), NEW d \in Seq(Items),
         NEW e \in Seq(Items), NEW r \in Seq(Items)
  PROVE  /\ Then(Then(Then(Then(a, b), c), d), e) \in Seq(Items)
         /\ Then(Then(Then(Then(Then(a, b), c), d), e), r)
              = Then(a, Then(b, Then(c, Then(d, Then(e, r)))))
<1> DEFINE abcd == Then(Then(Then(a, b), c), d)
<1>1. abcd \in Seq(Items) /\ Then(e, r) \in Seq(Items)
  BY ThenFour, ThenSeq
<1>2. Then(abcd, Then(e, r)) = Then(a, Then(b, Then(c, Then(d, Then(e, r)))))
  BY <1>1, ThenFour
<1> HIDE DEF abcd
<1>3. Then(abcd, e) \in Seq(Items) /\ Then(Then(abcd, e), r) = Then(abcd, Then(e, r))
  BY <1>1, ThenSeq, ThenAssoc
<1>4. QED
  BY <1>2, <1>3 DEF abcd

\* BSPHandler is the program at its first place.
LEMMA BspHandlerCode ==
  ASSUME config \in Configs
  PROVE  BSPHandler \o Step("leave") = Code(config, P("inside", TopK(config), 0, FALSE))
<1> DEFINE g == config
           S(op) == Step(op)
           R == ForAll("release")
           a1 == S("inside")
           a2 == S("present")
           a3 == When(Gathers(g),
                     Then(Then(Then(Then(S("arrive"), S("send_ipi")), S("sync")), S("lockdown")), S("gather")))
           a4 == When(g.mtrrs, Then(Then(Then(R, S("gather")), R), S("gather")))
           a5 == S("busy")
           a6 == S("handlers")
           a7 == ForAll("not_busy")
           a8 == When(~Gathers(g), Then(Then(S("sync"), S("lockdown")), S("all_present")))
           a9 == S("outside")
           a10 == R
           a11 == S("gather")
           a12 == When(g.mtrrs, Then(R, S("gather")))
           a13 == R
           a14 == S("absent")
           a15 == S("gather")
           a16 == S("reset_bsp")
           a17 == S("reset_counter")
           a18 == S("reset_sync")
           p1 == a1
           p2 == Then(p1, a2)
           p3 == Then(p2, a3)
           p4 == Then(p3, a4)
           p5 == Then(p4, a5)
           p6 == Then(p5, a6)
           p7 == Then(p6, a7)
           p8 == Then(p7, a8)
           p9 == Then(p8, a9)
           p10 == Then(p9, a10)
           p11 == Then(p10, a11)
           p12 == Then(p11, a12)
           p13 == Then(p12, a13)
           p14 == Then(p13, a14)
           p15 == Then(p14, a15)
           p16 == Then(p15, a16)
           p17 == Then(p16, a17)
           p18 == Then(p17, a18)
<1>1. BSPHandler = p18
  BY DEF BSPHandler, GatherFirst, Gathers, Tradition, Mtrrs, ReleaseAllAPs, Then
<1>2. \A op \in BspOps \cup ApOps : S(op) \in Seq(Items)
  BY OneSeq, SmmAssumption
<1>3. R \in Seq(Items) /\ R = From("release", 1)
  BY ForAllSeq, OpsAreOps
<1>4. ForAll("not_busy") \in Seq(Items) /\ ForAll("not_busy") = From("not_busy", 1)
  BY ForAllSeq, OpsAreOps
<1>5. /\ S("arrive") \in Seq(Items) /\ S("send_ipi") \in Seq(Items) /\ S("sync") \in Seq(Items)
      /\ S("lockdown") \in Seq(Items) /\ S("gather") \in Seq(Items) /\ S("all_present") \in Seq(Items)
  BY <1>2, OpsAreOps
<1>6. <<>> \in Seq(Items)
  OBVIOUS
<1> HIDE DEF S, R
<1>7. a1 \in Seq(Items)
  BY <1>2, OpsAreOps
<1>8. a2 \in Seq(Items)
  BY <1>2, OpsAreOps
<1>9. a3 \in Seq(Items)
  BY <1>3, <1>5, <1>6, ThenSeq, ThenThree, ThenFour, ThenFive, SMTT(40) DEF When
<1>10. a4 \in Seq(Items)
  BY <1>3, <1>5, <1>6, ThenSeq, ThenThree, ThenFour, ThenFive DEF When
<1>11. a5 \in Seq(Items)
  BY <1>2, OpsAreOps
<1>12. a6 \in Seq(Items)
  BY <1>2, OpsAreOps
<1>13. a7 \in Seq(Items)
  BY <1>4
<1>14. a8 \in Seq(Items)
  BY <1>3, <1>5, <1>6, ThenSeq, ThenThree, ThenFour, ThenFive DEF When
<1>15. a9 \in Seq(Items)
  BY <1>2, OpsAreOps
<1>16. a10 \in Seq(Items)
  BY <1>3
<1>17. a11 \in Seq(Items)
  BY <1>2, OpsAreOps
<1>18. a12 \in Seq(Items)
  BY <1>3, <1>5, <1>6, ThenSeq, ThenThree, ThenFour, ThenFive DEF When
<1>19. a13 \in Seq(Items)
  BY <1>3
<1>20. a14 \in Seq(Items)
  BY <1>2, OpsAreOps
<1>21. a15 \in Seq(Items)
  BY <1>2, OpsAreOps
<1>22. a16 \in Seq(Items)
  BY <1>2, OpsAreOps
<1>23. a17 \in Seq(Items)
  BY <1>2, OpsAreOps
<1>24. a18 \in Seq(Items)
  BY <1>2, OpsAreOps
<1>25. 1 \in CPUs
  BY SmmAssumption DEF CPUs
<1>26. CLeave \in Seq(Items)
  BY <1>25, LeaveSeq, EndBegins, BspBegins, BeginsSeq
<1>27. CEnd3 \in Seq(Items)
  BY <1>25, LeaveSeq, EndBegins, BspBegins, BeginsSeq
<1>28. CEnd2 \in Seq(Items)
  BY <1>25, LeaveSeq, EndBegins, BspBegins, BeginsSeq
<1>29. CEnd1 \in Seq(Items)
  BY <1>25, LeaveSeq, EndBegins, BspBegins, BeginsSeq
<1>30. CG1 \in Seq(Items)
  BY <1>25, LeaveSeq, EndBegins, BspBegins, BeginsSeq
<1>31. CAbs \in Seq(Items)
  BY <1>25, LeaveSeq, EndBegins, BspBegins, BeginsSeq
<1>32. CR2(1) \in Seq(Items)
  BY <1>25, LeaveSeq, EndBegins, BspBegins, BeginsSeq
<1>33. (IF g.mtrrs THEN CR4(1) ELSE CR2(1)) \in Seq(Items)
  BY <1>25, LeaveSeq, EndBegins, BspBegins, BeginsSeq
<1>34. (IF g.mtrrs THEN CG5 ELSE CG3) \in Seq(Items)
  BY <1>25, LeaveSeq, EndBegins, BspBegins, BeginsSeq
<1>35. (IF g.mtrrs THEN CR6(1) ELSE CR4(1)) \in Seq(Items)
  BY <1>25, LeaveSeq, EndBegins, BspBegins, BeginsSeq
<1>36. COut(g) \in Seq(Items)
  BY <1>25, LeaveSeq, EndBegins, BspBegins, BeginsSeq
<1>37. (IF Gathers(g) THEN COut(g) ELSE CSyncR(g)) \in Seq(Items)
  BY <1>25, LeaveSeq, EndBegins, BspBegins, BeginsSeq
<1>38. CNot(g, 1) \in Seq(Items)
  BY <1>25, LeaveSeq, EndBegins, BspBegins, BeginsSeq
<1>39. CHand(g) \in Seq(Items)
  BY <1>25, LeaveSeq, EndBegins, BspBegins, BeginsSeq
<1>40. CBusy(g) \in Seq(Items)
  BY <1>25, LeaveSeq, EndBegins, BspBegins, BeginsSeq
<1>41. (IF g.mtrrs THEN CR10(g, 1) ELSE CBusy(g)) \in Seq(Items)
  BY <1>25, LeaveSeq, EndBegins, BspBegins, BeginsSeq
<1>42. (IF Gathers(g) THEN CArr(g) ELSE CBusy(g)) \in Seq(Items)
  BY <1>25, LeaveSeq, EndBegins, BspBegins, BeginsSeq
<1>43. CPres(g) \in Seq(Items)
  BY <1>25, LeaveSeq, EndBegins, BspBegins, BeginsSeq
<1>44. CIns(g) \in Seq(Items)
  BY <1>25, LeaveSeq, EndBegins, BspBegins, BeginsSeq
<1>45. Then(a18, CLeave) = CEnd3
  BY <1>3, <1>4 DEF CEnd3, S, Then
<1>46. Then(a17, CEnd3) = CEnd2
  BY <1>3, <1>4 DEF CEnd2, S, Then
<1>47. Then(a16, CEnd2) = CEnd1
  BY <1>3, <1>4 DEF CEnd1, S, Then
<1>48. Then(a15, CEnd1) = CG1
  BY <1>3, <1>4 DEF CG1, S, Then
<1>49. Then(a14, CG1) = CAbs
  BY <1>3, <1>4 DEF CAbs, S, Then
<1>50. Then(a13, CAbs) = CR2(1)
  BY <1>3, <1>4 DEF CR2, S, Then
<1>51. Then(a12, CR2(1)) = (IF g.mtrrs THEN CR4(1) ELSE CR2(1))
  <2>1. CASE g.mtrrs
    <3>1. a12 = Then(R, S("gather"))
      BY <2>1 DEF When
    <3>2. Then(a12, CR2(1)) = Then(R, Then(S("gather"), CR2(1)))
      BY <3>1, <1>3, <1>5, <1>32, ThenAssoc
    <3>3. QED
      BY <2>1, <3>2, <1>3 DEF CR4, CG3, S, Then
  <2>2. CASE ~(g.mtrrs)
    BY <2>2, <1>32, ThenEmpty, Numbers DEF When
  <2>3. QED
    BY <2>1, <2>2
<1>52. Then(a11, (IF g.mtrrs THEN CR4(1) ELSE CR2(1))) = (IF g.mtrrs THEN CG5 ELSE CG3)
  BY <1>3, <1>4 DEF CG5, CG3, S, Then
<1>53. Then(a10, (IF g.mtrrs THEN CG5 ELSE CG3)) = (IF g.mtrrs THEN CR6(1) ELSE CR4(1))
  BY <1>3, <1>4 DEF CR6, CR4, S, Then
<1>54. Then(a9, (IF g.mtrrs THEN CR6(1) ELSE CR4(1))) = COut(g)
  BY <1>3, <1>4 DEF COut, S, Then
<1>55. Then(a8, COut(g)) = (IF Gathers(g) THEN COut(g) ELSE CSyncR(g))
  <2>1. CASE ~Gathers(g)
    <3>1. a8 = Then(Then(S("sync"), S("lockdown")), S("all_present"))
      BY <2>1 DEF When
    <3>2. Then(a8, COut(g)) = Then(S("sync"), Then(S("lockdown"), Then(S("all_present"), COut(g))))
      BY <3>1, <1>3, <1>5, <1>36, ThenThree
    <3>3. QED
      BY <2>1, <3>2, <1>3 DEF CSyncR, CLockR, CAll, S, Then
  <2>2. CASE ~(~Gathers(g))
    BY <2>2, <1>36, ThenEmpty, Numbers DEF When
  <2>3. QED
    BY <2>1, <2>2
<1>56. Then(a7, (IF Gathers(g) THEN COut(g) ELSE CSyncR(g))) = CNot(g, 1)
  BY <1>3, <1>4 DEF CNot, S, Then
<1>57. Then(a6, CNot(g, 1)) = CHand(g)
  BY <1>3, <1>4 DEF CHand, S, Then
<1>58. Then(a5, CHand(g)) = CBusy(g)
  BY <1>3, <1>4 DEF CBusy, S, Then
<1>59. Then(a4, CBusy(g)) = (IF g.mtrrs THEN CR10(g, 1) ELSE CBusy(g))
  <2>1. CASE g.mtrrs
    <3>1. a4 = Then(Then(Then(R, S("gather")), R), S("gather"))
      BY <2>1 DEF When
    <3>2. Then(a4, CBusy(g)) = Then(R, Then(S("gather"), Then(R, Then(S("gather"), CBusy(g)))))
      BY <3>1, <1>3, <1>5, <1>40, ThenFour
    <3>3. QED
      BY <2>1, <3>2, <1>3 DEF CR10, CG9, CR8, CG7, S, Then
  <2>2. CASE ~(g.mtrrs)
    BY <2>2, <1>40, ThenEmpty, Numbers DEF When
  <2>3. QED
    BY <2>1, <2>2
<1>60. Then(a3, (IF g.mtrrs THEN CR10(g, 1) ELSE CBusy(g))) = (IF Gathers(g) THEN CArr(g) ELSE CBusy(g))
  <2>1. CASE Gathers(g)
    <3>1. a3 = Then(Then(Then(Then(S("arrive"), S("send_ipi")), S("sync")), S("lockdown")), S("gather"))
      BY <2>1 DEF When
    <3>2. Then(a3, (IF g.mtrrs THEN CR10(g, 1) ELSE CBusy(g)))
            = Then(S("arrive"), Then(S("send_ipi"), Then(S("sync"), Then(S("lockdown"), Then(S("gather"),
                (IF g.mtrrs THEN CR10(g, 1) ELSE CBusy(g)))))))
      BY <3>1, <1>3, <1>5, <1>41, ThenFive
    <3>3. QED
      BY <2>1, <3>2, <1>3 DEF CArr, CSend, CSyncF, CLockF, CTop, S, Then
  <2>2. CASE ~(Gathers(g))
    BY <2>2, <1>41, ThenEmpty, Numbers DEF When
  <2>3. QED
    BY <2>1, <2>2
<1>61. Then(a2, (IF Gathers(g) THEN CArr(g) ELSE CBusy(g))) = CPres(g)
  BY <1>3, <1>4 DEF CPres, S, Then
<1>62. Then(a1, CPres(g)) = CIns(g)
  BY <1>3, <1>4 DEF CIns, S, Then
<1> HIDE DEF a1, a2, a3, a4, a5, a6, a7, a8, a9, a10, a11, a12, a13, a14, a15, a16, a17, a18
<1>63. p2 \in Seq(Items)
  BY <1>7, <1>8, ThenSeq
<1>64. p3 \in Seq(Items)
  BY <1>63, <1>9, ThenSeq
<1>65. p4 \in Seq(Items)
  BY <1>64, <1>10, ThenSeq
<1>66. p5 \in Seq(Items)
  BY <1>65, <1>11, ThenSeq
<1>67. p6 \in Seq(Items)
  BY <1>66, <1>12, ThenSeq
<1>68. p7 \in Seq(Items)
  BY <1>67, <1>13, ThenSeq
<1>69. p8 \in Seq(Items)
  BY <1>68, <1>14, ThenSeq
<1>70. p9 \in Seq(Items)
  BY <1>69, <1>15, ThenSeq
<1>71. p10 \in Seq(Items)
  BY <1>70, <1>16, ThenSeq
<1>72. p11 \in Seq(Items)
  BY <1>71, <1>17, ThenSeq
<1>73. p12 \in Seq(Items)
  BY <1>72, <1>18, ThenSeq
<1>74. p13 \in Seq(Items)
  BY <1>73, <1>19, ThenSeq
<1>75. p14 \in Seq(Items)
  BY <1>74, <1>20, ThenSeq
<1>76. p15 \in Seq(Items)
  BY <1>75, <1>21, ThenSeq
<1>77. p16 \in Seq(Items)
  BY <1>76, <1>22, ThenSeq
<1>78. p17 \in Seq(Items)
  BY <1>77, <1>23, ThenSeq
<1>79. p18 \in Seq(Items)
  BY <1>78, <1>24, ThenSeq
<1> HIDE DEF p2, p3, p4, p5, p6, p7, p8, p9, p10, p11, p12, p13, p14, p15, p16, p17, p18
<1>80. Then(p18, CLeave) = Then(p17, CEnd3)
  BY <1>78, <1>24, <1>26, <1>45, ThenAssoc DEF p18
<1>81. Then(p18, CLeave) = Then(p16, CEnd2)
  <2>1. Then(p17, CEnd3) = Then(p16, Then(a17, CEnd3))
    BY <1>77, <1>23, <1>27, ThenAssoc DEF p17
  <2>2. QED
    BY <1>80, <2>1, <1>46
<1>82. Then(p18, CLeave) = Then(p15, CEnd1)
  <2>1. Then(p16, CEnd2) = Then(p15, Then(a16, CEnd2))
    BY <1>76, <1>22, <1>28, ThenAssoc DEF p16
  <2>2. QED
    BY <1>81, <2>1, <1>47
<1>83. Then(p18, CLeave) = Then(p14, CG1)
  <2>1. Then(p15, CEnd1) = Then(p14, Then(a15, CEnd1))
    BY <1>75, <1>21, <1>29, ThenAssoc DEF p15
  <2>2. QED
    BY <1>82, <2>1, <1>48
<1>84. Then(p18, CLeave) = Then(p13, CAbs)
  <2>1. Then(p14, CG1) = Then(p13, Then(a14, CG1))
    BY <1>74, <1>20, <1>30, ThenAssoc DEF p14
  <2>2. QED
    BY <1>83, <2>1, <1>49
<1>85. Then(p18, CLeave) = Then(p12, CR2(1))
  <2>1. Then(p13, CAbs) = Then(p12, Then(a13, CAbs))
    BY <1>73, <1>19, <1>31, ThenAssoc DEF p13
  <2>2. QED
    BY <1>84, <2>1, <1>50
<1>86. Then(p18, CLeave) = Then(p11, (IF g.mtrrs THEN CR4(1) ELSE CR2(1)))
  <2>1. Then(p12, CR2(1)) = Then(p11, Then(a12, CR2(1)))
    BY <1>72, <1>18, <1>32, ThenAssoc DEF p12
  <2>2. QED
    BY <1>85, <2>1, <1>51
<1>87. Then(p18, CLeave) = Then(p10, (IF g.mtrrs THEN CG5 ELSE CG3))
  <2>1. Then(p11, (IF g.mtrrs THEN CR4(1) ELSE CR2(1)))
          = Then(p10, Then(a11, (IF g.mtrrs THEN CR4(1) ELSE CR2(1))))
    BY <1>71, <1>17, <1>33, ThenAssoc DEF p11
  <2>2. QED
    BY <1>86, <2>1, <1>52
<1>88. Then(p18, CLeave) = Then(p9, (IF g.mtrrs THEN CR6(1) ELSE CR4(1)))
  <2>1. Then(p10, (IF g.mtrrs THEN CG5 ELSE CG3)) = Then(p9, Then(a10, (IF g.mtrrs THEN CG5 ELSE CG3)))
    BY <1>70, <1>16, <1>34, ThenAssoc DEF p10
  <2>2. QED
    BY <1>87, <2>1, <1>53
<1>89. Then(p18, CLeave) = Then(p8, COut(g))
  <2>1. Then(p9, (IF g.mtrrs THEN CR6(1) ELSE CR4(1)))
          = Then(p8, Then(a9, (IF g.mtrrs THEN CR6(1) ELSE CR4(1))))
    BY <1>69, <1>15, <1>35, ThenAssoc DEF p9
  <2>2. QED
    BY <1>88, <2>1, <1>54
<1>90. Then(p18, CLeave) = Then(p7, (IF Gathers(g) THEN COut(g) ELSE CSyncR(g)))
  <2>1. Then(p8, COut(g)) = Then(p7, Then(a8, COut(g)))
    BY <1>68, <1>14, <1>36, ThenAssoc DEF p8
  <2>2. QED
    BY <1>89, <2>1, <1>55
<1>91. Then(p18, CLeave) = Then(p6, CNot(g, 1))
  <2>1. Then(p7, (IF Gathers(g) THEN COut(g) ELSE CSyncR(g)))
          = Then(p6, Then(a7, (IF Gathers(g) THEN COut(g) ELSE CSyncR(g))))
    BY <1>67, <1>13, <1>37, ThenAssoc DEF p7
  <2>2. QED
    BY <1>90, <2>1, <1>56
<1>92. Then(p18, CLeave) = Then(p5, CHand(g))
  <2>1. Then(p6, CNot(g, 1)) = Then(p5, Then(a6, CNot(g, 1)))
    BY <1>66, <1>12, <1>38, ThenAssoc DEF p6
  <2>2. QED
    BY <1>91, <2>1, <1>57
<1>93. Then(p18, CLeave) = Then(p4, CBusy(g))
  <2>1. Then(p5, CHand(g)) = Then(p4, Then(a5, CHand(g)))
    BY <1>65, <1>11, <1>39, ThenAssoc DEF p5
  <2>2. QED
    BY <1>92, <2>1, <1>58
<1>94. Then(p18, CLeave) = Then(p3, (IF g.mtrrs THEN CR10(g, 1) ELSE CBusy(g)))
  <2>1. Then(p4, CBusy(g)) = Then(p3, Then(a4, CBusy(g)))
    BY <1>64, <1>10, <1>40, ThenAssoc DEF p4
  <2>2. QED
    BY <1>93, <2>1, <1>59
<1>95. Then(p18, CLeave) = Then(p2, (IF Gathers(g) THEN CArr(g) ELSE CBusy(g)))
  <2>1. Then(p3, (IF g.mtrrs THEN CR10(g, 1) ELSE CBusy(g)))
          = Then(p2, Then(a3, (IF g.mtrrs THEN CR10(g, 1) ELSE CBusy(g))))
    BY <1>63, <1>9, <1>41, ThenAssoc DEF p3
  <2>2. QED
    BY <1>94, <2>1, <1>60
<1>96. Then(p18, CLeave) = Then(p1, CPres(g))
  <2>1. Then(p2, (IF Gathers(g) THEN CArr(g) ELSE CBusy(g)))
          = Then(p1, Then(a2, (IF Gathers(g) THEN CArr(g) ELSE CBusy(g))))
    BY <1>7, <1>8, <1>42, ThenAssoc DEF p2
  <2>2. QED
    BY <1>95, <2>1, <1>61
<1>97. Then(p18, CLeave) = CIns(g)
  BY <1>96, <1>62
<1>98. Code(g, P("inside", TopK(g), 0, FALSE)) = CIns(g)
  BY DEF Code, P, BspCode, OutStages, PreStages, ApStages, LoopStages, ServiceStages, OneStages,
     AllStages
<1>99. QED
  BY <1>1, <1>97, <1>98 DEF CLeave, Then

\* APHandler, from where the BSP is known to be in SMM, and its exit.
LEMMA ApHandlerCode ==
  ASSUME config \in Configs
  PROVE  /\ APHandler \o Step("leave") = Code(config, P("find_bsp", TopK(config), 0, FALSE))
         /\ APExit \o Step("leave") = Code(config, P("signal", LoopK(config) - 1, 0, FALSE))
<1> DEFINE g == config
           S(op) == Step(op)
<1>1. \A op \in BspOps \cup ApOps : S(op) \in Seq(Items)
  BY OneSeq, SmmAssumption
<1>2. /\ S("find_bsp") \in Seq(Items) /\ S("ap_present") \in Seq(Items) /\ S("signal") \in Seq(Items)
      /\ S("wait") \in Seq(Items) /\ S("ap_absent") \in Seq(Items) /\ S("idle") \in Seq(Items)
  BY <1>1, OpsAreOps
<1>3. <<>> \in Seq(Items) /\ CLeave \in Seq(Items)
  BY LeaveSeq
<1> DEFINE w1 == When(Gathers(g), S("signal"))
           w2 == When(g.mtrrs, Then(Then(Then(S("wait"), S("signal")), S("wait")), S("signal")))
           w3 == When(g.mtrrs, Then(S("signal"), S("wait")))
<1>4. w1 \in Seq(Items) /\ w2 \in Seq(Items) /\ w3 \in Seq(Items)
  BY <1>2, <1>3, ThenFour, ThenSeq DEF When
<1>5. APHandler = Then(Then(Then(Then(S("find_bsp"), S("ap_present")), w1), w2), S("idle"))
  BY DEF APHandler, GatherFirst, Gathers, Tradition, Mtrrs, Then
<1>6. APExit = Then(Then(Then(Then(w3, S("signal")), S("wait")), S("ap_absent")), S("signal"))
  BY DEF APExit, Mtrrs, Then
<1>7. AIdle("idle") \in Seq(Items) /\ AIdle("idle") = Then(S("idle"), CLeave)
  BY <1>2, <1>3, ThenSeq DEF AIdle, Then
<1>8. Then(w2, AIdle("idle")) = IF g.mtrrs THEN AW10 ELSE AIdle("idle")
  <2>1. CASE g.mtrrs
    <3>1. w2 = Then(Then(Then(S("wait"), S("signal")), S("wait")), S("signal"))
      BY <2>1 DEF When
    <3>2. Then(w2, AIdle("idle"))
            = Then(S("wait"), Then(S("signal"), Then(S("wait"), Then(S("signal"), AIdle("idle")))))
      BY <3>1, <1>2, <1>7, ThenFour
    <3>3. QED
      BY <2>1, <3>2 DEF AW10, AS9, AW8, AS7, Then
  <2>2. CASE ~g.mtrrs
    BY <2>2, <1>7, ThenEmpty DEF When
  <2>3. QED
    BY <2>1, <2>2
<1>9. Then(w1, Then(w2, AIdle("idle"))) =
        IF g.mtrrs THEN AS11 ELSE IF Gathers(g) THEN AS7 ELSE AIdle("idle")
  <2>1. AW10 \in Seq(Items)
    BY ApBegins, BeginsSeq
  <2>2. QED
    BY <2>1, <1>7, <1>8, Numbers, ThenEmpty DEF When, AS11, AS7, Then
<1> HIDE DEF S, w1, w2, w3
<1>10. Then(APHandler, CLeave)
         = Then(S("find_bsp"), Then(S("ap_present"), Then(w1, Then(w2, Then(S("idle"), CLeave)))))
  BY <1>2, <1>3, <1>4, <1>5, ThenFive
<1>11. Then(APHandler, CLeave) = AFind(g)
  BY <1>7, <1>9, <1>10 DEF AFind, APre, S, Then
<1>12. Then(APExit, CLeave)
         = Then(w3, Then(S("signal"), Then(S("wait"), Then(S("ap_absent"), Then(S("signal"), CLeave)))))
  BY <1>2, <1>3, <1>4, <1>6, ThenFive
<1>13. Then(S("signal"), Then(S("wait"), Then(S("ap_absent"), Then(S("signal"), CLeave)))) = AS3
  BY DEF S, AS3, AW2, AAbs, AS1, Then
<1>14. AS3 \in Seq(Items)
  BY ApBegins, BeginsSeq
<1>15. Then(APExit, CLeave) = IF g.mtrrs THEN AS5 ELSE AS3
  <2>1. CASE g.mtrrs
    <3>1. w3 = Then(S("signal"), S("wait"))
      BY <2>1 DEF w3, When
    <3>2. Then(w3, AS3) = Then(S("signal"), Then(S("wait"), AS3))
      BY <3>1, <1>2, <1>14, ThenAssoc
    <3>3. QED
      BY <2>1, <3>2, <1>12, <1>13 DEF AS5, AW4, S, Then
  <2>2. CASE ~g.mtrrs
    BY <2>2, <1>12, <1>13, <1>14, ThenEmpty DEF When, w3
  <2>3. QED
    BY <2>1, <2>2
<1>16. Code(g, P("find_bsp", TopK(g), 0, FALSE)) = AFind(g)
  BY DEF Code, P, ApCode, OutStages, PreStages, ApStages
<1>17. Code(g, P("signal", LoopK(g) - 1, 0, FALSE)) = IF g.mtrrs THEN AS5 ELSE AS3
  BY Numbers DEF Code, P, ApCode, OutStages, PreStages, ApStages
<1>18. QED
  BY <1>11, <1>15, <1>16, <1>17 DEF CLeave, Then

\* Three steps, one after the other.
LEMMA Triple ==
  ASSUME NEW S, NEW x \in S, NEW y \in S, NEW z \in S
  PROVE  (<<x>> \o <<y>>) \o <<z>> = <<x, y, z>>
<1> DEFINE a == <<x>>
           b == <<y>>
           c == <<z>>
           d == <<x, y, z>>
<1>1. /\ a \in Seq(S) /\ Len(a) = 1 /\ a[1] = x
      /\ b \in Seq(S) /\ Len(b) = 1 /\ b[1] = y
      /\ c \in Seq(S) /\ Len(c) = 1 /\ c[1] = z
  OBVIOUS
<1>2. d \in Seq(S) /\ Len(d) = 3 /\ d[1] = x /\ d[2] = y /\ d[3] = z
  OBVIOUS
<1> HIDE DEF a, b, c, d
<1> DEFINE ab == a \o b
<1>3. /\ ab \in Seq(S) /\ Len(ab) = Len(a) + Len(b)
      /\ \A j \in 1 .. Len(a) + Len(b) : ab[j] = IF j <= Len(a) THEN a[j] ELSE b[j - Len(a)]
  BY <1>1, ConcatProperties
<1> HIDE DEF ab
<1>4. ab \in Seq(S) /\ Len(ab) = 2 /\ ab[1] = x /\ ab[2] = y
  BY <1>1, <1>3
<1> DEFINE abc == ab \o c
<1>5. /\ abc \in Seq(S) /\ Len(abc) = Len(ab) + Len(c)
      /\ \A j \in 1 .. Len(ab) + Len(c) : abc[j] = IF j <= Len(ab) THEN ab[j] ELSE c[j - Len(ab)]
  <2>1. ab \in Seq(S) /\ c \in Seq(S)
    BY <1>1, <1>3
  <2>2. QED
    BY ONLY <2>1, ConcatProperties
<1> HIDE DEF abc
<1>6. Len(abc) = 3 /\ abc[1] = x /\ abc[2] = y /\ abc[3] = z
  BY <1>1, <1>4, <1>5
<1>7. \A j \in 1 .. 3 : abc[j] = d[j]
  BY <1>2, <1>6
<1>8. abc = d
  BY <1>2, <1>5, <1>6, <1>7, SeqEqual
<1>9. QED
  BY <1>8 DEF abc, ab, a, b, c, d

\* The services.
LEMMA StartupCode ==
  ASSUME NEW g \in Configs, NEW i \in CPUs, NEW b \in BOOLEAN
  PROVE  /\ (StartupThisAp(i, b) \o Step("handlers")) \o CNot(g, 1) = CAcq(g, i, b)
         /\ (StartupAllAPs(b) \o Step("handlers")) \o CNot(g, 1) = CAcqA(g, 1, b)
<1>0. 1 \in CPUs /\ i \in 0 .. N /\ 0 \in 0 .. N
  BY SmmAssumption DEF CPUs
<1> DEFINE H == Step("handlers")
           o1 == One("acquire", i)
           o2 == One("schedule", i)
           o3 == One("release_run", i)
           o4 == One("not_busy", i)
<1>1. CNot(g, 1) \in Seq(Items) /\ CHand(g) \in Seq(Items) /\ CHand(g) = Then(H, CNot(g, 1))
  BY <1>0, BspBegins, BeginsSeq DEF CHand, Then
<1>2. H \in Seq(Items)
  BY <1>0, OneSeq, OpsAreOps
<1>3. o1 \in Seq(Items)
  BY <1>0, OneSeq, OpsAreOps
<1>4. o2 \in Seq(Items)
  BY <1>0, OneSeq, OpsAreOps
<1>5. o3 \in Seq(Items)
  BY <1>0, OneSeq, OpsAreOps
<1>6. o4 \in Seq(Items)
  BY <1>0, OneSeq, OpsAreOps
<1>7. <<>> \in Seq(Items)
  OBVIOUS
<1> DEFINE w1 == When(b, o4)
           t1 == Then(Then(o1, o2), o3)
<1>8. w1 \in Seq(Items)
  BY <1>6, <1>7 DEF When
<1>9. Then(w1, CHand(g)) = IF b THEN CWait1(g, i) ELSE CHand(g)
  <2>1. CASE b
    BY <2>1 DEF When, CWait1, Then
  <2>2. CASE ~b
    BY <2>2, <1>1, ThenEmpty DEF When
  <2>3. QED
    BY <2>1, <2>2
<1>10. t1 = << <<"acquire", i>>, <<"schedule", i>>, <<"release_run", i>> >>
  <2>1. /\ <<"acquire", i>> \in Items /\ <<"schedule", i>> \in Items
        /\ <<"release_run", i>> \in Items
    BY <1>0, OpsAreOps DEF Items
  <2>2. QED
    BY <2>1, Triple DEF One, Then
<1>11. StartupThisAp(i, b) = Then(t1, w1)
  BY <1>10 DEF StartupThisAp, One, Then
<1> HIDE DEF H, o1, o2, o3, o4
<1>12. t1 \in Seq(Items) /\ \A r \in Seq(Items) : Then(t1, r) = Then(o1, Then(o2, Then(o3, r)))
  BY <1>3, <1>4, <1>5, ThenThree
<1> HIDE DEF w1, t1
<1>13. Then(w1, CHand(g)) \in Seq(Items) /\ Then(t1, w1) \in Seq(Items)
  BY <1>1, <1>8, <1>12, ThenSeq
<1>14. Then(Then(Then(t1, w1), H), CNot(g, 1)) = Then(Then(t1, w1), CHand(g))
  BY <1>1, <1>2, <1>13, ThenAssoc
<1>15. Then(Then(t1, w1), CHand(g)) = Then(t1, Then(w1, CHand(g)))
  BY <1>1, <1>8, <1>12, ThenAssoc
<1>16. Then(t1, Then(w1, CHand(g))) = Then(o1, Then(o2, Then(o3, Then(w1, CHand(g)))))
  BY <1>12, <1>13
<1>17. Then(o1, Then(o2, Then(o3, Then(w1, CHand(g))))) = CAcq(g, i, b)
  BY <1>9 DEF CAcq, CSch, CRun, o1, o2, o3, Then
<1>18. (StartupThisAp(i, b) \o Step("handlers")) \o CNot(g, 1) = Then(Then(Then(t1, w1), H), CNot(g, 1))
  BY <1>11 DEF H, Then
<1> DEFINE f1 == ForAll("acquire_present")
           f2 == ForAll("schedule_present")
           f3 == ForAll("release")
           f4 == When(b, ForAll("not_busy"))
<1>19. /\ f1 \in Seq(Items) /\ f1 = From("acquire_present", 1)
       /\ f2 \in Seq(Items) /\ f2 = From("schedule_present", 1)
       /\ f3 \in Seq(Items) /\ f3 = From("release", 1)
       /\ ForAll("not_busy") \in Seq(Items) /\ ForAll("not_busy") = From("not_busy", 1)
  BY ForAllSeq, OpsAreOps
<1>20. f4 \in Seq(Items)
  BY <1>7, <1>19 DEF When
<1>21. Then(f4, CHand(g)) = IF b THEN CWaitA(g, 1) ELSE CHand(g)
  <2>1. CASE b
    BY <2>1, <1>19 DEF When, CWaitA, Then
  <2>2. CASE ~b
    BY <2>2, <1>1, ThenEmpty DEF When
  <2>3. QED
    BY <2>1, <2>2
<1> DEFINE f == Then(Then(Then(f1, f2), f3), f4)
<1>22. StartupAllAPs(b) = f
  BY DEF StartupAllAPs, ReleaseAllAPs, Then
<1> HIDE DEF f1, f2, f3, f4
<1>23. f \in Seq(Items) /\ Then(f, CHand(g)) = Then(f1, Then(f2, Then(f3, Then(f4, CHand(g)))))
  BY <1>1, <1>19, <1>20, ThenFour
<1> HIDE DEF f
<1>24. Then(Then(f, H), CNot(g, 1)) = Then(f, CHand(g))
  BY <1>1, <1>2, <1>23, ThenAssoc
<1>25. Then(f1, Then(f2, Then(f3, Then(f4, CHand(g))))) = CAcqA(g, 1, b)
  BY <1>19, <1>21 DEF CAcqA, CSchA, CBc, Then
<1>26. (StartupAllAPs(b) \o Step("handlers")) \o CNot(g, 1) = Then(Then(f, H), CNot(g, 1))
  BY <1>22 DEF H, Then
<1>27. QED
  BY <1>14, <1>15, <1>16, <1>17, <1>18, <1>23, <1>24, <1>25, <1>26

-----------------------------------------------------------------------------
(***************************************************************************)
(* The invariant.                                                          *)
(***************************************************************************)
\* The handshakes that BSP place q has left with CPU c.
Left(q, c) == IF q.s = "release" /\ c < q.i THEN q.k - 1 ELSE q.k

\* Counter is locked down at BSP place q.
Locked(g, q) ==
  \/ q.s \in {"gather", "all_present", "outside", "release", "absent", "reset_bsp", "reset_counter"}
  \/ q.k < TopK(g)

\* InsideSmm is set at BSP place q.
InsideAt(g, q)   == q.s # "inside" /\ (q.k > LoopK(g) \/ (q.k = LoopK(g) /\ q.s # "release"))

\* APs may still be on their way to BSP place q.
Arriving(g, q)   == q.k = TopK(g) /\ q.s \notin {"outside", "release"}

\* The handshakes that are left are the last.
Final(q)         == q.k = 1 \/ (q.s = "release" /\ q.k = 2)

\* Present is set at place p.
PresentAt(p) ==
  \/ IsAp(p) /\ p.s \notin {"find_bsp", "ap_present"} /\ ~(p.s = "signal" /\ p.k = 1)
  \/ IsAtBsp(p) /\ p.s \notin {"inside", "present"} /\ p.k >= 1 /\ ~(p.s = "gather" /\ p.k = 1)

\* BSP place q is between acquiring Busy of CPU c and releasing its Run.
Loading(q, c) ==
  \/ q.s \in {"schedule", "release_run"} /\ q.i = c
  \/ q.s = "acquire_present" /\ c < q.i
  \/ q.s = "schedule_present"
  \/ q.s = "bcast" /\ c >= q.i

\* BSP place q has seen that CPU c is not busy, after the SMI handlers.
Quiet(g, q, c) ==
  \/ q.s = "not_busy" /\ c < q.i
  \/ q.k = LoopK(g) /\ q.s \in {"sync", "lockdown", "all_present", "outside", "release"}
  \/ q.k < LoopK(g)

\* Who is counted by Counter, who follows the BSP, and who has signalled it in this round.
Counted(pl)   == {c \in CPUs : ~IsOut(pl[c])}
Aps(pl)       == {c \in CPUs : IsPre(pl[c]) \/ IsAp(pl[c])}
Signalled(pl, q) == {c \in CPUs : IsAp(pl[c]) /\ Left(q, c) = pl[c].k + 1}

\* What the variables are made of.  Run and running are not bounded here, but by the invariant.
CpuData == [CPUs -> [run : Nat, present : BOOLEAN, busy : BOOLEAN,
                     proc : {WRAPPER} \cup 0 .. MaxCalls, token : 0 .. MaxCalls]]
LocalData == [CPUs -> [valid : BOOLEAN, inProgress : BOOLEAN, bsp : {NoBsp} \cup CPUs,
                       apCount : -1 .. N]]
PlatformData == [status : BOOLEAN, pending : [CPUs -> BOOLEAN], smis : 0 .. MaxSmis]
CallData == [made : 0 .. MaxCalls, proc : {WRAPPER} \cup 0 .. MaxCalls, token : 0 .. MaxCalls,
             wrapper : [CPUs -> 0 .. MaxCalls], running : [1 .. MaxCalls -> Int],
             owed : SUBSET ((0 .. MaxCalls) \X CPUs)]

\* The types.
Types ==
  /\ counter \in Int /\ inside \in BOOLEAN /\ allInSync \in BOOLEAN
  /\ bspIndex \in {NoBsp} \cup CPUs
  /\ cpu \in CpuData /\ local \in LocalData /\ platform \in PlatformData /\ calls \in CallData
  /\ config \in Configs

\* Every program is the code at a place.
Placed(pl) ==
  /\ pl \in [CPUs -> Place]
  /\ \A c \in CPUs : Valid(config, pl[c])
  /\ prog = [c \in CPUs |-> Code(config, pl[c])]

\* No processor beyond those of the platform takes part.
CpusInv(pl) ==
  /\ \A c \in CPUs : (pl[c].s # "out" \/ platform.pending[c]) => c <= config.cpus
  /\ bspIndex <= config.cpus

\* One processor at most is in BSPHandler, and BspIndex names it until it gives the role back.
IndexInv(pl) ==
  /\ \A b, c \in CPUs : IsAtBsp(pl[b]) /\ IsAtBsp(pl[c]) => b = c
  /\ \A b \in CPUs : IsAtBsp(pl[b]) /\ pl[b].s # "reset_counter" => bspIndex = b
  /\ config.election /\ bspIndex # NoBsp =>
       IsAtBsp(pl[bspIndex]) /\ pl[bspIndex].s # "reset_counter"
  /\ ~config.election => bspIndex = 1

\* InsideSmm says that the BSP is between its start and its call for the exit.
InsideInv(pl) ==
  inside <=> /\ bspIndex # NoBsp /\ IsAtBsp(pl[bspIndex])
             /\ InsideAt(config, pl[bspIndex])

\* Counter is locked down, or counts the processors that have checked in.
CounterInv(pl) ==
  /\ \A b \in CPUs : IsAtBsp(pl[b]) /\ Locked(config, pl[b]) => counter = LOCKED
  /\ (\A b \in CPUs : ~(IsAtBsp(pl[b]) /\ Locked(config, pl[b]))) =>
       counter = Cardinality(Counted(pl))

\* Nobody is about to take itself off a Counter that is locked down.
LateInv(pl) ==
  counter = LOCKED => \A c \in CPUs : pl[c].s \notin {"ask_bsp", "give_up"}

\* Who waits for a BSP finds one that has not gathered the APs yet.
ArriveInv(pl) ==
  \A b, c \in CPUs : IsAtBsp(pl[b]) /\ IsPre(pl[c]) => Arriving(config, pl[b])

\* The BSP, at place q, and AP c are at most one handshake apart, and the AP knows the BSP.
PairOK(pl, q, c) ==
  /\ IsAtBsp(q) /\ q.s # "inside"
  /\ pl[c].s \in {"find_bsp", "ap_present"} => Arriving(config, q)
  /\ pl[c].s \notin {"find_bsp", "ap_present"} =>
       IF pl[c].k \in Odd THEN Left(q, c) = pl[c].k
       ELSE Left(q, c) \in pl[c].k - 1 .. pl[c].k + 1
  /\ pl[c].s # "find_bsp" => local[c].bsp = bspIndex

\* Every AP has its BSP.
PairInv(pl) ==
  \A c \in CPUs : IsAp(pl[c]) => bspIndex # NoBsp /\ PairOK(pl, pl[bspIndex], c)

\* An AP in its loop: it has been called to exit, is idle, or is busy with a procedure, for which it
\* has been released once.
LoopOK(pl, q, c) ==
  IF Left(q, c) < LoopK(config)
  THEN /\ ~cpu[c].busy
       /\ \/ pl[c].s = "idle" /\ cpu[c].run = 1
          \/ pl[c].s = "test_exit" /\ cpu[c].run = 0
  ELSE IF ~cpu[c].busy THEN pl[c].s = "idle" /\ cpu[c].run = 0 /\ ~Loading(q, c)
  ELSE /\ ~Quiet(config, q, c)
       /\ cpu[c].run = IF pl[c].s = "idle" /\ ~Loading(q, c) THEN 1 ELSE 0
       /\ pl[c].s # "idle" => ~Loading(q, c)

\* Run of a processor counts the one release it has not seen yet.
RunOK(pl, c) ==
  /\ (IsOut(pl[c]) \/ IsPre(pl[c])) => cpu[c].run = 0
  /\ (IsPre(pl[c]) \/ IsAp(pl[c])) /\ pl[c].s \notin LoopStages => ~cpu[c].busy
  /\ IsAp(pl[c]) /\ pl[c].s \notin LoopStages =>
       cpu[c].run = IF pl[c].s = "wait" /\ Left(pl[bspIndex], c) = pl[c].k - 1 THEN 1 ELSE 0
  /\ pl[c].s \in LoopStages => LoopOK(pl, pl[bspIndex], c)

\* Run of everyone but the BSP.
RunInv(pl) == \A c \in CPUs : RunOK(pl, c)

\* Run of the BSP counts the APs that have signalled it in this round.
GatherInv(pl) ==
  \A b \in CPUs : IsAtBsp(pl[b]) =>
    LET q == pl[b]
    IN  /\ q.k = 0 => Aps(pl) = {} /\ cpu[b].run = 0
        /\ q.k # 0 /\ Final(q) => local[b].apCount = Cardinality(Aps(pl)) + cpu[b].run
        /\ q.k # 0 /\ ~Final(q) => cpu[b].run = Cardinality(Signalled(pl, q))
        /\ q.k # 0 /\ ~Final(q) /\ Locked(config, q) => local[b].apCount = Cardinality(Aps(pl))

\* Present is set just at the places it should be.
PresentInv(pl) == \A c \in CPUs : cpu[c].present <=> PresentAt(pl[c])

\* A service for one AP has an AP that is in its loop.
OneInv(pl) ==
  \A b \in CPUs : pl[b].s \in OneStages => pl[b].i \in CPUs \ {b} /\ pl[pl[b].i].s \in LoopStages

\* The invariant, for given places.
Meeting(pl) ==
  /\ Types /\ Placed(pl)
  /\ CpusInv(pl) /\ IndexInv(pl) /\ InsideInv(pl) /\ CounterInv(pl) /\ LateInv(pl)
  /\ ArriveInv(pl) /\ PairInv(pl) /\ RunInv(pl) /\ GatherInv(pl) /\ PresentInv(pl) /\ OneInv(pl)

-----------------------------------------------------------------------------
\* Busy of CPU c is taken for a call whose procedure is not in place yet.
Unscheduled(q, c) ==
  \/ q.s = "schedule" /\ q.i = c
  \/ q.s = "acquire_present" /\ c < q.i
  \/ q.s = "schedule_present" /\ c >= q.i

\* The BSP waits in a service for the procedure of CPU c.
Blocks(q, c) ==
  /\ q.b
  /\ \/ q.s \in {"release_run", "wait_one"} /\ q.i = c
     \/ q.s = "schedule_present" \/ q.s = "bcast"
     \/ q.s = "wait_all" /\ c >= q.i

\* The processors that the token of the last call counts and that are still to be given it,
\* or to be taken off it.
Pending(q) ==
  IF q.s \in {"acquire", "schedule"} THEN 1
  ELSE IF q.s = "acquire_present" THEN N
  ELSE IF q.s = "schedule_present" THEN N + 1 - q.i ELSE 0

\* The APs that hold the token of call k.
Holders(k) == {i \in CPUs : cpu[i].token = k}

-----------------------------------------------------------------------------
(***************************************************************************)
(* Steps as moves between places.                                          *)
(***************************************************************************)
\* The place of CPU c becomes q.
Moves(pl, c, q, pl2) ==
  /\ pl2 \in [CPUs -> Place] /\ pl2[c] = q
  /\ \A x \in CPUs : x # c => pl2[x] = pl[x]

\* CPU c goes on at place q.
Goes(pl, c, q) == \E r, pl2 : r \in Place /\ r = q /\ Moves(pl, c, r, pl2) /\ Placed(pl2)'

\* What a processor is about to do, by its place.
LEMMA AtPlace ==
  ASSUME Types, NEW pl, Placed(pl), NEW c \in CPUs
  PROVE  /\ pl[c] \in Place /\ Valid(config, pl[c]) /\ config \in Configs
         /\ InSmm(c) <=> pl[c].s # "out"
         /\ \A op : At(c, op) <=> pl[c].s # "out" /\ Op(pl[c]) = op
         /\ InSmm(c) => Index(c) = pl[c].i
         /\ InSmm(c) => Tail(prog[c]) = Code(config, Succ(config, pl[c]))
         /\ InSmm(c) => Succ(config, pl[c]) \in Place /\ Valid(config, Succ(config, pl[c]))
<1>1. pl[c] \in Place /\ Valid(config, pl[c]) /\ config \in Configs /\ prog[c] = Code(config, pl[c])
  BY DEF Placed, Types
<1>2. CASE pl[c].s = "out"
  <2>1. Code(config, pl[c]) = <<>>
    BY <1>2 DEF Code, OutCode, OutStages
  <2>2. ~InSmm(c)
    BY <1>1, <2>1 DEF InSmm
  <2>3. QED
    BY <1>1, <1>2, <2>2 DEF At
<1>3. CASE pl[c].s # "out"
  <2>1. Follows(config, pl[c])
    BY <1>1, <1>3, CodeFollows
  <2>2. /\ prog[c] # <<>> /\ Head(prog[c]) = <<Op(pl[c]), pl[c].i>>
        /\ Tail(prog[c]) = Code(config, Succ(config, pl[c]))
    BY <1>1, <2>1 DEF Follows, Begins
  <2>3. Head(prog[c])[1] = Op(pl[c]) /\ Head(prog[c])[2] = pl[c].i
    BY <2>2
  <2>4. QED
    BY <1>1, <1>3, <2>1, <2>2, <2>3 DEF At, InSmm, Index, Follows
<1>4. QED
  BY <1>2, <1>3

\* CPU c goes on at place q.
LEMMA GoPlace ==
  ASSUME Types, NEW pl, Placed(pl), NEW c \in CPUs, NEW q \in Place, Valid(config, q),
         NEW steps, steps \o Tail(prog[c]) = Code(config, q),
         Go(c, steps), config' = config
  PROVE  \E pl2 : Moves(pl, c, q, pl2) /\ Placed(pl2)'
<1> DEFINE pl2 == [pl EXCEPT ![c] = q]
<1>1. pl \in [CPUs -> Place] /\ prog = [x \in CPUs |-> Code(config, pl[x])]
  BY DEF Placed
<1>2. Moves(pl, c, q, pl2)
  BY <1>1 DEF Moves
<1>3. prog' = [prog EXCEPT ![c] = Code(config, q)]
  BY DEF Go
<1>4. prog' = [x \in CPUs |-> Code(config, pl2[x])]
  BY <1>1, <1>3
<1>5. \A x \in CPUs : Valid(config, pl2[x])
  BY <1>1 DEF Placed
<1>6. Placed(pl2)'
  <2>1. pl2 \in [CPUs -> Place]
    BY <1>2 DEF Moves
  <2> HIDE DEF pl2
  <2>2. QED
    BY <2>1, <1>4, <1>5 DEF Placed
<1>7. QED
  BY <1>2, <1>6

\* A step that just ends.
LEMMA DonePlace ==
  ASSUME Types, NEW pl, Placed(pl), NEW c \in CPUs, InSmm(c), Done(c), config' = config
  PROVE  Goes(pl, c, Succ(config, pl[c]))
<1>1. /\ Succ(config, pl[c]) \in Place /\ Valid(config, Succ(config, pl[c]))
      /\ Tail(prog[c]) = Code(config, Succ(config, pl[c])) /\ config \in Configs
  BY AtPlace
<1>2. PICK q : q = Succ(config, pl[c])
  OBVIOUS
<1>3. <<>> \o Tail(prog[c]) = Code(config, q)
  <2>1. Code(config, q) \in Seq(Items)
    BY <1>1, <1>2, CodeSeq
  <2>2. QED
    BY <1>1, <1>2, <2>1, ConcatEmptySeq
<1>4. Go(c, <<>>)
  BY DEF Done
<1>5. \E pl2 : Moves(pl, c, q, pl2) /\ Placed(pl2)'
  BY <1>1, <1>2, <1>3, <1>4, GoPlace
<1>6. QED
  BY <1>1, <1>2, <1>5 DEF Goes

\* A place is of one kind.
LEMMA Kinds ==
  ASSUME NEW p \in Place
  PROVE  /\ IsOut(p) \/ IsPre(p) \/ IsAp(p) \/ IsAtBsp(p)
         /\ ~(IsOut(p) /\ IsPre(p)) /\ ~(IsOut(p) /\ IsAp(p)) /\ ~(IsOut(p) /\ IsAtBsp(p))
         /\ ~(IsPre(p) /\ IsAp(p)) /\ ~(IsPre(p) /\ IsAtBsp(p)) /\ ~(IsAp(p) /\ IsAtBsp(p))
         /\ p.s \in LoopStages => IsAp(p)
         /\ p.s \in ServiceStages => IsAtBsp(p)
         /\ p.s \in OneStages => p.s \in ServiceStages
         /\ p.s \in {"find_bsp", "ap_present", "wait", "signal", "ap_absent", "idle"} => IsAp(p)
         /\ p.s \in {"inside", "release", "gather", "reset_counter"} => IsAtBsp(p)
         /\ p.s \in {"ask_bsp", "give_up"} => IsPre(p)
         /\ p.s = "out" => IsOut(p)
<1>1. p.s \in OutStages \cup PreStages \cup ApStages \cup BspStages
  BY DEF Place
<1>2. QED
  BY <1>1 DEF IsOut, IsPre, IsAp, IsAtBsp, OutStages, PreStages, ApStages, BspStages, LoopStages,
              OneStages, AllStages, ServiceStages

\* What the conjuncts of the invariant are about.
LEMMA MeetingParts ==
  ASSUME NEW pl, Meeting(pl)
  PROVE  /\ Types /\ Placed(pl) /\ pl \in [CPUs -> Place] /\ config \in Configs
         /\ CpusInv(pl) /\ IndexInv(pl) /\ InsideInv(pl) /\ CounterInv(pl) /\ LateInv(pl)
         /\ ArriveInv(pl) /\ PairInv(pl) /\ RunInv(pl) /\ GatherInv(pl) /\ PresentInv(pl)
            /\ OneInv(pl)
BY DEF Meeting, Placed, Types

\* A processor that is not part of the rendezvous before and after its step.
LEMMA OutFrame ==
  ASSUME NEW pl, Meeting(pl), NEW c \in CPUs, NEW q, NEW pl2, Moves(pl, c, q, pl2), Placed(pl2)',
         IsOut(pl[c]), IsOut(q), Types', CpusInv(pl2)',
         counter' = counter, inside' = inside, bspIndex' = bspIndex, cpu' = cpu, config' = config,
         \A x \in CPUs : x # c => local'[x] = local[x]
  PROVE  Meeting(pl2)'
<1>1. /\ pl \in [CPUs -> Place] /\ pl2 \in [CPUs -> Place] /\ pl2[c] = q /\ q \in Place
      /\ \A x \in CPUs : x # c => pl2[x] = pl[x]
  BY MeetingParts DEF Moves
<1>2. \A x \in CPUs : /\ IsPre(pl2[x]) <=> IsPre(pl[x])
                      /\ IsAp(pl2[x]) <=> IsAp(pl[x])
                      /\ IsAtBsp(pl2[x]) <=> IsAtBsp(pl[x])
                      /\ IsOut(pl2[x]) <=> IsOut(pl[x])
  BY <1>1, Kinds
<1>3. \A x \in CPUs : x = c => ~IsPre(pl[x]) /\ ~IsAp(pl[x]) /\ ~IsAtBsp(pl[x])
  BY <1>1, Kinds
<1>4. Counted(pl2) = Counted(pl) /\ Aps(pl2) = Aps(pl)
  BY <1>1, <1>2 DEF Counted, Aps
<1>5. \A z : Signalled(pl2, z) = Signalled(pl, z)
  BY <1>1, <1>2, <1>3 DEF Signalled
<1>6. /\ bspIndex \in {NoBsp} \cup CPUs /\ NoBsp \notin CPUs
  BY MeetingParts DEF Types, NoBsp, CPUs
<1>7. IndexInv(pl2)'
  BY <1>1, <1>2, <1>3, <1>6, MeetingParts DEF IndexInv
<1>8. InsideInv(pl2)'
  BY <1>1, <1>2, <1>3, <1>6, MeetingParts DEF InsideInv
<1>9. CounterInv(pl2)'
  BY <1>1, <1>2, <1>3, <1>4, MeetingParts DEF CounterInv
<1>10. LateInv(pl2)'
  BY <1>1, <1>2, <1>3, Kinds, MeetingParts DEF LateInv
<1>11. ArriveInv(pl2)'
  BY <1>1, <1>2, <1>3, MeetingParts DEF ArriveInv
<1>12. PairInv(pl2)'
  BY <1>1, <1>2, <1>3, <1>6, MeetingParts DEF PairInv, PairOK
<1>13. RunInv(pl2)'
  BY <1>1, <1>2, <1>3, <1>6, Kinds, MeetingParts DEF RunInv, RunOK, LoopOK, PairInv, PairOK
<1>14. GatherInv(pl2)'
  BY <1>1, <1>2, <1>3, <1>4, <1>5, MeetingParts DEF GatherInv
<1>15. PresentInv(pl2)'
  BY <1>1, <1>2, <1>3, MeetingParts DEF PresentInv, PresentAt
<1>16. OneInv(pl2)'
  BY <1>1, <1>2, <1>3, Kinds, MeetingParts DEF OneInv
<1>17. QED
  BY <1>7, <1>8, <1>9, <1>10, <1>11, <1>12, <1>13, <1>14, <1>15, <1>16 DEF Meeting

\* The BSP stays BSP, as many handshakes from every AP as it was.
SameRound(g, p, q) ==
  /\ q.k = p.k /\ \A x \in CPUs : Left(q, x) = Left(p, x)
  /\ Locked(g, q) <=> Locked(g, p)
  /\ Final(q) <=> Final(p)
  /\ q.s # "inside"

\* Nobody is on the way to the BSP any more.
AllArrived(pl) == \A x \in CPUs : ~IsPre(pl[x]) /\ pl[x].s \notin {"find_bsp", "ap_present"}

\* The BSP moves within a round: what is left to show when counter, BspIndex, its own Run and what
\* the APs keep of it are unchanged.
LEMMA BspFrame ==
  ASSUME NEW pl, Meeting(pl), NEW c \in CPUs, NEW q, NEW pl2, Moves(pl, c, q, pl2), Placed(pl2)',
         IsAtBsp(pl[c]), pl[c].s # "reset_counter", IsAtBsp(q), q.s # "reset_counter",
         SameRound(config, pl[c], q), AllArrived(pl) \/ Arriving(config, q),
         Types', CpusInv(pl2)', InsideInv(pl2)', RunInv(pl2)', PresentInv(pl2)', OneInv(pl2)',
         counter' = counter, bspIndex' = bspIndex, config' = config,
         cpu'[c].run = cpu[c].run, local' = local
  PROVE  Meeting(pl2)'
<1>1. /\ pl \in [CPUs -> Place] /\ pl2 \in [CPUs -> Place] /\ pl2[c] = q /\ q \in Place
      /\ \A x \in CPUs : x # c => pl2[x] = pl[x]
  BY MeetingParts DEF Moves
<1>2. \A x \in CPUs : /\ IsPre(pl2[x]) <=> IsPre(pl[x])
                      /\ IsAp(pl2[x]) <=> IsAp(pl[x])
                      /\ IsAtBsp(pl2[x]) <=> IsAtBsp(pl[x])
                      /\ IsOut(pl2[x]) <=> IsOut(pl[x])
  BY <1>1, Kinds
<1>3. ~IsPre(pl[c]) /\ ~IsAp(pl[c]) /\ ~IsOut(pl[c])
  BY <1>1, Kinds
<1>4. Counted(pl2) = Counted(pl) /\ Aps(pl2) = Aps(pl)
  BY <1>1, <1>2 DEF Counted, Aps
<1>5. Signalled(pl2, q) = Signalled(pl, pl[c])
  BY <1>1, <1>2, <1>3 DEF Signalled, SameRound
<1>6. bspIndex = c /\ c # NoBsp /\ \A x \in CPUs : IsAtBsp(pl[x]) => x = c
  BY MeetingParts DEF IndexInv, NoBsp, CPUs
<1>7. IndexInv(pl2)'
  BY <1>1, <1>2, <1>6, MeetingParts DEF IndexInv
<1>8. CounterInv(pl2)'
  BY <1>1, <1>2, <1>4, <1>6, MeetingParts DEF CounterInv, SameRound
<1>9. LateInv(pl2)'
  BY <1>1, <1>2, <1>3, Kinds, MeetingParts DEF LateInv
<1>10. ArriveInv(pl2)'
  BY <1>1, <1>2, <1>3, <1>6, MeetingParts DEF ArriveInv, AllArrived
<1>11. PairInv(pl2)'
  <2> SUFFICES ASSUME NEW x \in CPUs, IsAp(pl2[x])
               PROVE  (bspIndex # NoBsp /\ PairOK(pl2, pl2[bspIndex], x))'
    BY DEF PairInv
  <2>1. x # c /\ pl2[x] = pl[x] /\ PairOK(pl, pl[c], x)
    BY <1>1, <1>2, <1>3, <1>6, MeetingParts DEF PairInv
  <2>2. QED
    BY <2>1, <1>1, <1>6 DEF PairOK, SameRound, AllArrived
<1>12. GatherInv(pl2)'
  BY <1>1, <1>2, <1>4, <1>5, <1>6, MeetingParts DEF GatherInv, SameRound
<1>13. QED
  BY <1>7, <1>8, <1>9, <1>10, <1>11, <1>12 DEF Meeting

\* The BSP has neither loaded nor seen quiet another AP than before.
SameLoop(g, p, q) ==
  \A x \in CPUs : (Loading(q, x) <=> Loading(p, x)) /\ (Quiet(g, q, x) => Quiet(g, p, x))

\* The Run and Busy of the APs are as they should be when the BSP moves within a round and has
\* neither loaded nor seen quiet another AP than before.
LEMMA LoopFrame ==
  ASSUME NEW pl, Meeting(pl), NEW c \in CPUs, NEW q, NEW pl2, Moves(pl, c, q, pl2),
         IsAtBsp(pl[c]), pl[c].s # "reset_counter", IsAtBsp(q),
         SameRound(config, pl[c], q), SameLoop(config, pl[c], q),
         bspIndex' = bspIndex, config' = config,
         \A x \in CPUs : cpu'[x].run = cpu[x].run /\ (x # c => cpu'[x].busy = cpu[x].busy)
  PROVE  RunInv(pl2)'
<1>1. /\ pl \in [CPUs -> Place] /\ pl2 \in [CPUs -> Place] /\ pl2[c] = q /\ q \in Place
      /\ \A x \in CPUs : x # c => pl2[x] = pl[x]
  BY MeetingParts DEF Moves
<1>2. ~IsPre(q) /\ ~IsAp(q) /\ ~IsOut(q) /\ q.s \notin LoopStages
  BY <1>1, Kinds
<1>3. bspIndex = c
  BY MeetingParts DEF IndexInv
<1> SUFFICES ASSUME NEW x \in CPUs, x # c
             PROVE  /\ (IsOut(pl[x]) \/ IsPre(pl[x])) => cpu'[x].run = 0
                    /\ (IsPre(pl[x]) \/ IsAp(pl[x])) /\ pl[x].s \notin LoopStages => ~cpu'[x].busy
                    /\ IsAp(pl[x]) /\ pl[x].s \notin LoopStages =>
                         cpu'[x].run = IF pl[x].s = "wait" /\ Left(q, x) = pl[x].k - 1 THEN 1 ELSE 0
                    /\ pl[x].s \in LoopStages => LoopOK(pl2, q, x)'
  BY <1>1, <1>2, <1>3 DEF RunInv, RunOK
<1>4. /\ (IsOut(pl[x]) \/ IsPre(pl[x])) => cpu[x].run = 0
      /\ (IsPre(pl[x]) \/ IsAp(pl[x])) /\ pl[x].s \notin LoopStages => ~cpu[x].busy
      /\ IsAp(pl[x]) /\ pl[x].s \notin LoopStages =>
           cpu[x].run = IF pl[x].s = "wait" /\ Left(pl[c], x) = pl[x].k - 1 THEN 1 ELSE 0
      /\ pl[x].s \in LoopStages => LoopOK(pl, pl[c], x)
  BY <1>3, MeetingParts DEF RunInv, RunOK
<1>5. pl[x].s \in LoopStages => LoopOK(pl2, q, x)'
  BY <1>1, <1>4 DEF LoopOK, SameRound, SameLoop
<1>6. QED
  BY <1>4, <1>5 DEF SameRound

\* A processor that has checked in and is not the BSP, before and after its step.
LEMMA WaiterFrame ==
  ASSUME NEW pl, Meeting(pl), NEW c \in CPUs, NEW q, NEW pl2, Moves(pl, c, q, pl2), Placed(pl2)',
         IsPre(pl[c]) \/ IsAp(pl[c]), IsPre(q) \/ IsAp(q), IsPre(q) => IsPre(pl[c]),
         IsAp(q) => bspIndex # NoBsp /\ PairOK(pl2, pl[bspIndex], c)',
         IsAp(pl[c]) /\ Left(pl[bspIndex], c) = pl[c].k + 1
           <=> IsAp(q) /\ Left(pl[bspIndex], c) = q.k + 1,
         \/ q.s \in LoopStages \/ pl[c].s \notin LoopStages
         \/ \A x \in CPUs : ~(pl[x].s \in OneStages /\ pl[x].i = c),
         Types', CpusInv(pl2)', LateInv(pl2)', RunOK(pl2, c)',
         cpu'[c].present <=> PresentAt(q),
         counter' = counter, inside' = inside, bspIndex' = bspIndex, config' = config,
         \A x \in CPUs : x # c => cpu'[x] = cpu[x] /\ local'[x] = local[x]
  PROVE  Meeting(pl2)'
<1>1. /\ pl \in [CPUs -> Place] /\ pl2 \in [CPUs -> Place] /\ pl2[c] = q /\ q \in Place
      /\ \A x \in CPUs : x # c => pl2[x] = pl[x]
  BY MeetingParts DEF Moves
<1>2. \A x \in CPUs : /\ IsPre(pl2[x]) => IsPre(pl[x])
                      /\ (IsPre(pl2[x]) \/ IsAp(pl2[x])) <=> (IsPre(pl[x]) \/ IsAp(pl[x]))
                      /\ IsAtBsp(pl2[x]) <=> IsAtBsp(pl[x])
                      /\ IsOut(pl2[x]) <=> IsOut(pl[x])
  BY <1>1, Kinds
<1>3. ~IsAtBsp(pl[c]) /\ ~IsAtBsp(q)
  BY <1>1, Kinds
<1>4. Counted(pl2) = Counted(pl) /\ Aps(pl2) = Aps(pl)
  BY <1>1, <1>2 DEF Counted, Aps
<1>5. \A x \in CPUs : IsAtBsp(pl[x]) => x # c /\ pl2[x] = pl[x]
  BY <1>1, <1>3
<1>6. /\ bspIndex \in {NoBsp} \cup CPUs /\ NoBsp \notin CPUs
  BY MeetingParts DEF Types, NoBsp, CPUs
<1>7. IndexInv(pl2)'
  BY <1>1, <1>2, <1>5, <1>6, MeetingParts DEF IndexInv
<1>8. InsideInv(pl2)'
  BY <1>1, <1>2, <1>5, <1>6, MeetingParts DEF InsideInv
<1>9. CounterInv(pl2)'
  BY <1>1, <1>2, <1>4, <1>5, MeetingParts DEF CounterInv
<1>10. ArriveInv(pl2)'
  BY <1>1, <1>2, <1>5, MeetingParts DEF ArriveInv
<1>11. PairInv(pl2)'
  <2> SUFFICES ASSUME NEW x \in CPUs, IsAp(pl2[x])
               PROVE  (bspIndex # NoBsp /\ PairOK(pl2, pl2[bspIndex], x))'
    BY DEF PairInv
  <2>1. CASE x = c
    <3>1. bspIndex # NoBsp /\ PairOK(pl2, pl[bspIndex], c)' /\ bspIndex \in CPUs
      BY <1>1, <1>6, <2>1
    <3>2. IsAtBsp(pl[bspIndex])
      BY <3>1 DEF PairOK
    <3>3. QED
      BY <2>1, <3>1, <3>2, <1>5
  <2>2. CASE x # c
    <3>1. bspIndex # NoBsp /\ PairOK(pl, pl[bspIndex], x) /\ bspIndex \in CPUs
      BY <1>1, <1>6, <2>2, MeetingParts DEF PairInv
    <3>2. IsAtBsp(pl[bspIndex])
      BY <3>1 DEF PairOK
    <3>3. pl2[bspIndex] = pl[bspIndex] /\ pl2[x] = pl[x]
      BY <1>1, <1>5, <2>2, <3>1, <3>2
    <3>4. QED
      BY <2>2, <3>1, <3>3 DEF PairOK
  <2>3. QED
    BY <2>1, <2>2
<1>12. RunInv(pl2)'
  <2> SUFFICES ASSUME NEW x \in CPUs, x # c
               PROVE  RunOK(pl2, x)'
    BY DEF RunInv
  <2>1. pl2[x] = pl[x] /\ RunOK(pl, x) /\ cpu'[x] = cpu[x]
    BY <1>1, MeetingParts DEF RunInv
  <2>2. IsAp(pl[x]) => pl2[bspIndex] = pl[bspIndex]
    BY <1>5, <1>6, MeetingParts DEF PairInv, PairOK
  <2>3. pl[x].s \in LoopStages => IsAp(pl[x])
    BY <1>1, Kinds
  <2>4. QED
    BY <2>1, <2>2, <2>3 DEF RunOK, LoopOK
<1>13. GatherInv(pl2)'
  <2> SUFFICES ASSUME NEW b \in CPUs, IsAtBsp(pl2[b])
               PROVE  (LET z == pl2[b]
                       IN  /\ z.k = 0 => Aps(pl2) = {} /\ cpu[b].run = 0
                           /\ z.k # 0 /\ Final(z) => local[b].apCount = Cardinality(Aps(pl2)) + cpu[b].run
                           /\ z.k # 0 /\ ~Final(z) => cpu[b].run = Cardinality(Signalled(pl2, z))
                           /\ z.k # 0 /\ ~Final(z) /\ Locked(config, z) =>
                                local[b].apCount = Cardinality(Aps(pl2)))'
    BY DEF GatherInv
  <2>1. b # c /\ pl2[b] = pl[b] /\ IsAtBsp(pl[b]) /\ cpu'[b] = cpu[b] /\ local'[b] = local[b]
    BY <1>1, <1>2, <1>5
  <2>2. CASE pl[b].s = "reset_counter"
    <3>1. pl[b].k = 0
      BY <2>2, MeetingParts DEF Placed, Valid
    <3>2. QED
      BY <2>1, <3>1, <1>4, MeetingParts DEF GatherInv
  <2>3. CASE pl[b].s # "reset_counter"
    <3>1. b = bspIndex
      BY <2>1, <2>3, MeetingParts DEF IndexInv
    <3>2. Signalled(pl2, pl[b]) = Signalled(pl, pl[b])
      BY <1>1, <3>1 DEF Signalled
    <3>3. QED
      BY <2>1, <3>2, <1>4, MeetingParts DEF GatherInv
  <2>4. QED
    BY <2>2, <2>3
<1>14. PresentInv(pl2)'
  BY <1>1, MeetingParts DEF PresentInv
<1>15. OneInv(pl2)'
  <2>1. \A x \in CPUs : pl2[x].s \in OneStages => pl2[x] = pl[x] /\ x # c
    BY <1>1, <1>3, Kinds
  <2>2. QED
    BY <2>1, <1>1, MeetingParts DEF OneInv
<1>16. QED
  BY <1>7, <1>8, <1>9, <1>10, <1>11, <1>12, <1>13, <1>14, <1>15 DEF Meeting

\* Writes of a field of CpuData[i].
Others(i) == cpu' \in CpuData /\ \A x \in CPUs : x # i => cpu'[x] = cpu[x]

\* A write of one field of CpuData[i], spelled out.
LEMMA SetDataIs ==
  ASSUME Types, NEW i \in CPUs, NEW v
  PROVE  /\ SetData(i, "run", v) => cpu' = [cpu EXCEPT ![i] =
              [run |-> v, present |-> cpu[i].present, busy |-> cpu[i].busy,
               proc |-> cpu[i].proc, token |-> cpu[i].token]]
         /\ SetData(i, "present", v) => cpu' = [cpu EXCEPT ![i] =
              [run |-> cpu[i].run, present |-> v, busy |-> cpu[i].busy,
               proc |-> cpu[i].proc, token |-> cpu[i].token]]
         /\ SetData(i, "busy", v) => cpu' = [cpu EXCEPT ![i] =
              [run |-> cpu[i].run, present |-> cpu[i].present, busy |-> v,
               proc |-> cpu[i].proc, token |-> cpu[i].token]]
         /\ SetData(i, "token", v) => cpu' = [cpu EXCEPT ![i] =
              [run |-> cpu[i].run, present |-> cpu[i].present, busy |-> cpu[i].busy,
               proc |-> cpu[i].proc, token |-> v]]
BY DEF Types, CpuData, SetData

\* A semaphore operation on Run writes Run alone.
LEMMA SetRun ==
  ASSUME Types, NEW i \in CPUs, NEW v \in Nat, SetData(i, "run", v)
  PROVE  /\ Others(i) /\ cpu'[i].run = v /\ cpu'[i].present = cpu[i].present
         /\ cpu'[i].busy = cpu[i].busy /\ cpu'[i].proc = cpu[i].proc /\ cpu'[i].token = cpu[i].token
<1>1. cpu' = [cpu EXCEPT ![i] = [run |-> v, present |-> cpu[i].present, busy |-> cpu[i].busy,
                                 proc |-> cpu[i].proc, token |-> cpu[i].token]]
  BY SetDataIs
<1>2. QED
  BY <1>1 DEF Types, CpuData, Others

\* A write of Present writes Present alone.
LEMMA SetPresent ==
  ASSUME Types, NEW i \in CPUs, NEW v \in BOOLEAN, SetData(i, "present", v)
  PROVE  /\ Others(i) /\ cpu'[i].run = cpu[i].run /\ (cpu'[i].present <=> v)
         /\ cpu'[i].busy = cpu[i].busy /\ cpu'[i].proc = cpu[i].proc /\ cpu'[i].token = cpu[i].token
<1>1. cpu' = [cpu EXCEPT ![i] = [run |-> cpu[i].run, present |-> v, busy |-> cpu[i].busy,
                                 proc |-> cpu[i].proc, token |-> cpu[i].token]]
  BY SetDataIs
<1>2. QED
  BY <1>1 DEF Types, CpuData, Others

\* Acquiring or releasing Busy writes Busy alone.
LEMMA SetBusy ==
  ASSUME Types, NEW i \in CPUs, NEW v \in BOOLEAN, SetData(i, "busy", v)
  PROVE  /\ Others(i) /\ cpu'[i].run = cpu[i].run /\ cpu'[i].present = cpu[i].present
         /\ (cpu'[i].busy <=> v) /\ cpu'[i].proc = cpu[i].proc /\ cpu'[i].token = cpu[i].token
<1>1. cpu' = [cpu EXCEPT ![i] = [run |-> cpu[i].run, present |-> cpu[i].present, busy |-> v,
                                 proc |-> cpu[i].proc, token |-> cpu[i].token]]
  BY SetDataIs
<1>2. QED
  BY <1>1 DEF Types, CpuData, Others

\* Clearing the token writes the token alone.
LEMMA SetToken ==
  ASSUME Types, NEW i \in CPUs, NEW v \in 0 .. MaxCalls, SetData(i, "token", v)
  PROVE  /\ Others(i) /\ cpu'[i].run = cpu[i].run /\ cpu'[i].present = cpu[i].present
         /\ cpu'[i].busy = cpu[i].busy /\ cpu'[i].proc = cpu[i].proc /\ cpu'[i].token = v
<1>1. cpu' = [cpu EXCEPT ![i] = [run |-> cpu[i].run, present |-> cpu[i].present,
                                 busy |-> cpu[i].busy, proc |-> cpu[i].proc, token |-> v]]
  BY SetDataIs
<1>2. QED
  BY <1>1 DEF Types, CpuData, Others

\* The steps that go on elsewhere than behind themselves.
LEMMA EnterGoes ==
  ASSUME NEW pl, Meeting(pl), NEW c \in CPUs, Enter(c)
  PROVE  pl[c].s = "out" /\ Goes(pl, c, P("valid_smi", 0, 0, FALSE))
<1> DEFINE q == P("valid_smi", 0, 0, FALSE)
           pl2 == [pl EXCEPT ![c] = q]
<1>1. pl[c].s = "out"
  BY MeetingParts, AtPlace DEF Enter
<1>2. q \in Place /\ Valid(config, q)
  BY SmmAssumption DEF P, Place, Valid, OutStages, PreStages, ApStages, BspStages, LoopStages,
                       OneStages, AllStages, ServiceStages
<1>3. Code(config, q) = SmiRendezvous
  BY DEF Code, P, OutCode, OutStages, SmiRendezvous
<1>4. Moves(pl, c, q, pl2)
  BY <1>2, MeetingParts DEF Moves
<1>5. prog' = [x \in CPUs |-> Code(config, pl2[x])]
  BY <1>2, <1>3, MeetingParts DEF Enter, Placed
<1>6. \A x \in CPUs : Valid(config, pl2[x])
  BY <1>2, MeetingParts DEF Placed
<1>7. Placed(pl2)'
  <2>1. pl2 \in [CPUs -> Place] /\ config' = config
    BY <1>4 DEF Moves, Enter
  <2> HIDE DEF pl2
  <2>2. QED
    BY <2>1, <1>5, <1>6 DEF Placed
<1>8. QED
  BY <1>1, <1>2, <1>4, <1>7 DEF Goes

\* The stage of a processor that is about to take a step.
LEMMA StageOf ==
  ASSUME NEW pl, Meeting(pl), NEW c \in CPUs
  PROVE  /\ pl[c] \in Place /\ Valid(config, pl[c]) /\ config \in Configs
         /\ InSmm(c) <=> pl[c].s # "out"
         /\ \A op \in {"inside", "present", "arrive", "send_ipi", "sync", "lockdown", "gather",
                       "busy", "handlers", "all_present", "outside", "absent", "reset_bsp",
                       "reset_counter", "wrap", "acquire", "acquire_present", "schedule",
                       "schedule_present", "release_run"} \cup ApOps :
              At(c, op) <=> pl[c].s = op
         /\ At(c, "release") <=> pl[c].s \in {"release", "bcast"}
         /\ At(c, "not_busy") <=> pl[c].s \in {"not_busy", "wait_one", "wait_all"}
         /\ \A op : At(c, op) => InSmm(c)
         /\ InSmm(c) => Index(c) = pl[c].i
<1>1. Types /\ Placed(pl)
  BY MeetingParts
<1>2. /\ \A op : At(c, op) <=> pl[c].s # "out" /\ Op(pl[c]) = op
      /\ \A op : At(c, op) => InSmm(c)
  BY <1>1, AtPlace DEF At
<1>3. QED
  BY <1>1, <1>2, AtPlace DEF Op, ApOps

\* The processor checks in when BSP or SMI are in progress, and returns otherwise.
LEMMA InProgressGoes ==
  ASSUME NEW pl, Meeting(pl), NEW c \in CPUs, BspInProgress(c)
  PROVE  /\ pl[c].s = "in_progress"
         /\ (inside \/ local[c].valid) => Goes(pl, c, P("check_in", 0, 0, FALSE))
         /\ ~(inside \/ local[c].valid) => Goes(pl, c, P("out", 0, 0, FALSE))
<1>1. pl[c].s = "in_progress" /\ pl[c] \in Place /\ Valid(config, pl[c]) /\ config \in Configs
      /\ InSmm(c)
  <2>1. At(c, "in_progress")
    BY DEF BspInProgress
  <2>2. QED
    BY <2>1, StageOf DEF ApOps
<1>2. Types /\ Placed(pl) /\ config' = config
  BY MeetingParts DEF BspInProgress
<1>3. Tail(prog[c]) = <<>>
  <2>1. Tail(prog[c]) = Code(config, Succ(config, pl[c]))
    BY <1>1, <1>2, AtPlace
  <2>2. QED
    BY <1>1, <2>1, Numbers DEF Code, Succ, OutSucc, OutCode, P, OutStages
<1>4. ASSUME (inside \/ local[c].valid) PROVE Goes(pl, c, P("check_in", 0, 0, FALSE))
  <2>1. PICK q : q = P("check_in", 0, 0, FALSE)
    OBVIOUS
  <2>2. q \in Place /\ Valid(config, q)
    BY <1>1, <2>1, <1>4, Numbers, SmmAssumption
       DEF P, Place, Valid, CPUs, Odd, Even, OutStages, PreStages, ApStages, BspStages, LoopStages,
           OneStages, AllStages, ServiceStages
  <2>3. Step("check_in") \o Tail(prog[c]) = Code(config, q)
    <3>1. Code(config, q) = Step("check_in") /\ Step("check_in") \in Seq(Items)
      BY <2>1, OneSeq, OpsAreOps, SmmAssumption DEF Code, P, OutCode, ApCode, OutStages, PreStages,
         ApStages, LoopStages, One, Step, CLeave
    <3>2. QED
      BY <1>3, <3>1, ConcatEmptySeq
  <2>4. Go(c, Step("check_in"))
    BY <1>1, <1>2, <1>4, StageOf DEF BspInProgress, ApOps, When
  <2>5. \E pl2 : Moves(pl, c, q, pl2) /\ Placed(pl2)'
    BY <1>2, <2>2, <2>3, <2>4, GoPlace
  <2>6. QED
    BY <2>1, <2>2, <2>5 DEF Goes
<1>5. ASSUME ~(inside \/ local[c].valid) PROVE Goes(pl, c, P("out", 0, 0, FALSE))
  <2>1. PICK q : q = P("out", 0, 0, FALSE)
    OBVIOUS
  <2>2. q \in Place /\ Valid(config, q)
    BY <1>1, <2>1, <1>5, Numbers, SmmAssumption
       DEF P, Place, Valid, CPUs, Odd, Even, OutStages, PreStages, ApStages, BspStages, LoopStages,
           OneStages, AllStages, ServiceStages
  <2>3. <<>> \o Tail(prog[c]) = Code(config, q)
    <3>1. Code(config, q) = <<>>
      BY <2>1 DEF Code, P, OutCode, ApCode, OutStages, PreStages, ApStages, LoopStages, One, Step,
         CLeave
    <3>2. QED
      BY <1>3, <3>1
  <2>4. Go(c, <<>>)
    BY <1>1, <1>2, <1>5, StageOf DEF BspInProgress, ApOps, When
  <2>5. \E pl2 : Moves(pl, c, q, pl2) /\ Placed(pl2)'
    BY <1>2, <2>2, <2>3, <2>4, GoPlace
  <2>6. QED
    BY <2>1, <2>2, <2>5 DEF Goes
<1>6. QED
  BY <1>1, <1>4, <1>5

\* A processor that finds Counter locked down is late; the others wait for the BSP or contend to be it.
LEMMA CheckInGoes ==
  ASSUME NEW pl, Meeting(pl), NEW c \in CPUs, CheckIn(c)
  PROVE  /\ pl[c].s = "check_in"
         /\ counter = LOCKED => Goes(pl, c, P("late", 0, 0, FALSE))
         /\ counter # LOCKED /\ local[c].inProgress => Goes(pl, c, P("await", TopK(config), 1, FALSE))
         /\ counter # LOCKED /\ ~local[c].inProgress => Goes(pl, c, P("elect", TopK(config), 0, FALSE))
<1>1. pl[c].s = "check_in" /\ pl[c] \in Place /\ Valid(config, pl[c]) /\ config \in Configs
      /\ InSmm(c)
  <2>1. At(c, "check_in")
    BY DEF CheckIn
  <2>2. QED
    BY <2>1, StageOf DEF ApOps
<1>2. Types /\ Placed(pl) /\ config' = config
  BY MeetingParts DEF CheckIn
<1>3. Tail(prog[c]) = <<>>
  <2>1. Tail(prog[c]) = Code(config, Succ(config, pl[c]))
    BY <1>1, <1>2, AtPlace
  <2>2. QED
    BY <1>1, <2>1, Numbers DEF Code, Succ, OutSucc, OutCode, P, OutStages
<1>4. ASSUME counter = LOCKED PROVE Goes(pl, c, P("late", 0, 0, FALSE))
  <2>1. PICK q : q = P("late", 0, 0, FALSE)
    OBVIOUS
  <2>2. q \in Place /\ Valid(config, q)
    BY <1>1, <2>1, <1>4, Numbers, SmmAssumption
       DEF P, Place, Valid, CPUs, Odd, Even, OutStages, PreStages, ApStages, BspStages, LoopStages,
           OneStages, AllStages, ServiceStages
  <2>3. Step("late") \o Tail(prog[c]) = Code(config, q)
    <3>1. Code(config, q) = Step("late") /\ Step("late") \in Seq(Items)
      BY <2>1, OneSeq, OpsAreOps, SmmAssumption DEF Code, P, OutCode, ApCode, OutStages, PreStages,
         ApStages, LoopStages, One, Step, CLeave
    <3>2. QED
      BY <1>3, <3>1, ConcatEmptySeq
  <2>4. Go(c, Step("late"))
    BY <1>1, <1>2, <1>4, StageOf DEF CheckIn, ApOps, When
  <2>5. \E pl2 : Moves(pl, c, q, pl2) /\ Placed(pl2)'
    BY <1>2, <2>2, <2>3, <2>4, GoPlace
  <2>6. QED
    BY <2>1, <2>2, <2>5 DEF Goes
<1>5. ASSUME counter # LOCKED
      /\ local[c].inProgress PROVE Goes(pl, c, P("await", TopK(config), 1, FALSE))
  <2>1. PICK q : q = P("await", TopK(config), 1, FALSE)
    OBVIOUS
  <2>2. q \in Place /\ Valid(config, q)
    BY <1>1, <2>1, <1>5, Numbers, SmmAssumption
       DEF P, Place, Valid, CPUs, Odd, Even, OutStages, PreStages, ApStages, BspStages, LoopStages,
           OneStages, AllStages, ServiceStages
  <2>3. (<< <<"await", 1>> >> \o Step("leave")) \o Tail(prog[c]) = Code(config, q)
    <3>1. Code(config, q) = << <<"await", 1>> >> \o Step("leave")
      BY <2>1, <1>5, Numbers DEF Code, P, OutCode, ApCode, OutStages, PreStages, ApStages,
         LoopStages, One, Step, CLeave
    <3>2. Step("leave") \in Seq(Items) /\ << <<"await", 1>> >> \in Seq(Items)
      <4>1. 0 \in 0 .. N /\ 1 \in 0 .. N
        BY SmmAssumption
      <4>2. QED
        BY <4>1, OneSeq, OpsAreOps DEF One
    <3>3. << <<"await", 1>> >> \o Step("leave") \in Seq(Items)
      BY <3>2, ConcatProperties
    <3>4. QED
      BY <1>3, <3>1, <3>3, ConcatEmptySeq
  <2>4. Go(c, (<< <<"await", 1>> >> \o Step("leave")))
    BY <1>1, <1>2, <1>5, StageOf DEF CheckIn, ApOps, When
  <2>5. \E pl2 : Moves(pl, c, q, pl2) /\ Placed(pl2)'
    BY <1>2, <2>2, <2>3, <2>4, GoPlace
  <2>6. QED
    BY <2>1, <2>2, <2>5 DEF Goes
<1>6. ASSUME counter # LOCKED
      /\ ~local[c].inProgress PROVE Goes(pl, c, P("elect", TopK(config), 0, FALSE))
  <2>1. PICK q : q = P("elect", TopK(config), 0, FALSE)
    OBVIOUS
  <2>2. q \in Place /\ Valid(config, q)
    BY <1>1, <2>1, <1>6, Numbers, SmmAssumption
       DEF P, Place, Valid, CPUs, Odd, Even, OutStages, PreStages, ApStages, BspStages, LoopStages,
           OneStages, AllStages, ServiceStages
  <2>3. (Step("elect") \o Step("leave")) \o Tail(prog[c]) = Code(config, q)
    <3>1. Code(config, q) = Step("elect") \o Step("leave")
      BY <2>1, <1>6, Numbers DEF Code, P, OutCode, ApCode, OutStages, PreStages, ApStages,
         LoopStages, One, Step, CLeave
    <3>2. Step("leave") \in Seq(Items) /\ Step("elect") \in Seq(Items)
      <4>1. 0 \in 0 .. N /\ 1 \in 0 .. N
        BY SmmAssumption
      <4>2. QED
        BY <4>1, OneSeq, OpsAreOps DEF One
    <3>3. Step("elect") \o Step("leave") \in Seq(Items)
      BY <3>2, ConcatProperties
    <3>4. QED
      BY <1>3, <3>1, <3>3, ConcatEmptySeq
  <2>4. Go(c, (Step("elect") \o Step("leave")))
    BY <1>1, <1>2, <1>6, StageOf DEF CheckIn, ApOps, When
  <2>5. \E pl2 : Moves(pl, c, q, pl2) /\ Placed(pl2)'
    BY <1>2, <2>2, <2>3, <2>4, GoPlace
  <2>6. QED
    BY <2>1, <2>2, <2>5 DEF Goes
<1>7. QED
  BY <1>1, <1>4, <1>5, <1>6

\* The winner of the election goes on in BSPHandler, the others in APHandler.
LEMMA ElectGoes ==
  ASSUME NEW pl, Meeting(pl), NEW c \in CPUs, Elect(c)
  PROVE  /\ pl[c].s = "elect"
         /\ bspIndex' = c => Goes(pl, c, P("inside", TopK(config), 0, FALSE))
         /\ bspIndex' # c => Goes(pl, c, P("await", TopK(config), 1, FALSE))
<1>1. pl[c].s = "elect" /\ pl[c] \in Place /\ Valid(config, pl[c]) /\ config \in Configs /\ InSmm(c)
  <2>1. At(c, "elect")
    BY DEF Elect
  <2>2. QED
    BY <2>1, StageOf DEF ApOps
<1>2. Types /\ Placed(pl) /\ config' = config
  BY MeetingParts DEF Elect
<1>3. Tail(prog[c]) = Step("leave")
  <2>1. Tail(prog[c]) = Code(config, Succ(config, pl[c]))
    BY <1>1, <1>2, AtPlace
  <2>2. QED
    BY <1>1, <2>1, Numbers DEF Code, Succ, ApSucc, OutCode, P, OutStages, PreStages, ApStages,
       LoopStages
<1>4. ASSUME bspIndex' = c PROVE Goes(pl, c, P("inside", TopK(config), 0, FALSE))
  <2>1. PICK q : q = P("inside", TopK(config), 0, FALSE)
    OBVIOUS
  <2>2. q \in Place /\ Valid(config, q)
    BY <1>1, <2>1, <1>4, Numbers, SmmAssumption
       DEF P, Place, Valid, CPUs, Odd, Even, OutStages, PreStages, ApStages, BspStages, LoopStages,
           OneStages, AllStages, ServiceStages
  <2>3. BSPHandler \o Tail(prog[c]) = Code(config, q)
    BY <1>1, <2>1, <1>3, BspHandlerCode
  <2>4. Go(c, BSPHandler)
    BY <1>1, <1>2, <1>4, StageOf DEF Elect, ApOps, When
  <2>5. \E pl2 : Moves(pl, c, q, pl2) /\ Placed(pl2)'
    BY <1>2, <2>2, <2>3, <2>4, GoPlace
  <2>6. QED
    BY <2>1, <2>2, <2>5 DEF Goes
<1>5. ASSUME bspIndex' # c PROVE Goes(pl, c, P("await", TopK(config), 1, FALSE))
  <2>1. PICK q : q = P("await", TopK(config), 1, FALSE)
    OBVIOUS
  <2>2. q \in Place /\ Valid(config, q)
    BY <1>1, <2>1, <1>5, Numbers, SmmAssumption
       DEF P, Place, Valid, CPUs, Odd, Even, OutStages, PreStages, ApStages, BspStages, LoopStages,
           OneStages, AllStages, ServiceStages
  <2>3. << <<"await", 1>> >> \o Tail(prog[c]) = Code(config, q)
    BY <2>1, <1>3, <1>5, Numbers DEF Code, P, OutCode, ApCode, OutStages, PreStages, ApStages,
       LoopStages, One, Step, CLeave
  <2>4. Go(c, << <<"await", 1>> >>)
    BY <1>1, <1>2, <1>5, StageOf DEF Elect, ApOps, When
  <2>5. \E pl2 : Moves(pl, c, q, pl2) /\ Placed(pl2)'
    BY <1>2, <2>2, <2>3, <2>4, GoPlace
  <2>6. QED
    BY <2>1, <2>2, <2>5 DEF Goes
<1>6. QED
  BY <1>1, <1>4, <1>5

\* APHandler after its timer: the first time it asks for the BSP, the second time it gives up.
LEMMA LookAgainGoes ==
  ASSUME NEW pl, Meeting(pl), NEW c \in CPUs, LookAgain(c)
  PROVE  /\ pl[c].s = "look"
         /\ pl[c].i = 1 => Goes(pl, c, P("ask_bsp", TopK(config), 0, FALSE))
         /\ pl[c].i # 1 => Goes(pl, c, P("give_up", TopK(config), 0, FALSE))
<1>1. pl[c].s = "look" /\ pl[c] \in Place /\ Valid(config, pl[c]) /\ config \in Configs /\ InSmm(c)
  <2>1. At(c, "look")
    BY DEF LookAgain
  <2>2. QED
    BY <2>1, StageOf DEF ApOps
<1>2. Types /\ Placed(pl) /\ config' = config
  BY MeetingParts DEF LookAgain
<1>3. Tail(prog[c]) = Step("leave")
  <2>1. Tail(prog[c]) = Code(config, Succ(config, pl[c]))
    BY <1>1, <1>2, AtPlace
  <2>2. QED
    BY <1>1, <2>1, Numbers DEF Code, Succ, ApSucc, OutCode, P, OutStages, PreStages, ApStages,
       LoopStages
<1>4. ASSUME pl[c].i = 1 PROVE Goes(pl, c, P("ask_bsp", TopK(config), 0, FALSE))
  <2>1. PICK q : q = P("ask_bsp", TopK(config), 0, FALSE)
    OBVIOUS
  <2>2. q \in Place /\ Valid(config, q)
    BY <1>1, <2>1, <1>4, Numbers, SmmAssumption
       DEF P, Place, Valid, CPUs, Odd, Even, OutStages, PreStages, ApStages, BspStages, LoopStages,
           OneStages, AllStages, ServiceStages
  <2>3. Step("ask_bsp") \o Tail(prog[c]) = Code(config, q)
    BY <2>1, <1>3, <1>4, Numbers DEF Code, P, OutCode, ApCode, OutStages, PreStages, ApStages,
       LoopStages, One, Step, CLeave
  <2>4. Go(c, Step("ask_bsp"))
    BY <1>1, <1>2, <1>4, StageOf DEF LookAgain, ApOps, When
  <2>5. \E pl2 : Moves(pl, c, q, pl2) /\ Placed(pl2)'
    BY <1>2, <2>2, <2>3, <2>4, GoPlace
  <2>6. QED
    BY <2>1, <2>2, <2>5 DEF Goes
<1>5. ASSUME pl[c].i # 1 PROVE Goes(pl, c, P("give_up", TopK(config), 0, FALSE))
  <2>1. PICK q : q = P("give_up", TopK(config), 0, FALSE)
    OBVIOUS
  <2>2. q \in Place /\ Valid(config, q)
    BY <1>1, <2>1, <1>5, Numbers, SmmAssumption
       DEF P, Place, Valid, CPUs, Odd, Even, OutStages, PreStages, ApStages, BspStages, LoopStages,
           OneStages, AllStages, ServiceStages
  <2>3. Step("give_up") \o Tail(prog[c]) = Code(config, q)
    BY <2>1, <1>3, <1>5, Numbers DEF Code, P, OutCode, ApCode, OutStages, PreStages, ApStages,
       LoopStages, One, Step, CLeave
  <2>4. Go(c, Step("give_up"))
    BY <1>1, <1>2, <1>5, StageOf DEF LookAgain, ApOps, When
  <2>5. \E pl2 : Moves(pl, c, q, pl2) /\ Placed(pl2)'
    BY <1>2, <2>2, <2>3, <2>4, GoPlace
  <2>6. QED
    BY <2>1, <2>2, <2>5 DEF Goes
<1>6. QED
  BY <1>1, <1>4, <1>5

\* The timer of APHandler ends the wait for InsideSmm.
LEMMA TimerFiresGoes ==
  ASSUME NEW pl, Meeting(pl), NEW c \in CPUs, TimerFires(c)
  PROVE  pl[c].s = "await" /\ Goes(pl, c, P("look", TopK(config), pl[c].i, FALSE))
<1>1. pl[c].s = "await" /\ pl[c] \in Place /\ Valid(config, pl[c]) /\ config \in Configs /\ InSmm(c)
  <2>1. At(c, "await")
    BY DEF TimerFires
  <2>2. QED
    BY <2>1, StageOf DEF ApOps
<1>2. Types /\ Placed(pl) /\ config' = config
  BY MeetingParts DEF TimerFires
<1>3. Tail(prog[c]) = Step("leave")
  <2>1. Tail(prog[c]) = Code(config, Succ(config, pl[c]))
    BY <1>1, <1>2, AtPlace
  <2>2. QED
    BY <1>1, <2>1, Numbers DEF Code, Succ, ApSucc, OutCode, P, OutStages, PreStages, ApStages,
       LoopStages
<1>4. Goes(pl, c, P("look", TopK(config), pl[c].i, FALSE))
  <2>1. PICK q : q = P("look", TopK(config), pl[c].i, FALSE)
    OBVIOUS
  <2>2. q \in Place /\ Valid(config, q)
    BY <1>1, <2>1, Numbers, SmmAssumption
       DEF P, Place, Valid, CPUs, Odd, Even, OutStages, PreStages, ApStages, BspStages, LoopStages,
           OneStages, AllStages, ServiceStages
  <2>3. << <<"look", pl[c].i>> >> \o Tail(prog[c]) = Code(config, q)
    BY <2>1, <1>3, Numbers DEF Code, P, OutCode, ApCode, OutStages, PreStages, ApStages, LoopStages,
       One, Step, CLeave
  <2>4. Go(c, << <<"look", pl[c].i>> >>)
    BY <1>1, <1>2, StageOf DEF TimerFires, ApOps, When
  <2>5. \E pl2 : Moves(pl, c, q, pl2) /\ Placed(pl2)'
    BY <1>2, <2>2, <2>3, <2>4, GoPlace
  <2>6. QED
    BY <2>1, <2>2, <2>5 DEF Goes
<1>5. QED
  BY <1>1, <1>4

\* Without a BSP APHandler gives up, with one it waits for InsideSmm again.
LEMMA AskBspGoes ==
  ASSUME NEW pl, Meeting(pl), NEW c \in CPUs, AskBsp(c)
  PROVE  /\ pl[c].s = "ask_bsp"
         /\ bspIndex = NoBsp => Goes(pl, c, P("give_up", TopK(config), 0, FALSE))
         /\ bspIndex # NoBsp => Goes(pl, c, P("await", TopK(config), 2, FALSE))
<1>1. pl[c].s = "ask_bsp" /\ pl[c] \in Place /\ Valid(config, pl[c]) /\ config \in Configs /\ InSmm(c)
  <2>1. At(c, "ask_bsp")
    BY DEF AskBsp
  <2>2. QED
    BY <2>1, StageOf DEF ApOps
<1>2. Types /\ Placed(pl) /\ config' = config
  BY MeetingParts DEF AskBsp
<1>3. Tail(prog[c]) = Step("leave")
  <2>1. Tail(prog[c]) = Code(config, Succ(config, pl[c]))
    BY <1>1, <1>2, AtPlace
  <2>2. QED
    BY <1>1, <2>1, Numbers DEF Code, Succ, ApSucc, OutCode, P, OutStages, PreStages, ApStages,
       LoopStages
<1>4. ASSUME bspIndex = NoBsp PROVE Goes(pl, c, P("give_up", TopK(config), 0, FALSE))
  <2>1. PICK q : q = P("give_up", TopK(config), 0, FALSE)
    OBVIOUS
  <2>2. q \in Place /\ Valid(config, q)
    BY <1>1, <2>1, <1>4, Numbers, SmmAssumption
       DEF P, Place, Valid, CPUs, Odd, Even, OutStages, PreStages, ApStages, BspStages, LoopStages,
           OneStages, AllStages, ServiceStages
  <2>3. Step("give_up") \o Tail(prog[c]) = Code(config, q)
    BY <2>1, <1>3, <1>4, Numbers DEF Code, P, OutCode, ApCode, OutStages, PreStages, ApStages,
       LoopStages, One, Step, CLeave
  <2>4. Go(c, Step("give_up"))
    BY <1>1, <1>2, <1>4, StageOf DEF AskBsp, ApOps, When
  <2>5. \E pl2 : Moves(pl, c, q, pl2) /\ Placed(pl2)'
    BY <1>2, <2>2, <2>3, <2>4, GoPlace
  <2>6. QED
    BY <2>1, <2>2, <2>5 DEF Goes
<1>5. ASSUME bspIndex # NoBsp PROVE Goes(pl, c, P("await", TopK(config), 2, FALSE))
  <2>1. PICK q : q = P("await", TopK(config), 2, FALSE)
    OBVIOUS
  <2>2. q \in Place /\ Valid(config, q)
    BY <1>1, <2>1, <1>5, Numbers, SmmAssumption
       DEF P, Place, Valid, CPUs, Odd, Even, OutStages, PreStages, ApStages, BspStages, LoopStages,
           OneStages, AllStages, ServiceStages
  <2>3. << <<"await", 2>> >> \o Tail(prog[c]) = Code(config, q)
    BY <2>1, <1>3, <1>5, Numbers DEF Code, P, OutCode, ApCode, OutStages, PreStages, ApStages,
       LoopStages, One, Step, CLeave
  <2>4. Go(c, << <<"await", 2>> >>)
    BY <1>1, <1>2, <1>5, StageOf DEF AskBsp, ApOps, When
  <2>5. \E pl2 : Moves(pl, c, q, pl2) /\ Placed(pl2)'
    BY <1>2, <2>2, <2>3, <2>4, GoPlace
  <2>6. QED
    BY <2>1, <2>2, <2>5 DEF Goes
<1>6. QED
  BY <1>1, <1>4, <1>5

\* The AP runs a procedure while the BSP is in SMM, and leaves its loop otherwise.
LEMMA TestExitGoes ==
  ASSUME NEW pl, Meeting(pl), NEW c \in CPUs, TestExit(c)
  PROVE  /\ pl[c].s = "test_exit"
         /\ inside => Goes(pl, c, P("procedure", LoopK(config), 0, FALSE))
         /\ ~inside => Goes(pl, c, P("signal", LoopK(config) - 1, 0, FALSE))
<1>1. pl[c].s = "test_exit" /\ pl[c] \in Place /\ Valid(config, pl[c]) /\ config \in Configs
      /\ InSmm(c)
  <2>1. At(c, "test_exit")
    BY DEF TestExit
  <2>2. QED
    BY <2>1, StageOf DEF ApOps
<1>2. Types /\ Placed(pl) /\ config' = config
  BY MeetingParts DEF TestExit
<1>3. Tail(prog[c]) = Step("leave")
  <2>1. Tail(prog[c]) = Code(config, Succ(config, pl[c]))
    BY <1>1, <1>2, AtPlace
  <2>2. QED
    BY <1>1, <2>1, Numbers DEF Code, Succ, ApSucc, OutCode, P, OutStages, PreStages, ApStages,
       LoopStages
<1>4. ASSUME inside PROVE Goes(pl, c, P("procedure", LoopK(config), 0, FALSE))
  <2>1. PICK q : q = P("procedure", LoopK(config), 0, FALSE)
    OBVIOUS
  <2>2. q \in Place /\ Valid(config, q)
    BY <1>1, <2>1, <1>4, Numbers, SmmAssumption
       DEF P, Place, Valid, CPUs, Odd, Even, OutStages, PreStages, ApStages, BspStages, LoopStages,
           OneStages, AllStages, ServiceStages
  <2>3. Step("procedure") \o Tail(prog[c]) = Code(config, q)
    BY <2>1, <1>3, <1>4, Numbers DEF Code, P, OutCode, ApCode, OutStages, PreStages, ApStages,
       LoopStages, One, Step, CLeave
  <2>4. Go(c, Step("procedure"))
    BY <1>1, <1>2, <1>4, StageOf DEF TestExit, ApOps, When
  <2>5. \E pl2 : Moves(pl, c, q, pl2) /\ Placed(pl2)'
    BY <1>2, <2>2, <2>3, <2>4, GoPlace
  <2>6. QED
    BY <2>1, <2>2, <2>5 DEF Goes
<1>5. ASSUME ~inside PROVE Goes(pl, c, P("signal", LoopK(config) - 1, 0, FALSE))
  <2>1. PICK q : q = P("signal", LoopK(config) - 1, 0, FALSE)
    OBVIOUS
  <2>2. q \in Place /\ Valid(config, q)
    BY <1>1, <2>1, <1>5, Numbers, SmmAssumption
       DEF P, Place, Valid, CPUs, Odd, Even, OutStages, PreStages, ApStages, BspStages, LoopStages,
           OneStages, AllStages, ServiceStages
  <2>3. APExit \o Tail(prog[c]) = Code(config, q)
    BY <1>1, <2>1, <1>3, ApHandlerCode
  <2>4. Go(c, APExit)
    BY <1>1, <1>2, <1>5, StageOf DEF TestExit, ApOps, When
  <2>5. \E pl2 : Moves(pl, c, q, pl2) /\ Placed(pl2)'
    BY <1>2, <2>2, <2>3, <2>4, GoPlace
  <2>6. QED
    BY <2>1, <2>2, <2>5 DEF Goes
<1>6. QED
  BY <1>1, <1>4, <1>5

\* The AP goes on to its token if it has one.
LEMMA RunProcedureGoes ==
  ASSUME NEW pl, Meeting(pl), NEW c \in CPUs, RunProcedure(c)
  PROVE  /\ pl[c].s = "procedure"
         /\ cpu[c].token # NoCall => Goes(pl, c, P("token", LoopK(config), 0, FALSE))
         /\ cpu[c].token = NoCall => Goes(pl, c, P("free", LoopK(config), 0, FALSE))
<1>1. pl[c].s = "procedure" /\ pl[c] \in Place /\ Valid(config, pl[c]) /\ config \in Configs
      /\ InSmm(c)
  <2>1. At(c, "procedure")
    BY DEF RunProcedure
  <2>2. QED
    BY <2>1, StageOf DEF ApOps
<1>2. Types /\ Placed(pl) /\ config' = config
  BY MeetingParts DEF RunProcedure
<1>3. Tail(prog[c]) = Step("leave")
  <2>1. Tail(prog[c]) = Code(config, Succ(config, pl[c]))
    BY <1>1, <1>2, AtPlace
  <2>2. QED
    BY <1>1, <2>1, Numbers DEF Code, Succ, ApSucc, OutCode, P, OutStages, PreStages, ApStages,
       LoopStages
<1>4. ASSUME cpu[c].token # NoCall PROVE Goes(pl, c, P("token", LoopK(config), 0, FALSE))
  <2>1. PICK q : q = P("token", LoopK(config), 0, FALSE)
    OBVIOUS
  <2>2. q \in Place /\ Valid(config, q)
    BY <1>1, <2>1, <1>4, Numbers, SmmAssumption
       DEF P, Place, Valid, CPUs, Odd, Even, OutStages, PreStages, ApStages, BspStages, LoopStages,
           OneStages, AllStages, ServiceStages
  <2>3. (Step("token") \o Step("free")) \o Tail(prog[c]) = Code(config, q)
    <3>0. 0 \in 0 .. N
      BY SmmAssumption
    <3>1. Step("token") \in Seq(Items) /\ Step("free") \in Seq(Items) /\ Step("leave") \in Seq(Items)
      BY <3>0, OneSeq, OpsAreOps
    <3>2. (Step("token") \o Step("free")) \o Step("leave") = Step("token") \o (Step("free") \o Step("leave"))
      BY <3>1, ConcatAssociative
    <3>3. Code(config, q) = Step("token") \o (Step("free") \o Step("leave"))
      BY <2>1 DEF Code, P, ApCode, OutStages, PreStages, ApStages, LoopStages, CLeave, AIdle
    <3>4. QED
      BY <1>3, <3>2, <3>3
  <2>4. Go(c, (Step("token") \o Step("free")))
    BY <1>1, <1>2, <1>4, StageOf DEF RunProcedure, ApOps, When
  <2>5. \E pl2 : Moves(pl, c, q, pl2) /\ Placed(pl2)'
    BY <1>2, <2>2, <2>3, <2>4, GoPlace
  <2>6. QED
    BY <2>1, <2>2, <2>5 DEF Goes
<1>5. ASSUME cpu[c].token = NoCall PROVE Goes(pl, c, P("free", LoopK(config), 0, FALSE))
  <2>1. PICK q : q = P("free", LoopK(config), 0, FALSE)
    OBVIOUS
  <2>2. q \in Place /\ Valid(config, q)
    BY <1>1, <2>1, <1>5, Numbers, SmmAssumption
       DEF P, Place, Valid, CPUs, Odd, Even, OutStages, PreStages, ApStages, BspStages, LoopStages,
           OneStages, AllStages, ServiceStages
  <2>3. (<<>> \o Step("free")) \o Tail(prog[c]) = Code(config, q)
    <3>1. Step("free") \in Seq(Items)
      BY OneSeq, OpsAreOps, SmmAssumption
    <3>2. <<>> \o Step("free") = Step("free")
      BY <3>1, ConcatEmptySeq
    <3>3. Code(config, q) = Step("free") \o Step("leave")
      BY <2>1 DEF Code, P, OutCode, ApCode, OutStages, PreStages, ApStages, LoopStages, One, Step,
         CLeave
    <3>4. QED
      BY <1>3, <3>2, <3>3
  <2>4. Go(c, (<<>> \o Step("free")))
    BY <1>1, <1>2, <1>5, StageOf DEF RunProcedure, ApOps, When
  <2>5. \E pl2 : Moves(pl, c, q, pl2) /\ Placed(pl2)'
    BY <1>2, <2>2, <2>3, <2>4, GoPlace
  <2>6. QED
    BY <2>1, <2>2, <2>5 DEF Goes
<1>6. QED
  BY <1>1, <1>4, <1>5

\* With Busy released, the AP is idle again.
LEMMA FreeBusyGoes ==
  ASSUME NEW pl, Meeting(pl), NEW c \in CPUs, FreeBusy(c)
  PROVE  pl[c].s = "free" /\ Goes(pl, c, P("idle", LoopK(config), 0, FALSE))
<1>1. pl[c].s = "free" /\ pl[c] \in Place /\ Valid(config, pl[c]) /\ config \in Configs /\ InSmm(c)
  <2>1. At(c, "free")
    BY DEF FreeBusy
  <2>2. QED
    BY <2>1, StageOf DEF ApOps
<1>2. Types /\ Placed(pl) /\ config' = config
  BY MeetingParts DEF FreeBusy
<1>3. Tail(prog[c]) = Step("leave")
  <2>1. Tail(prog[c]) = Code(config, Succ(config, pl[c]))
    BY <1>1, <1>2, AtPlace
  <2>2. QED
    BY <1>1, <2>1, Numbers DEF Code, Succ, ApSucc, OutCode, P, OutStages, PreStages, ApStages,
       LoopStages
<1>4. Goes(pl, c, P("idle", LoopK(config), 0, FALSE))
  <2>1. PICK q : q = P("idle", LoopK(config), 0, FALSE)
    OBVIOUS
  <2>2. q \in Place /\ Valid(config, q)
    BY <1>1, <2>1, Numbers, SmmAssumption
       DEF P, Place, Valid, CPUs, Odd, Even, OutStages, PreStages, ApStages, BspStages, LoopStages,
           OneStages, AllStages, ServiceStages
  <2>3. Step("idle") \o Tail(prog[c]) = Code(config, q)
    BY <2>1, <1>3, Numbers DEF Code, P, OutCode, ApCode, OutStages, PreStages, ApStages, LoopStages,
       One, Step, CLeave
  <2>4. Go(c, Step("idle"))
    BY <1>1, <1>2, StageOf DEF FreeBusy, ApOps, When
  <2>5. \E pl2 : Moves(pl, c, q, pl2) /\ Placed(pl2)'
    BY <1>2, <2>2, <2>3, <2>4, GoPlace
  <2>6. QED
    BY <2>1, <2>2, <2>5 DEF Goes
<1>5. QED
  BY <1>1, <1>4

\* DispatchProcedure goes on to Busy of the AP.
LEMMA DispatchGoes ==
  ASSUME NEW pl, Meeting(pl), NEW c \in CPUs, NEW i \in CPUs, NEW blocking \in BOOLEAN,
         DispatchProcedure(c, i, blocking)
  PROVE  pl[c].s = "handlers" /\ Goes(pl, c, P("acquire", LoopK(config), i, blocking))
<1>1. pl[c].s = "handlers" /\ pl[c] \in Place /\ Valid(config, pl[c]) /\ config \in Configs
      /\ InSmm(c)
  <2>1. At(c, "handlers")
    BY DEF DispatchProcedure
  <2>2. QED
    BY <2>1, StageOf DEF ApOps
<1>2. Types /\ Placed(pl) /\ config' = config
  BY MeetingParts DEF DispatchProcedure
<1>3. Tail(prog[c]) = CNot(config, 1)
  <2>1. Tail(prog[c]) = Code(config, Succ(config, pl[c]))
    BY <1>1, <1>2, AtPlace
  <2>2. QED
    BY <1>1, <2>1, Numbers DEF Code, Succ, BspSucc, BspCode, P, OutStages, PreStages, ApStages,
       LoopStages, ServiceStages, OneStages, AllStages
<1>4. Goes(pl, c, P("acquire", LoopK(config), i, blocking))
  <2>1. PICK q : q = P("acquire", LoopK(config), i, blocking)
    OBVIOUS
  <2>2. q \in Place /\ Valid(config, q)
    BY <1>1, <2>1, Numbers, SmmAssumption
       DEF P, Place, Valid, CPUs, Odd, Even, OutStages, PreStages, ApStages, BspStages, LoopStages,
           OneStages, AllStages, ServiceStages
  <2>3. (StartupThisAp(i, blocking) \o Step("handlers")) \o Tail(prog[c]) = Code(config, q)
    <3>1. Code(config, q) = CAcq(config, i, blocking)
      BY <2>1 DEF Code, P, ServiceCode, OutStages, PreStages, ApStages, LoopStages, ServiceStages,
         OneStages, AllStages
    <3>2. QED
      BY <1>1, <1>3, <3>1, StartupCode
  <2>4. Go(c, (StartupThisAp(i, blocking) \o Step("handlers")))
    BY <1>1, <1>2, StageOf DEF DispatchProcedure, ApOps, When
  <2>5. \E pl2 : Moves(pl, c, q, pl2) /\ Placed(pl2)'
    BY <1>2, <2>2, <2>3, <2>4, GoPlace
  <2>6. QED
    BY <2>1, <2>2, <2>5 DEF Goes
<1>5. QED
  BY <1>1, <1>4

\* SmmStartupThisAp goes on to the wrapper of the AP.
LEMMA StartupGoes ==
  ASSUME NEW pl, Meeting(pl), NEW c \in CPUs, NEW i \in CPUs, SmmStartupThisAp(c, i)
  PROVE  pl[c].s = "handlers" /\ Goes(pl, c, P("wrap", LoopK(config), i, FALSE))
<1>1. pl[c].s = "handlers" /\ pl[c] \in Place /\ Valid(config, pl[c]) /\ config \in Configs
      /\ InSmm(c)
  <2>1. At(c, "handlers")
    BY DEF SmmStartupThisAp
  <2>2. QED
    BY <2>1, StageOf DEF ApOps
<1>2. Types /\ Placed(pl) /\ config' = config
  BY MeetingParts DEF SmmStartupThisAp
<1>3. Tail(prog[c]) = CNot(config, 1)
  <2>1. Tail(prog[c]) = Code(config, Succ(config, pl[c]))
    BY <1>1, <1>2, AtPlace
  <2>2. QED
    BY <1>1, <2>1, Numbers DEF Code, Succ, BspSucc, BspCode, P, OutStages, PreStages, ApStages,
       LoopStages, ServiceStages, OneStages, AllStages
<1>4. Goes(pl, c, P("wrap", LoopK(config), i, FALSE))
  <2>1. PICK q : q = P("wrap", LoopK(config), i, FALSE)
    OBVIOUS
  <2>2. q \in Place /\ Valid(config, q)
    BY <1>1, <2>1, Numbers, SmmAssumption
       DEF P, Place, Valid, CPUs, Odd, Even, OutStages, PreStages, ApStages, BspStages, LoopStages,
           OneStages, AllStages, ServiceStages
  <2>3. << <<"wrap", i>> >> \o Tail(prog[c]) = Code(config, q)
    <3>1. Code(config, q) = CWrap(config, i)
      BY <2>1 DEF Code, P, ServiceCode, OutStages, PreStages, ApStages, LoopStages, ServiceStages,
         OneStages, AllStages
    <3>2. QED
      BY <1>3, <3>1 DEF CWrap, One
  <2>4. Go(c, << <<"wrap", i>> >>)
    BY <1>1, <1>2, StageOf DEF SmmStartupThisAp, ApOps, When
  <2>5. \E pl2 : Moves(pl, c, q, pl2) /\ Placed(pl2)'
    BY <1>2, <2>2, <2>3, <2>4, GoPlace
  <2>6. QED
    BY <2>1, <2>2, <2>5 DEF Goes
<1>5. QED
  BY <1>1, <1>4

\* BroadcastProcedure goes on to Busy of every present AP.
LEMMA BroadcastGoes ==
  ASSUME NEW pl, Meeting(pl), NEW c \in CPUs, NEW blocking \in BOOLEAN, Gathers(config),
         BroadcastProcedure(c, blocking)
  PROVE  pl[c].s = "handlers" /\ Goes(pl, c, P("acquire_present", LoopK(config), 1, blocking))
<1>1. pl[c].s = "handlers" /\ pl[c] \in Place /\ Valid(config, pl[c]) /\ config \in Configs
      /\ InSmm(c)
  <2>1. At(c, "handlers")
    BY DEF BroadcastProcedure
  <2>2. QED
    BY <2>1, StageOf DEF ApOps
<1>2. Types /\ Placed(pl) /\ config' = config
  BY MeetingParts DEF BroadcastProcedure
<1>3. Tail(prog[c]) = CNot(config, 1)
  <2>1. Tail(prog[c]) = Code(config, Succ(config, pl[c]))
    BY <1>1, <1>2, AtPlace
  <2>2. QED
    BY <1>1, <2>1, Numbers DEF Code, Succ, BspSucc, BspCode, P, OutStages, PreStages, ApStages,
       LoopStages, ServiceStages, OneStages, AllStages
<1>4. Goes(pl, c, P("acquire_present", LoopK(config), 1, blocking))
  <2>1. PICK q : q = P("acquire_present", LoopK(config), 1, blocking)
    OBVIOUS
  <2>2. q \in Place /\ Valid(config, q)
    BY <1>1, <2>1, Numbers, SmmAssumption
       DEF P, Place, Valid, CPUs, Odd, Even, OutStages, PreStages, ApStages, BspStages, LoopStages,
           OneStages, AllStages, ServiceStages
  <2>3. (StartupAllAPs(blocking) \o Step("handlers")) \o Tail(prog[c]) = Code(config, q)
    <3>0. 1 \in CPUs
      BY SmmAssumption DEF CPUs
    <3>1. Code(config, q) = CAcqA(config, 1, blocking)
      BY <2>1 DEF Code, P, ServiceCode, OutStages, PreStages, ApStages, LoopStages, ServiceStages,
         OneStages, AllStages
    <3>2. QED
      BY <1>1, <1>3, <3>0, <3>1, StartupCode
  <2>4. Go(c, (StartupAllAPs(blocking) \o Step("handlers")))
    BY <1>1, <1>2, StageOf DEF BroadcastProcedure, ApOps, When
  <2>5. \E pl2 : Moves(pl, c, q, pl2) /\ Placed(pl2)'
    BY <1>2, <2>2, <2>3, <2>4, GoPlace
  <2>6. QED
    BY <2>1, <2>2, <2>5 DEF Goes
<1>5. QED
  BY <1>1, <1>4

\* SmmStartupThisAp starts the AP if it is present, and goes back to the handlers otherwise.
LEMMA WrapGoes ==
  ASSUME NEW pl, Meeting(pl), NEW c \in CPUs, Wrap(c)
  PROVE  /\ pl[c].s = "wrap"
         /\ IsPresentAp(c, pl[c].i) => Goes(pl, c, P("acquire", LoopK(config), pl[c].i, FALSE))
         /\ ~IsPresentAp(c, pl[c].i) => Goes(pl, c, P("handlers", LoopK(config), 0, FALSE))
<1>1. pl[c].s = "wrap" /\ pl[c] \in Place /\ Valid(config, pl[c]) /\ config \in Configs /\ InSmm(c)
  <2>1. At(c, "wrap")
    BY DEF Wrap
  <2>2. QED
    BY <2>1, StageOf DEF ApOps
<1>2. Types /\ Placed(pl) /\ config' = config
  BY MeetingParts DEF Wrap
<1>3. Tail(prog[c]) = CNot(config, 1)
  <2>1. Tail(prog[c]) = Code(config, Succ(config, pl[c]))
    BY <1>1, <1>2, AtPlace
  <2>2. QED
    BY <1>1, <2>1, Numbers DEF Code, Succ, ServiceSucc, BspCode, P, OutStages, PreStages, ApStages,
       LoopStages, ServiceStages, OneStages, AllStages
<1>4. ASSUME IsPresentAp(c, pl[c].i) PROVE Goes(pl, c, P("acquire", LoopK(config), pl[c].i, FALSE))
  <2>1. PICK q : q = P("acquire", LoopK(config), pl[c].i, FALSE)
    OBVIOUS
  <2>2. q \in Place /\ Valid(config, q)
    BY <1>1, <2>1, <1>4, Numbers, SmmAssumption
       DEF P, Place, Valid, CPUs, Odd, Even, OutStages, PreStages, ApStages, BspStages, LoopStages,
           OneStages, AllStages, ServiceStages
  <2>3. (StartupThisAp(pl[c].i, FALSE) \o Step("handlers")) \o Tail(prog[c]) = Code(config, q)
    <3>0. pl[c].i \in CPUs
      BY <1>1 DEF Valid, ServiceStages
    <3>1. Code(config, q) = CAcq(config, pl[c].i, FALSE)
      BY <2>1 DEF Code, P, ServiceCode, OutStages, PreStages, ApStages, LoopStages, ServiceStages,
         OneStages, AllStages
    <3>2. QED
      BY <1>1, <1>3, <3>0, <3>1, StartupCode
  <2>4. Go(c, (StartupThisAp(pl[c].i, FALSE) \o Step("handlers")))
    BY <1>1, <1>2, <1>4, StageOf DEF Wrap, ApOps, When
  <2>5. \E pl2 : Moves(pl, c, q, pl2) /\ Placed(pl2)'
    BY <1>2, <2>2, <2>3, <2>4, GoPlace
  <2>6. QED
    BY <2>1, <2>2, <2>5 DEF Goes
<1>5. ASSUME ~IsPresentAp(c, pl[c].i) PROVE Goes(pl, c, P("handlers", LoopK(config), 0, FALSE))
  <2>1. PICK q : q = P("handlers", LoopK(config), 0, FALSE)
    OBVIOUS
  <2>2. q \in Place /\ Valid(config, q)
    BY <1>1, <2>1, <1>5, Numbers, SmmAssumption
       DEF P, Place, Valid, CPUs, Odd, Even, OutStages, PreStages, ApStages, BspStages, LoopStages,
           OneStages, AllStages, ServiceStages
  <2>3. (<<>> \o Step("handlers")) \o Tail(prog[c]) = Code(config, q)
    <3>1. Step("handlers") \in Seq(Items)
      BY OneSeq, OpsAreOps, SmmAssumption
    <3>2. <<>> \o Step("handlers") = Step("handlers")
      BY <3>1, ConcatEmptySeq
    <3>3. Code(config, q) = Step("handlers") \o CNot(config, 1)
      BY <2>1 DEF Code, P, BspCode, CHand, OutStages, PreStages, ApStages, LoopStages, ServiceStages,
         OneStages, AllStages
    <3>4. QED
      BY <1>3, <3>2, <3>3
  <2>4. Go(c, (<<>> \o Step("handlers")))
    BY <1>1, <1>2, <1>5, StageOf DEF Wrap, ApOps, When
  <2>5. \E pl2 : Moves(pl, c, q, pl2) /\ Placed(pl2)'
    BY <1>2, <2>2, <2>3, <2>4, GoPlace
  <2>6. QED
    BY <2>1, <2>2, <2>5 DEF Goes
<1>6. QED
  BY <1>1, <1>4, <1>5

\* An AP that sees the BSP in SMM looks up its index.
LEMMA BspSeenGoes ==
  ASSUME NEW pl, Meeting(pl), NEW c \in CPUs, BspSeen(c)
  PROVE  pl[c].s \in {"await", "look"} /\ Goes(pl, c, P("find_bsp", TopK(config), 0, FALSE))
<1>1. pl[c].s \in {"await", "look"} /\ pl[c] \in Place /\ Valid(config, pl[c]) /\ config \in Configs
      /\ InSmm(c)
  <2>1. At(c, "await") \/ At(c, "look")
    BY DEF BspSeen
  <2>2. QED
    BY <2>1, StageOf DEF ApOps
<1>2. Types /\ Placed(pl) /\ config' = config
  BY MeetingParts DEF BspSeen
<1>3. Tail(prog[c]) = Step("leave")
  <2>1. Tail(prog[c]) = Code(config, Succ(config, pl[c]))
    BY <1>1, <1>2, AtPlace
  <2>2. QED
    BY <1>1, <2>1 DEF Code, Succ, ApSucc, OutCode, P, OutStages, PreStages, ApStages, LoopStages
<1>4. PICK q : q = P("find_bsp", TopK(config), 0, FALSE)
  OBVIOUS
<1>5. q \in Place /\ Valid(config, q)
  BY <1>1, <1>4, Numbers, SmmAssumption
     DEF P, Place, Valid, CPUs, Odd, Even, OutStages, PreStages, ApStages, BspStages, LoopStages,
         OneStages, AllStages, ServiceStages
<1>6. APHandler \o Tail(prog[c]) = Code(config, q)
  BY <1>1, <1>3, <1>4, ApHandlerCode
<1>7. Go(c, APHandler)
  BY DEF BspSeen
<1>8. \E pl2 : Moves(pl, c, q, pl2) /\ Placed(pl2)'
  BY <1>2, <1>5, <1>6, <1>7, GoPlace
<1>9. QED
  BY <1>1, <1>4, <1>5, <1>8 DEF Goes

\* An AP whose Run has been released goes on.
LEMMA WaitForRunGoes ==
  ASSUME NEW pl, Meeting(pl), NEW c \in CPUs, WaitForRun(c)
  PROVE  /\ pl[c].s \in {"wait", "idle"}
         /\ pl[c].s = "wait" => Goes(pl, c, Succ(config, pl[c]))
         /\ pl[c].s = "idle" => Goes(pl, c, P("test_exit", LoopK(config), 0, FALSE))
<1>1. /\ pl[c].s \in {"wait", "idle"} /\ pl[c] \in Place /\ Valid(config, pl[c])
         /\ config \in Configs /\ InSmm(c)
      /\ At(c, "idle") <=> pl[c].s = "idle"
  <2>1. At(c, "wait") \/ At(c, "idle")
    BY DEF WaitForRun
  <2>2. QED
    BY <2>1, StageOf DEF ApOps
<1>2. Types /\ Placed(pl) /\ config' = config
  BY MeetingParts DEF WaitForRun
<1>3. CASE pl[c].s = "wait"
  <2>1. Done(c)
    BY <1>1, <1>3 DEF WaitForRun, Done, When
  <2>2. QED
    BY <1>1, <1>2, <1>3, <2>1, DonePlace
<1>4. CASE pl[c].s = "idle"
  <2>1. PICK q : q = P("test_exit", LoopK(config), 0, FALSE)
    OBVIOUS
  <2>2. q \in Place /\ Valid(config, q)
    BY <1>1, <2>1, Numbers, SmmAssumption
       DEF P, Place, Valid, CPUs, Odd, Even, OutStages, PreStages, ApStages, BspStages, LoopStages,
           OneStages, AllStages, ServiceStages
  <2>3. Tail(prog[c]) = Step("leave")
    <3>1. Tail(prog[c]) = Code(config, Succ(config, pl[c]))
      BY <1>1, <1>2, AtPlace
    <3>2. QED
      BY <1>4, <3>1 DEF Code, Succ, ApSucc, OutCode, P, OutStages, PreStages, ApStages, LoopStages
  <2>4. Step("test_exit") \o Tail(prog[c]) = Code(config, q)
    BY <2>1, <2>3 DEF Code, P, OutCode, ApCode, OutStages, PreStages, ApStages, LoopStages, One,
       Step, CLeave
  <2>5. Go(c, Step("test_exit"))
    BY <1>1, <1>4 DEF WaitForRun, When
  <2>6. \E pl2 : Moves(pl, c, q, pl2) /\ Placed(pl2)'
    BY <1>2, <2>2, <2>4, <2>5, GoPlace
  <2>7. QED
    BY <1>4, <2>1, <2>2, <2>6 DEF Goes
<1>5. QED
  BY <1>1, <1>3, <1>4

-----------------------------------------------------------------------------
(***************************************************************************)
(* Every step keeps the invariant: the steps outside the rendezvous.       *)
(***************************************************************************)
Keeps(pl, c, q) == \E r, pl2 : r \in Place /\ r = q /\ Moves(pl, c, r, pl2) /\ Meeting(pl2)'

\* A step leaves the processors within those the platform has.
LEMMA CpusFrame ==
  ASSUME NEW pl, Meeting(pl), NEW c \in CPUs, NEW q, NEW pl2, Moves(pl, c, q, pl2),
         pl[c].s # "out" \/ platform.pending[c], config' = config,
         bspIndex' = bspIndex \/ bspIndex' = NoBsp \/ bspIndex' = c,
         \A x \in CPUs : platform'.pending[x] => platform.pending[x] \/ x <= config.cpus
  PROVE  CpusInv(pl2)'
<1>1. config.cpus \in 1 .. N
  BY MeetingParts, SmmAssumption
<1>2. QED
  BY <1>1, MeetingParts DEF CpusInv, Moves, NoBsp

\* A processor enters SmiRendezvous.
LEMMA EnterKeeps ==
  ASSUME NEW pl, Meeting(pl), NEW c \in CPUs, Enter(c)
  PROVE  Keeps(pl, c, P("valid_smi", 0, 0, FALSE))
<1>1. PICK q, pl2 : q \in Place /\ q = P("valid_smi", 0, 0, FALSE) /\ Moves(pl, c, q, pl2)
      /\ Placed(pl2)'
  BY EnterGoes DEF Goes
<1>2. pl[c].s = "out" /\ q.s = "valid_smi"
  BY <1>1, EnterGoes DEF P
<1>3. IsOut(pl[c]) /\ IsOut(q)
  BY <1>2 DEF IsOut, OutStages
<1>4. platform' = [platform EXCEPT !.pending[c] = FALSE] /\ platform.pending[c]
  BY DEF Enter
<1>5. Types'
  <2>1. platform' \in PlatformData
    BY <1>4, MeetingParts DEF Types, PlatformData
  <2>2. QED
    BY <2>1, MeetingParts DEF Types, Enter
<1>6. CpusInv(pl2)'
  <2>1. \A x \in CPUs : platform'.pending[x] => platform.pending[x]
    BY <1>4, MeetingParts DEF Types, PlatformData
  <2>2. QED
    BY <1>1, <1>4, <2>1, CpusFrame DEF Enter
<1>7. Meeting(pl2)'
  BY <1>1, <1>3, <1>5, <1>6, OutFrame DEF Enter
<1>8. QED
  BY <1>1, <1>7 DEF Keeps

\* A processor asks the platform whether the SMI is valid.
LEMMA ValidSmiKeeps ==
  ASSUME NEW pl, Meeting(pl), NEW c \in CPUs, PlatformValidSmi(c)
  PROVE  Keeps(pl, c, Succ(config, pl[c]))
<1>1. pl[c].s = "valid_smi" /\ InSmm(c)
  BY StageOf DEF PlatformValidSmi, ApOps
<1>2. Goes(pl, c, Succ(config, pl[c]))
  BY <1>1, MeetingParts, DonePlace DEF PlatformValidSmi
<1>3. PICK q, pl2 : q \in Place /\ q = Succ(config, pl[c]) /\ Moves(pl, c, q, pl2) /\ Placed(pl2)'
  BY <1>2 DEF Goes
<1>4. IsOut(pl[c]) /\ IsOut(q)
  BY <1>1, <1>3 DEF IsOut, OutStages, Succ, OutSucc, P
<1>5. local' = [local EXCEPT ![c].valid = platform.status]
  BY DEF PlatformValidSmi
<1>6. Types'
  <2>1. platform.status \in BOOLEAN /\ local \in LocalData
    BY MeetingParts DEF Types, PlatformData
  <2>2. local' \in LocalData
    BY <1>5, <2>1 DEF LocalData
  <2>3. QED
    BY <2>2, MeetingParts DEF Types, PlatformValidSmi
<1>7. CpusInv(pl2)'
  BY <1>1, <1>3, CpusFrame DEF PlatformValidSmi
<1>8. Meeting(pl2)'
  BY <1>3, <1>4, <1>5, <1>6, <1>7, MeetingParts, OutFrame DEF Types, LocalData, PlatformValidSmi
<1>9. QED
  BY <1>3, <1>8 DEF Keeps

\* A processor looks whether an SMI is in progress.
LEMMA InProgressKeeps ==
  ASSUME NEW pl, Meeting(pl), NEW c \in CPUs, BspInProgress(c)
  PROVE  \E s \in {"check_in", "out"} : Keeps(pl, c, P(s, 0, 0, FALSE))
<1>1. PICK s \in {"check_in", "out"} : Goes(pl, c, P(s, 0, 0, FALSE))
  BY InProgressGoes
<1>2. PICK q, pl2 : q \in Place /\ q = P(s, 0, 0, FALSE) /\ Moves(pl, c, q, pl2) /\ Placed(pl2)'
  BY <1>1 DEF Goes
<1>3. pl[c].s = "in_progress"
  BY InProgressGoes
<1>4. IsOut(pl[c]) /\ IsOut(q)
  BY <1>2, <1>3 DEF IsOut, OutStages, P
<1>5. local' = [local EXCEPT ![c].inProgress = inside]
  BY DEF BspInProgress
<1>6. Types'
  <2>1. local' \in LocalData
    BY <1>5, MeetingParts DEF Types, LocalData
  <2>2. QED
    BY <2>1, MeetingParts DEF Types, BspInProgress
<1>7. CpusInv(pl2)'
  BY <1>2, <1>3, CpusFrame DEF BspInProgress
<1>8. Meeting(pl2)'
  BY <1>2, <1>4, <1>5, <1>6, <1>7, MeetingParts, OutFrame DEF Types, LocalData, BspInProgress
<1>9. QED
  BY <1>2, <1>8 DEF Keeps

\* A processor returns from SmiRendezvous.
LEMMA LeaveKeeps ==
  ASSUME NEW pl, Meeting(pl), NEW c \in CPUs, Leave(c)
  PROVE  Keeps(pl, c, Succ(config, pl[c]))
<1>1. pl[c].s \in {"leave", "late"} /\ InSmm(c)
  BY StageOf DEF Leave, ApOps
<1>2. Goes(pl, c, Succ(config, pl[c]))
  BY <1>1, MeetingParts, DonePlace DEF Leave
<1>3. PICK q, pl2 : q \in Place /\ q = Succ(config, pl[c]) /\ Moves(pl, c, q, pl2) /\ Placed(pl2)'
  BY <1>2 DEF Goes
<1>4. IsOut(pl[c]) /\ IsOut(q)
  BY <1>1, <1>3 DEF IsOut, OutStages, Succ, OutSucc, P
<1>5. local' = [local EXCEPT ![c] = Local0]
  BY DEF Leave
<1>6. Types'
  BY <1>5, MeetingParts, SmmAssumption DEF Types, Leave, Local0, NoBsp, LocalData
<1>7. CpusInv(pl2)'
  BY <1>1, <1>3, CpusFrame DEF Leave
<1>8. Meeting(pl2)'
  BY <1>3, <1>4, <1>5, <1>6, <1>7, MeetingParts, OutFrame DEF Types, LocalData, Leave
<1>9. QED
  BY <1>3, <1>8 DEF Keeps

\* The BSP clears AllCpusInSync after it has reopened Counter.
LEMMA ResetSyncKeeps ==
  ASSUME NEW pl, Meeting(pl), NEW c \in CPUs, ResetSync(c)
  PROVE  Keeps(pl, c, Succ(config, pl[c]))
<1>1. pl[c].s = "reset_sync" /\ InSmm(c)
  BY StageOf DEF ResetSync, ApOps
<1>2. Goes(pl, c, Succ(config, pl[c]))
  BY <1>1, MeetingParts, DonePlace DEF ResetSync
<1>3. PICK q, pl2 : q \in Place /\ q = Succ(config, pl[c]) /\ Moves(pl, c, q, pl2) /\ Placed(pl2)'
  BY <1>2 DEF Goes
<1>4. IsOut(pl[c]) /\ IsOut(q)
  BY <1>1, <1>3 DEF IsOut, OutStages, Succ, OutSucc, P
<1>5. Types'
  BY MeetingParts DEF Types, ResetSync
<1>6. CpusInv(pl2)'
  BY <1>1, <1>3, CpusFrame DEF ResetSync
<1>7. Meeting(pl2)'
  BY <1>3, <1>4, <1>5, <1>6, OutFrame DEF ResetSync
<1>8. QED
  BY <1>3, <1>7 DEF Keeps

-----------------------------------------------------------------------------
(***************************************************************************)
(* Checking in, and waiting for the BSP.                                   *)
(***************************************************************************)
\* A BSP that has not locked Counter down is waiting for APs to arrive.
LEMMA UnlockedArrives ==
  ASSUME NEW g \in Configs, NEW p \in Place, Valid(g, p), IsAtBsp(p), ~Locked(g, p)
  PROVE  Arriving(g, p) /\ p.k # 0 /\ ~Final(p)
BY Numbers DEF Place, Valid, IsAtBsp, Locked, Arriving, Final, BspStages, OneStages, AllStages,
               ServiceStages, Odd, Even

\* The processors, those that have checked in and those that follow the BSP are finitely many.
LEMMA CountedFinite ==
  ASSUME NEW pl
  PROVE  /\ IsFiniteSet(CPUs) /\ Cardinality(CPUs) = N
         /\ IsFiniteSet(Counted(pl)) /\ Cardinality(Counted(pl)) \in 0 .. N
         /\ IsFiniteSet(Aps(pl)) /\ Cardinality(Aps(pl)) \in 0 .. N
<1>1. IsFiniteSet(CPUs) /\ Cardinality(CPUs) = N
  BY SmmAssumption, FS_Interval DEF CPUs
<1>2. Counted(pl) \subseteq CPUs /\ Aps(pl) \subseteq CPUs
  BY DEF Counted, Aps
<1>3. QED
  BY <1>1, <1>2, FS_Subset, FS_CardinalityType, SmmAssumption

\* A processor joins or leaves while the counter is open.
LEMMA CountFrame ==
  ASSUME NEW pl, Meeting(pl), NEW c \in CPUs, NEW q, NEW pl2, Moves(pl, c, q, pl2), Placed(pl2)',
         (IsOut(pl[c]) /\ IsPre(q)) \/ (IsPre(pl[c]) /\ IsOut(q)),
         counter # LOCKED, counter' = Cardinality(Counted(pl2)),
         Types', CpusInv(pl2)',
         inside' = inside, bspIndex' = bspIndex, config' = config, local' = local,
         \A x \in CPUs : /\ x # c => cpu'[x] = cpu[x]
                         /\ cpu'[x].run = cpu[x].run /\ cpu'[x].present = cpu[x].present,
         IsPre(q) => ~cpu'[c].busy
  PROVE  Meeting(pl2)'
<1>1. /\ pl \in [CPUs -> Place] /\ pl2 \in [CPUs -> Place] /\ pl2[c] = q /\ q \in Place
      /\ \A x \in CPUs : x # c => pl2[x] = pl[x]
  BY MeetingParts DEF Moves
<1>2. ~IsAp(pl[c]) /\ ~IsAp(q) /\ ~IsAtBsp(pl[c]) /\ ~IsAtBsp(q) /\ q.s \notin LoopStages
  BY <1>1, Kinds
<1>3. \A x \in CPUs : /\ IsAp(pl2[x]) <=> IsAp(pl[x])
                      /\ IsAtBsp(pl2[x]) <=> IsAtBsp(pl[x])
  BY <1>1, <1>2
<1>4. \A x \in CPUs : IsAp(pl[x]) \/ IsAtBsp(pl[x]) => x # c /\ pl2[x] = pl[x]
  BY <1>1, <1>2
<1>5. \A x \in CPUs : IsAtBsp(pl[x]) =>
        /\ ~Locked(config, pl[x]) /\ Arriving(config, pl[x]) /\ pl[x].k # 0 /\ ~Final(pl[x])
  <2>1. \A x \in CPUs : IsAtBsp(pl[x]) => ~Locked(config, pl[x])
    BY MeetingParts DEF CounterInv
  <2>2. QED
    BY <2>1, MeetingParts, UnlockedArrives DEF Placed
<1>6. /\ bspIndex \in {NoBsp} \cup CPUs /\ NoBsp \notin CPUs
  BY MeetingParts DEF Types, NoBsp, CPUs
<1>7. IndexInv(pl2)'
  BY <1>1, <1>3, <1>4, <1>6, MeetingParts DEF IndexInv
<1>8. InsideInv(pl2)'
  BY <1>1, <1>3, <1>4, <1>6, MeetingParts DEF InsideInv
<1>9. CounterInv(pl2)'
  BY <1>3, <1>4, <1>5 DEF CounterInv
<1>10. LateInv(pl2)'
  <2>1. Cardinality(Counted(pl2)) \in 0 .. N
    BY CountedFinite
  <2>2. counter' # LOCKED
    BY <2>1, SmmAssumption DEF LOCKED
  <2>3. QED
    BY <2>2 DEF LateInv
<1>11. ArriveInv(pl2)'
  BY <1>3, <1>4, <1>5 DEF ArriveInv
<1>12. PairInv(pl2)'
  <2> SUFFICES ASSUME NEW x \in CPUs, IsAp(pl2[x])
               PROVE  (bspIndex # NoBsp /\ PairOK(pl2, pl2[bspIndex], x))'
    BY DEF PairInv
  <2>1. bspIndex # NoBsp /\ PairOK(pl, pl[bspIndex], x) /\ bspIndex \in CPUs
    BY <1>3, <1>6, MeetingParts DEF PairInv
  <2>2. IsAtBsp(pl[bspIndex])
    BY <2>1 DEF PairOK
  <2>3. pl2[bspIndex] = pl[bspIndex] /\ pl2[x] = pl[x]
    BY <1>3, <1>4, <2>1, <2>2
  <2>4. QED
    BY <2>1, <2>3 DEF PairOK
<1>13. RunInv(pl2)'
  <2> SUFFICES ASSUME NEW x \in CPUs
               PROVE  RunOK(pl2, x)'
    BY DEF RunInv
  <2>1. RunOK(pl, x)
    BY MeetingParts DEF RunInv
  <2>2. CASE x = c
    BY <1>1, <1>2, <2>1, <2>2 DEF RunOK
  <2>3. CASE x # c
    <3>1. pl2[x] = pl[x] /\ cpu'[x] = cpu[x]
      BY <1>1, <2>3
    <3>2. IsAp(pl[x]) => pl2[bspIndex] = pl[bspIndex]
      BY <1>4, <1>6, MeetingParts DEF PairInv, PairOK
    <3>3. pl[x].s \in LoopStages => IsAp(pl[x])
      BY <1>1, Kinds
    <3>4. QED
      BY <2>1, <3>1, <3>2, <3>3 DEF RunOK, LoopOK
  <2>4. QED
    BY <2>2, <2>3
<1>14. GatherInv(pl2)'
  <2>1. \A z : Signalled(pl2, z) = Signalled(pl, z)
    BY <1>1, <1>3, <1>4 DEF Signalled
  <2>2. QED
    BY <1>3, <1>4, <1>5, <2>1, MeetingParts DEF GatherInv
<1>15. PresentInv(pl2)'
  <2>1. ~PresentAt(pl[c]) /\ ~PresentAt(q)
    BY <1>2 DEF PresentAt
  <2>2. QED
    BY <1>1, <2>1, MeetingParts DEF PresentInv
<1>16. OneInv(pl2)'
  <2>1. \A x \in CPUs : pl2[x].s \in OneStages => pl2[x] = pl[x] /\ x # c
    BY <1>1, <1>2, Kinds
  <2>2. pl[c].s \notin LoopStages
    BY <1>1, <1>2, Kinds
  <2>3. QED
    BY <2>1, <2>2, <1>1, MeetingParts DEF OneInv
<1>17. QED
  BY <1>7, <1>8, <1>9, <1>10, <1>11, <1>12, <1>13, <1>14, <1>15, <1>16 DEF Meeting

\* The place CPU c goes to is of a stage in S.
KeepsIn(pl, c, S) ==
  \E r, pl2 : r \in Place /\ r.s \in S /\ Moves(pl, c, r, pl2) /\ Meeting(pl2)'

\* ReleaseSemaphore of Counter: one more processor is counted, unless Counter is locked down.
LEMMA CheckInKeeps ==
  ASSUME NEW pl, Meeting(pl), NEW c \in CPUs, CheckIn(c)
  PROVE  KeepsIn(pl, c, {"late", "await", "elect"})
<1>1. pl[c].s = "check_in" /\ Types /\ IsOut(pl[c])
  BY CheckInGoes, MeetingParts DEF IsOut, OutStages
<1>2. CASE counter = LOCKED
  <2>1. PICK q, pl2 : q \in Place /\ q = P("late", 0, 0, FALSE) /\ Moves(pl, c, q, pl2)
        /\ Placed(pl2)'
    BY <1>2, CheckInGoes DEF Goes
  <2>2. q.s = "late" /\ IsOut(q)
    BY <2>1 DEF P, IsOut, OutStages
  <2>3. counter' = counter /\ cpu' = cpu
    BY <1>2 DEF CheckIn, ReleaseSemaphore
  <2>4. Types'
    BY <1>1, <2>3 DEF Types, CheckIn
  <2>5. CpusInv(pl2)'
    BY <1>1, <2>1, CpusFrame DEF CheckIn
  <2>6. Meeting(pl2)'
    BY <1>1, <2>1, <2>2, <2>3, <2>4, <2>5, OutFrame DEF CheckIn
  <2>7. QED
    BY <2>1, <2>2, <2>6 DEF KeepsIn
<1>3. CASE counter # LOCKED
  <2>1. PICK q, pl2 : /\ q \in Place /\ Moves(pl, c, q, pl2) /\ Placed(pl2)'
                      /\ q = P("await", TopK(config), 1, FALSE) \/ q = P("elect", TopK(config), 0, FALSE)
    BY <1>3, CheckInGoes DEF Goes
  <2>2. q.s \in {"await", "elect"} /\ IsPre(q)
    BY <2>1 DEF P, IsPre, PreStages
  <2>3. counter' = counter + 1 /\ SetData(c, "busy", FALSE)
    BY <1>3 DEF CheckIn, ReleaseSemaphore
  <2>4. Others(c) /\ cpu'[c].run = cpu[c].run /\ cpu'[c].present = cpu[c].present /\ ~cpu'[c].busy
    BY <1>1, <2>3, SetBusy
  <2>5. Types'
    BY <1>1, <2>3, <2>4 DEF Types, CheckIn, Others
  <2>6. CpusInv(pl2)'
    BY <1>1, <2>1, CpusFrame DEF CheckIn
  <2>7. counter' = Cardinality(Counted(pl2))
    <3>1. counter = Cardinality(Counted(pl))
      BY <1>3, MeetingParts DEF CounterInv
    <3>2. Counted(pl2) = Counted(pl) \cup {c} /\ c \notin Counted(pl)
      <4>1. ~IsOut(q)
        BY <2>1, <2>2, Kinds
      <4>2. QED
        BY <1>1, <2>1, <4>1 DEF Counted, Moves
    <3>3. QED
      BY <2>3, <3>1, <3>2, CountedFinite, FS_AddElement
  <2>8. Meeting(pl2)'
    <3>1. \A x \in CPUs : /\ x # c => cpu'[x] = cpu[x]
                          /\ cpu'[x].run = cpu[x].run /\ cpu'[x].present = cpu[x].present
      BY <2>4 DEF Others
    <3>2. inside' = inside /\ bspIndex' = bspIndex /\ config' = config /\ local' = local
      BY DEF CheckIn
    <3>3. QED
      BY <1>1, <1>3, <2>1, <2>2, <2>4, <2>5, <2>6, <2>7, <3>1, <3>2, CountFrame
  <2>9. QED
    BY <2>1, <2>2, <2>8 DEF KeepsIn
<1>4. QED
  BY <1>2, <1>3

\* WaitForSemaphore of Counter: an AP that finds no BSP is not counted any more.
LEMMA GiveUpKeeps ==
  ASSUME NEW pl, Meeting(pl), NEW c \in CPUs, GiveUp(c)
  PROVE  KeepsIn(pl, c, {"leave"})
<1>1. pl[c].s = "give_up" /\ InSmm(c) /\ IsPre(pl[c]) /\ Types
  BY StageOf, MeetingParts DEF GiveUp, ApOps, IsPre, PreStages
<1>2. Goes(pl, c, Succ(config, pl[c]))
  BY <1>1, MeetingParts, DonePlace DEF GiveUp
<1>3. PICK q, pl2 : q \in Place /\ q = Succ(config, pl[c]) /\ Moves(pl, c, q, pl2) /\ Placed(pl2)'
  BY <1>2 DEF Goes
<1>4. q.s = "leave" /\ IsOut(q)
  BY <1>1, <1>3 DEF IsOut, OutStages, Succ, ApSucc, PreStages, ApStages, LoopStages, P
<1>5. counter # LOCKED /\ counter' = counter - 1 /\ cpu' = cpu
  BY <1>1, MeetingParts DEF LateInv, GiveUp
<1>6. Types'
  BY <1>1, <1>5 DEF Types, GiveUp
<1>7. CpusInv(pl2)'
  BY <1>1, <1>3, CpusFrame DEF GiveUp
<1>8. counter' = Cardinality(Counted(pl2))
  <2>1. counter = Cardinality(Counted(pl))
    BY <1>5, MeetingParts DEF CounterInv
  <2>2. Counted(pl2) = Counted(pl) \ {c} /\ c \in Counted(pl)
    <3>1. ~IsOut(pl[c])
      BY <1>1, MeetingParts, Kinds
    <3>2. QED
      BY <1>3, <1>4, <3>1 DEF Counted, Moves
  <2>3. QED
    BY <1>5, <2>1, <2>2, CountedFinite, FS_RemoveElement
<1>9. ~IsPre(q)
  BY <1>3, <1>4, Kinds
<1>10. Meeting(pl2)'
  BY <1>1, <1>3, <1>4, <1>5, <1>6, <1>7, <1>8, <1>9, CountFrame DEF GiveUp
<1>11. QED
  BY <1>3, <1>4, <1>10 DEF KeepsIn
=============================================================================
