--------------------------- MODULE VarStoreProofs ---------------------------
(***************************************************************************)
(* Proofs about VarStore for any names, values and sizes, any space, and   *)
(* any number of power failures and device errors.                         *)
(*                                                                         *)
(* The walks over the records (End, Added, ValidBuffer) are recursive      *)
(* functions over 0 .. Len(records).  What they compute is proved from the *)
(* least number principle: it gives induction over the members of a set    *)
(* (RangeInduction) and with it functions defined by recursion             *)
(* (RangeRecursion), here with the step as a function, not an operator.    *)
(***************************************************************************)
EXTENDS VarStore, FiniteSetTheorems, SequenceTheorems, WellFoundedInduction, TLAPS

-----------------------------------------------------------------------------
(***************************************************************************)
(* Induction and recursion over 0 .. m.                                    *)
(***************************************************************************)

\* A nonempty set of natural numbers has a least element.
LEMMA LeastNatural ==
  ASSUME NEW S, S \subseteq Nat, S # {}
  PROVE  \E m \in S : \A n \in S : m <= n
<1>1. IsWellFoundedOn(OpToRel(<, Nat), Nat)
  BY NatLessThanWellFounded
<1>2. PICK m \in S : \A n \in S : <<n, m>> \notin OpToRel(<, Nat)
  BY <1>1, WFMin
<1>3. \A n \in S : ~(n < m)
  BY <1>2 DEF OpToRel
<1>4. QED
  BY <1>3

\* A set that holds 0 and with each number below m the next one holds all of 0 .. m.
LEMMA RangeInduction ==
  ASSUME NEW m \in Nat, NEW S, 0 \in S, \A n \in 0 .. m - 1 : n \in S => n + 1 \in S
  PROVE  \A n \in 0 .. m : n \in S
<1> DEFINE T == {n \in 0 .. m : n \notin S}
<1>1. SUFFICES ASSUME T # {} PROVE FALSE
  OBVIOUS
<1>2. PICK k \in T : \A n \in T : k <= n
  <2>1. T \subseteq Nat
    OBVIOUS
  <2> HIDE DEF T
  <2>2. QED
    BY <1>1, <2>1, LeastNatural
<1>3. k \in 1 .. m
  BY <1>2
<1>4. k - 1 \in 0 .. m - 1 /\ k - 1 \notin T
  BY <1>2, <1>3
<1>5. k - 1 \in S
  BY <1>4
<1>6. k \in S
  BY <1>3, <1>4, <1>5
<1>7. QED
  BY <1>6, <1>2

\* f is what the recursion from x with the functions step[1], ..., step[m] computes.
Follows(f, m, X, x, step) ==
  /\ f \in [0 .. m -> X]
  /\ f[0] = x
  /\ \A n \in 1 .. m : f[n] = step[n][f[n - 1]]

\* Every recursion over 0 .. m has a function that follows it.
LEMMA RangeRecursion ==
  ASSUME NEW m \in Nat, NEW X, NEW x \in X, NEW step \in [1 .. m -> [X -> X]]
  PROVE  \E f : Follows(f, m, X, x, step)
<1> DEFINE S == {k \in 0 .. m : \E f : Follows(f, k, X, x, step)}
<1>1. 0 \in S
  <2>1. Follows([n \in 0 .. 0 |-> x], 0, X, x, step)
    BY DEF Follows
  <2>2. QED
    BY <2>1
<1>2. ASSUME NEW k \in 0 .. m - 1, k \in S PROVE k + 1 \in S
  <2>1. PICK f : Follows(f, k, X, x, step)
    BY <1>2
  <2> DEFINE g == [n \in 0 .. k + 1 |-> IF n <= k THEN f[n] ELSE step[k + 1][f[k]]]
  <2>2. step[k + 1][f[k]] \in X
    BY <2>1 DEF Follows
  <2>3. g \in [0 .. k + 1 -> X]
    BY <2>1, <2>2 DEF Follows
  <2>4. g[0] = x
    BY <2>1 DEF Follows
  <2>5. ASSUME NEW n \in 1 .. k + 1 PROVE g[n] = step[n][g[n - 1]]
    <3>1. CASE n <= k
      BY <3>1, <2>1 DEF Follows
    <3>2. CASE n = k + 1
      BY <3>2, <2>1 DEF Follows
    <3>3. QED
      BY <3>1, <3>2
  <2>6. Follows(g, k + 1, X, x, step)
    BY <2>3, <2>4, <2>5 DEF Follows
  <2>7. QED
    BY <2>6
<1>3. \A k \in 0 .. m : k \in S
  <2> HIDE DEF S
  <2>1. QED
    BY <1>1, <1>2, RangeInduction
<1>4. QED
  BY <1>3

-----------------------------------------------------------------------------
(***************************************************************************)
(* The end of the records.                                                 *)
(***************************************************************************)

\* A record takes at least its header.
LEMMA LengthType ==
  ASSUME NEW r \in Records
  PROVE  Length(r) \in Nat \ {0}
<1>1. r.val \in Values /\ Size[r.val] \in Nat
  BY VarAssumption DEF Records
<1>2. QED
  BY <1>1 DEF Length

\* c[n] is the end of the first n records.
Sums(records, c) ==
  /\ c \in [0 .. Len(records) -> Nat]
  /\ c[0] = 0
  /\ \A n \in 1 .. Len(records) : c[n] = c[n - 1] + Length(records[n])

LEMMA SumsExist ==
  ASSUME NEW records \in Seq(Records)
  PROVE  \E c : Sums(records, c)
<1> DEFINE m    == Len(records)
           step == [n \in 1 .. m |-> [x \in Nat |-> x + Length(records[n])]]
<1>1. m \in Nat
  OBVIOUS
<1>2. \A n \in 1 .. m : Length(records[n]) \in Nat
  <2>1. \A n \in 1 .. m : records[n] \in Records
    OBVIOUS
  <2>2. QED
    BY <2>1, LengthType
<1>3. step \in [1 .. m -> [Nat -> Nat]]
  BY <1>2
<1>4. PICK c : Follows(c, m, Nat, 0, step)
  <2> HIDE DEF step, m
  <2>1. QED
    BY <1>1, <1>3, RangeRecursion
<1>5. Sums(records, c)
  <2>1. c \in [0 .. m -> Nat] /\ c[0] = 0
    BY <1>4 DEF Follows
  <2>2. ASSUME NEW n \in 1 .. m PROVE c[n] = c[n - 1] + Length(records[n])
    <3>1. c[n] = step[n][c[n - 1]] /\ c[n - 1] \in Nat
      BY <1>4, <2>1, SMTT(30) DEF Follows
    <3>2. QED
      BY <3>1
  <2>3. QED
    BY <2>1, <2>2 DEF Sums
<1>6. QED
  BY <1>5

\* Two functions that sum up the same lengths agree.
LEMMA SumsAgree ==
  ASSUME NEW records \in Seq(Records), NEW c, Sums(records, c), NEW d, d[0] = 0,
         \A n \in 1 .. Len(records) : d[n] = d[n - 1] + Length(records[n])
  PROVE  \A n \in 0 .. Len(records) : d[n] = c[n]
<1> DEFINE S == {n \in 0 .. Len(records) : d[n] = c[n]}
<1>1. 0 \in S
  BY DEF Sums
<1>2. ASSUME NEW n \in 0 .. Len(records) - 1, n \in S PROVE n + 1 \in S
  <2>1. n + 1 \in 1 .. Len(records) /\ (n + 1) - 1 = n
    OBVIOUS
  <2>2. d[n + 1] = d[n] + Length(records[n + 1]) /\ c[n + 1] = c[n] + Length(records[n + 1])
    BY <2>1 DEF Sums
  <2>3. QED
    BY <1>2, <2>1, <2>2
<1>3. \A n \in 0 .. Len(records) : n \in S
  <2>1. Len(records) \in Nat
    OBVIOUS
  <2> HIDE DEF S
  <2>2. QED
    BY <1>1, <1>2, <2>1, RangeInduction
<1>4. QED
  BY <1>3

\* End is the last of the sums.
LEMMA EndIsSum ==
  ASSUME NEW records \in Seq(Records), NEW c, Sums(records, c)
  PROVE  End(records) = c[Len(records)]
<1> DEFINE IsEnd(f) ==
             f = [n \in 0 .. Len(records) |-> IF n = 0 THEN 0 ELSE f[n - 1] + Length(records[n])]
           e == CHOOSE f : IsEnd(f)
<1>1. IsEnd(c)
  <2>1. \A n \in 0 .. Len(records) : c[n] = IF n = 0 THEN 0 ELSE c[n - 1] + Length(records[n])
    BY DEF Sums
  <2>2. QED
    BY <2>1 DEF Sums
<1>2. IsEnd(e)
  BY <1>1
<1>3. e[0] = 0 /\ \A n \in 1 .. Len(records) : e[n] = e[n - 1] + Length(records[n])
  <2> HIDE DEF e
  <2>1. QED
    BY <1>2
<1>4. End(records) = e[Len(records)]
  BY DEF End
<1>5. e[Len(records)] = c[Len(records)]
  <2> HIDE DEF e
  <2>1. QED
    BY <1>3, SumsAgree
<1>6. QED
  BY <1>4, <1>5

LEMMA EndType ==
  ASSUME NEW records \in Seq(Records)
  PROVE  End(records) \in Nat
<1>1. PICK c : Sums(records, c)
  BY SumsExist
<1>2. QED
  BY <1>1, EndIsSum DEF Sums

\* An empty store ends where it begins.
LEMMA EndEmpty == End(<<>>) = 0
<1>1. <<>> \in Seq(Records) /\ Len(<<>>) = 0
  OBVIOUS
<1>2. PICK c : Sums(<<>>, c)
  BY <1>1, SumsExist
<1>3. QED
  BY <1>1, <1>2, EndIsSum DEF Sums

\* A record behind the others moves the end by its length.
LEMMA EndAppend ==
  ASSUME NEW records \in Seq(Records), NEW r \in Records
  PROVE  End(Append(records, r)) = End(records) + Length(r)
<1> DEFINE m == Len(records)
           s == Append(records, r)
<1>1. PICK c : Sums(records, c)
  BY SumsExist
<1>2. s \in Seq(Records) /\ Len(s) = m + 1 /\ s[m + 1] = r /\ \A n \in 1 .. m : s[n] = records[n]
  OBVIOUS
<1>3. Length(r) \in Nat /\ m \in Nat
  BY LengthType
<1> HIDE DEF s, m
<1> DEFINE d == [n \in 0 .. m + 1 |-> IF n <= m THEN c[n] ELSE c[m] + Length(r)]
<1>4. c \in [0 .. m -> Nat] /\ c[0] = 0 /\ \A n \in 1 .. m : c[n] = c[n - 1] + Length(records[n])
  BY <1>1 DEF Sums, m
<1>5. Sums(s, d)
  <2>1. d \in [0 .. Len(s) -> Nat] /\ d[0] = 0
    BY <1>2, <1>3, <1>4
  <2>2. ASSUME NEW n \in 1 .. Len(s) PROVE d[n] = d[n - 1] + Length(s[n])
    <3>1. CASE n <= m
      BY <3>1, <1>2, <1>3, <1>4
    <3>2. CASE n = m + 1
      BY <3>2, <1>2, <1>3, <1>4
    <3>3. QED
      BY <3>1, <3>2, <1>2, <1>3
  <2>3. QED
    BY <2>1, <2>2 DEF Sums
<1>6. End(s) = d[m + 1]
  BY <1>5, <1>2, EndIsSum
<1>7. End(records) = c[m]
  BY <1>1, EndIsSum DEF m
<1>8. QED
  BY <1>6, <1>7, <1>3 DEF s

\* Records of the same lengths end at the same place.
LEMMA EndSame ==
  ASSUME NEW r \in Seq(Records), NEW s \in Seq(Records), Len(r) = Len(s),
         \A n \in 1 .. Len(r) : Length(r[n]) = Length(s[n])
  PROVE  End(r) = End(s)
<1>1. PICK c : Sums(r, c)
  BY SumsExist
<1>2. Sums(s, c)
  BY <1>1 DEF Sums
<1>3. QED
  BY <1>1, <1>2, EndIsSum

-----------------------------------------------------------------------------
(***************************************************************************)
(* Reclaim.                                                                *)
(***************************************************************************)

\* What Reclaim copies at record n in its first and in its second walk.
Keeps(records, curr, n)           == records[n].state = "added" /\ n # curr
Takes(records, curr, indel, n, b) ==
  /\ records[n].state = "indel" /\ n \notin {curr, indel}
  /\ \A i \in DOMAIN b : b[i].key # records[n].key

\* kept[n] and valid[n] are the buffer after n records of the first and the second walk.
FirstWalk(records, curr, kept) ==
  /\ kept \in [0 .. Len(records) -> Seq(Records)]
  /\ kept[0] = <<>>
  /\ \A n \in 1 .. Len(records) :
       kept[n] = IF Keeps(records, curr, n) THEN Append(kept[n - 1], records[n]) ELSE kept[n - 1]

SecondWalk(records, curr, indel, valid) ==
  /\ valid \in [0 .. Len(records) -> Seq(Records)]
  /\ valid[0] = Added(records, curr)
  /\ \A n \in 1 .. Len(records) :
       valid[n] = IF Takes(records, curr, indel, n, valid[n - 1])
                  THEN Append(valid[n - 1], SetState(records[n], "added")) ELSE valid[n - 1]

LEMMA SetStateType ==
  ASSUME NEW r \in Records, NEW s \in States
  PROVE  SetState(r, s) \in Records /\ SetState(r, s).key = r.key /\ SetState(r, s).val = r.val
         /\ SetState(r, s).state = s
BY DEF SetState, Records

\* Added is the end of a first walk.
LEMMA AddedIsWalk ==
  ASSUME NEW records \in Seq(Records), NEW curr
  PROVE  \E kept : FirstWalk(records, curr, kept) /\ Added(records, curr) = kept[Len(records)]
<1> DEFINE m == Len(records)
           X == Seq(Records)
           step == [n \in 1 .. m |-> [b \in X |-> IF Keeps(records, curr, n)
                                                 THEN Append(b, records[n]) ELSE b]]
           Is(f) == f = [n \in 0 .. m |-> IF n = 0 THEN <<>>
                          ELSE IF records[n].state = "added" /\ n # curr
                               THEN Append(f[n - 1], records[n]) ELSE f[n - 1]]
           e == CHOOSE f : Is(f)
<1>1. m \in Nat /\ <<>> \in X /\ \A n \in 1 .. m : records[n] \in Records
  OBVIOUS
<1>2. \A n \in 1 .. m : \A b \in X : Append(b, records[n]) \in X
  BY <1>1
<1>3. step \in [1 .. m -> [X -> X]]
  <2> HIDE DEF X
  <2>1. QED
    BY <1>2
<1>4. PICK c : Follows(c, m, X, <<>>, step)
  <2> HIDE DEF step, m, X
  <2>1. QED
    BY <1>1, <1>3, RangeRecursion
<1>5. Is(c)
  <2>1. c \in [0 .. m -> X] /\ c[0] = <<>>
    BY <1>4 DEF Follows
  <2>2. ASSUME NEW n \in 1 .. m
        PROVE  c[n] = IF records[n].state = "added" /\ n # curr
                      THEN Append(c[n - 1], records[n]) ELSE c[n - 1]
    <3>1. n - 1 \in 0 .. m
      BY <1>1
    <3>2. c[n - 1] \in X
      BY <2>1, <3>1
    <3>3. c[n] = step[n][c[n - 1]]
      BY <1>4 DEF Follows
    <3> HIDE DEF X
    <3>4. QED
      BY <3>2, <3>3 DEF Keeps
  <2>3. \A n \in 0 .. m : c[n] = IF n = 0 THEN <<>>
                                 ELSE IF records[n].state = "added" /\ n # curr
                                      THEN Append(c[n - 1], records[n]) ELSE c[n - 1]
    <3>1. \A n \in 0 .. m : n = 0 \/ n \in 1 .. m
      BY <1>1
    <3>2. QED
      BY <2>1, <2>2, <3>1
  <2> HIDE DEF X, m
  <2>4. QED
    BY <2>1, <2>3
<1>6. Is(e)
  BY <1>5
<1>7. Added(records, curr) = e[m]
  BY DEF Added
<1> HIDE DEF e
<1>8. e[0] = <<>> /\ \A n \in 1 .. m : e[n] = IF Keeps(records, curr, n)
                                              THEN Append(e[n - 1], records[n]) ELSE e[n - 1]
  <2>1. \A n \in 0 .. m : e[n] = IF n = 0 THEN <<>>
                                 ELSE IF records[n].state = "added" /\ n # curr
                                      THEN Append(e[n - 1], records[n]) ELSE e[n - 1]
    <3> HIDE DEF m
    <3>1. QED
      BY <1>6
  <2>2. 0 \in 0 .. m /\ \A n \in 1 .. m : n \in 0 .. m /\ n # 0
    BY <1>1
  <2> HIDE DEF m
  <2>3. QED
    BY <2>1, <2>2 DEF Keeps
<1> DEFINE S == {n \in 0 .. m : e[n] \in X}
<1>9. \A n \in 0 .. m : n \in S
  <2>1. 0 \in S
    <3> HIDE DEF X
    <3>1. QED
      BY <1>1, <1>8
  <2>2. ASSUME NEW n \in 0 .. m - 1, n \in S PROVE n + 1 \in S
    <3>1. n + 1 \in 1 .. m /\ n + 1 \in 0 .. m /\ (n + 1) - 1 = n
      BY <1>1
    <3>2. e[n] \in X
      BY <2>2
    <3> HIDE DEF X, m
    <3>3. e[n + 1] \in {e[n], Append(e[n], records[n + 1])}
      BY <3>1, <1>8
    <3>4. e[n + 1] \in X
      BY <3>1, <3>3, <3>2, <1>2
    <3>5. QED
      BY <3>1, <3>4
  <2> HIDE DEF S, X
  <2>3. QED
    BY <1>1, <2>1, <2>2, RangeInduction
<1>10. FirstWalk(records, curr, e)
  <2>1. DOMAIN e = 0 .. m /\ e = [n \in 0 .. m |-> e[n]]
    BY <1>6
  <2>2. e \in [0 .. m -> X]
    <3> HIDE DEF X
    <3>1. QED
      BY <2>1, <1>9
  <2>3. QED
    BY <2>2, <1>8 DEF FirstWalk
<1>11. QED
  BY <1>7, <1>10

\* ValidBuffer is the end of a second walk.
LEMMA ValidIsWalk ==
  ASSUME NEW records \in Seq(Records), NEW curr, NEW indel
  PROVE  \E valid : /\ SecondWalk(records, curr, indel, valid)
                    /\ ValidBuffer(records, curr, indel) = valid[Len(records)]
<1> DEFINE m == Len(records)
           X == Seq(Records)
           x == Added(records, curr)
           step == [n \in 1 .. m |-> [b \in X |-> IF Takes(records, curr, indel, n, b)
                                                 THEN Append(b, SetState(records[n], "added"))
                                                 ELSE b]]
           Is(f) == f = [n \in 0 .. m |-> IF n = 0 THEN Added(records, curr)
                          ELSE IF /\ records[n].state = "indel" /\ n \notin {curr, indel}
                                  /\ \A i \in DOMAIN f[n - 1] : f[n - 1][i].key # records[n].key
                               THEN Append(f[n - 1], SetState(records[n], "added"))
                               ELSE f[n - 1]]
           e == CHOOSE f : Is(f)
<1>1. m \in Nat /\ x \in X
  <2>1. PICK kept : FirstWalk(records, curr, kept) /\ x = kept[m]
    BY AddedIsWalk
  <2>2. QED
    BY <2>1 DEF FirstWalk
<1>2. \A n \in 1 .. m : \A b \in X : Append(b, SetState(records[n], "added")) \in X
  <2>1. \A n \in 1 .. m : SetState(records[n], "added") \in Records
    BY SetStateType DEF States
  <2>2. QED
    BY <2>1
<1>3. step \in [1 .. m -> [X -> X]]
  <2> HIDE DEF X
  <2>1. QED
    BY <1>2
<1>4. PICK c : Follows(c, m, X, x, step)
  <2> HIDE DEF step, m, X, x
  <2>1. QED
    BY <1>1, <1>3, RangeRecursion
<1>5. Is(c)
  <2>1. c \in [0 .. m -> X] /\ c[0] = x
    BY <1>4 DEF Follows
  <2>2. ASSUME NEW n \in 1 .. m
        PROVE  c[n] = IF Takes(records, curr, indel, n, c[n - 1])
                      THEN Append(c[n - 1], SetState(records[n], "added")) ELSE c[n - 1]
    <3>1. n - 1 \in 0 .. m
      BY <1>1
    <3>2. c[n - 1] \in X
      BY <2>1, <3>1
    <3>3. c[n] = step[n][c[n - 1]]
      BY <1>4 DEF Follows
    <3> HIDE DEF X
    <3>4. QED
      BY <3>2, <3>3
  <2>3. \A n \in 0 .. m : c[n] = IF n = 0 THEN Added(records, curr)
                                 ELSE IF Takes(records, curr, indel, n, c[n - 1])
                                      THEN Append(c[n - 1], SetState(records[n], "added"))
                                      ELSE c[n - 1]
    <3>1. \A n \in 0 .. m : n = 0 \/ n \in 1 .. m
      BY <1>1
    <3>2. QED
      BY <2>1, <2>2, <3>1
  <2> HIDE DEF X, m
  <2>4. QED
    BY <2>1, <2>3 DEF Takes
<1>6. Is(e)
  BY <1>5
<1>7. ValidBuffer(records, curr, indel) = e[m]
  BY DEF ValidBuffer
<1> HIDE DEF e
<1>8. e[0] = x /\ \A n \in 1 .. m : e[n] = IF Takes(records, curr, indel, n, e[n - 1])
                                           THEN Append(e[n - 1], SetState(records[n], "added"))
                                           ELSE e[n - 1]
  <2>1. \A n \in 0 .. m : e[n] = IF n = 0 THEN Added(records, curr)
                                 ELSE IF Takes(records, curr, indel, n, e[n - 1])
                                      THEN Append(e[n - 1], SetState(records[n], "added"))
                                      ELSE e[n - 1]
    <3> HIDE DEF m
    <3>1. QED
      BY <1>6 DEF Takes
  <2>2. 0 \in 0 .. m /\ \A n \in 1 .. m : n \in 0 .. m /\ n # 0
    BY <1>1
  <2> HIDE DEF m
  <2>3. QED
    BY <2>1, <2>2
<1> DEFINE S == {n \in 0 .. m : e[n] \in X}
<1>9. \A n \in 0 .. m : n \in S
  <2>1. 0 \in S
    <3> HIDE DEF X
    <3>1. QED
      BY <1>1, <1>8
  <2>2. ASSUME NEW n \in 0 .. m - 1, n \in S PROVE n + 1 \in S
    <3>1. n + 1 \in 1 .. m /\ n + 1 \in 0 .. m /\ (n + 1) - 1 = n
      BY <1>1
    <3>2. e[n] \in X
      BY <2>2
    <3> HIDE DEF X, m
    <3>3. e[n + 1] \in {e[n], Append(e[n], SetState(records[n + 1], "added"))}
      BY <3>1, <1>8
    <3>4. e[n + 1] \in X
      BY <3>1, <3>3, <3>2, <1>2
    <3>5. QED
      BY <3>1, <3>4
  <2> HIDE DEF S, X
  <2>3. QED
    BY <1>1, <2>1, <2>2, RangeInduction
<1>10. SecondWalk(records, curr, indel, e)
  <2>1. DOMAIN e = 0 .. m /\ e = [n \in 0 .. m |-> e[n]]
    BY <1>6
  <2>2. e \in [0 .. m -> X]
    <3> HIDE DEF X
    <3>1. QED
      BY <2>1, <1>9
  <2>3. QED
    BY <2>2, <1>8 DEF SecondWalk
<1>11. QED
  BY <1>7, <1>10

\* The sums of the numbers g[1], ..., g[m].
PartialSums(f, m, g) ==
  f \in [0 .. m -> Nat] /\ f[0] = 0 /\ \A n \in 1 .. m : f[n] = f[n - 1] + g[n]

LEMMA PartialSumsExist ==
  ASSUME NEW m \in Nat, NEW g \in [1 .. m -> Nat]
  PROVE  \E f : PartialSums(f, m, g)
<1> DEFINE step == [n \in 1 .. m |-> [x \in Nat |-> x + g[n]]]
<1>1. step \in [1 .. m -> [Nat -> Nat]]
  OBVIOUS
<1>2. PICK f : Follows(f, m, Nat, 0, step)
  <2> HIDE DEF step
  <2>1. QED
    BY <1>1, RangeRecursion
<1>3. ASSUME NEW n \in 1 .. m PROVE f[n] = f[n - 1] + g[n]
  <2>1. n - 1 \in 0 .. m
    OBVIOUS
  <2>2. f[n] = step[n][f[n - 1]]
    BY <1>2 DEF Follows
  <2>3. f[n - 1] \in Nat
    BY <2>1, <1>2 DEF Follows
  <2>4. QED
    BY <2>2, <2>3
<1>4. QED
  BY <1>2, <1>3 DEF Follows, PartialSums

\* Two sums stay below a third when all of them grow.
LEMMA SumsOrdered ==
  ASSUME NEW x \in Nat, NEW y \in Nat, NEW z \in Nat, NEW p \in Nat, NEW q \in Nat,
         NEW l \in Nat, x + y <= z, p + q <= l
  PROVE  (x + p) + (y + q) <= z + l
OBVIOUS

\* The buffer of a reclaim is not longer than the records it was collected from.
LEMMA ReclaimShrinks ==
  ASSUME NEW records \in Seq(Records), NEW curr, NEW indel
  PROVE  /\ ValidBuffer(records, curr, indel) \in Seq(Records)
         /\ End(ValidBuffer(records, curr, indel)) <= End(records)
<1> DEFINE m  == Len(records)
           ga == [n \in 1 .. m |-> IF records[n].state = "added" THEN Length(records[n]) ELSE 0]
           gi == [n \in 1 .. m |-> IF records[n].state = "indel" THEN Length(records[n]) ELSE 0]
<1>1. m \in Nat /\ \A n \in 1 .. m : records[n] \in Records /\ Length(records[n]) \in Nat
  <2>1. m \in Nat /\ \A n \in 1 .. m : records[n] \in Records
    OBVIOUS
  <2>2. QED
    BY <2>1, LengthType
<1>2. ga \in [1 .. m -> Nat] /\ gi \in [1 .. m -> Nat]
  BY <1>1
<1>3. PICK a : PartialSums(a, m, ga)
  <2> HIDE DEF m, ga, gi
  <2>1. QED
    BY <1>1, <1>2, PartialSumsExist
<1>4. PICK d : PartialSums(d, m, gi)
  <2> HIDE DEF m, ga, gi
  <2>1. QED
    BY <1>1, <1>2, PartialSumsExist
<1>5. PICK c : Sums(records, c)
  BY SumsExist
<1>6. PICK kept : FirstWalk(records, curr, kept) /\ Added(records, curr) = kept[m]
  BY AddedIsWalk
<1>7. PICK valid : /\ SecondWalk(records, curr, indel, valid)
                   /\ ValidBuffer(records, curr, indel) = valid[m]
  BY ValidIsWalk
<1>8. ASSUME NEW n \in 1 .. m
      PROVE  /\ n - 1 \in 0 .. m /\ n \in 0 .. m
             /\ a[n] = a[n - 1] + ga[n] /\ a[n - 1] \in Nat
             /\ d[n] = d[n - 1] + gi[n] /\ d[n - 1] \in Nat
             /\ c[n] = c[n - 1] + Length(records[n]) /\ c[n - 1] \in Nat
  <2>1. n - 1 \in 0 .. m /\ n \in 0 .. m
    BY <1>1
  <2> HIDE DEF ga, gi
  <2>2. a[n] = a[n - 1] + ga[n] /\ a[n - 1] \in Nat
    BY <2>1, <1>3 DEF PartialSums
  <2>3. d[n] = d[n - 1] + gi[n] /\ d[n - 1] \in Nat
    BY <2>1, <1>4 DEF PartialSums
  <2>4. c[n] = c[n - 1] + Length(records[n]) /\ c[n - 1] \in Nat
    BY <2>1, <1>5 DEF Sums
  <2>5. QED
    BY <2>1, <2>2, <2>3, <2>4
<1>9. \A n \in 0 .. m : a[n] + d[n] <= c[n]
  <2> DEFINE S == {n \in 0 .. m : a[n] + d[n] <= c[n]}
  <2>1. 0 \in S
    BY <1>1, <1>3, <1>4, <1>5 DEF PartialSums, Sums
  <2>2. ASSUME NEW k \in 0 .. m - 1, k \in S PROVE k + 1 \in S
    <3>1. k + 1 \in 1 .. m /\ (k + 1) - 1 = k
      BY <1>1
    <3>2. ga[k + 1] + gi[k + 1] <= Length(records[k + 1]) /\ ga[k + 1] \in Nat /\ gi[k + 1] \in Nat
          /\ Length(records[k + 1]) \in Nat
      BY <1>1, <3>1
    <3> HIDE DEF ga, gi
    <3>3. /\ a[k + 1] = a[k] + ga[k + 1] /\ a[k] \in Nat
          /\ d[k + 1] = d[k] + gi[k + 1] /\ d[k] \in Nat
          /\ c[k + 1] = c[k] + Length(records[k + 1]) /\ c[k] \in Nat
      BY <1>8, <3>1
    <3>4. a[k] + d[k] <= c[k]
      BY <2>2
    <3>5. (a[k] + ga[k + 1]) + (d[k] + gi[k + 1]) <= c[k] + Length(records[k + 1])
      BY <3>2, <3>3, <3>4, SumsOrdered
    <3>6. a[k + 1] + d[k + 1] <= c[k + 1]
      BY <3>3, <3>5, Zenon
    <3>7. QED
      BY <3>1, <3>6
  <2> HIDE DEF S
  <2>3. \A n \in 0 .. m : n \in S
    BY <1>1, <2>1, <2>2, RangeInduction
  <2>4. QED
    BY <2>3 DEF S
<1>10. \A n \in 0 .. m : End(kept[n]) <= a[n]
  <2> DEFINE S == {n \in 0 .. m : End(kept[n]) <= a[n]}
  <2>1. 0 \in S
    BY <1>1, <1>3, <1>6, EndEmpty DEF PartialSums, FirstWalk
  <2>2. ASSUME NEW k \in 0 .. m - 1, k \in S PROVE k + 1 \in S
    <3>1. k + 1 \in 1 .. m /\ (k + 1) - 1 = k /\ k \in 0 .. m
      BY <1>1
    <3>2. kept[k] \in Seq(Records) /\ End(kept[k]) \in Nat
      BY <1>6, <3>1, EndType DEF FirstWalk
    <3>3. records[k + 1] \in Records /\ Length(records[k + 1]) \in Nat
      BY <1>1, <3>1
    <3>4. a[k + 1] = a[k] + ga[k + 1] /\ a[k] \in Nat
      BY <1>8, <3>1
    <3>5. End(kept[k]) <= a[k]
      BY <2>2
    <3>6. kept[k + 1] = IF Keeps(records, curr, k + 1) THEN Append(kept[k], records[k + 1])
                        ELSE kept[k]
      BY <1>6, <3>1 DEF FirstWalk
    <3>7. CASE Keeps(records, curr, k + 1)
      <4>1. End(kept[k + 1]) = End(kept[k]) + Length(records[k + 1])
        BY <3>2, <3>3, <3>6, <3>7, EndAppend
      <4>2. ga[k + 1] = Length(records[k + 1])
        BY <3>1, <3>7 DEF Keeps
      <4> HIDE DEF ga
      <4>3. QED
        BY <4>1, <4>2, <3>1, <3>2, <3>3, <3>4, <3>5
    <3>8. CASE ~Keeps(records, curr, k + 1)
      <4>1. ga[k + 1] \in Nat
        BY <3>1, <3>3
      <4> HIDE DEF ga
      <4>2. QED
        BY <4>1, <3>1, <3>2, <3>4, <3>5, <3>6, <3>8
    <3>9. QED
      BY <3>7, <3>8
  <2> HIDE DEF S
  <2>3. \A n \in 0 .. m : n \in S
    BY <1>1, <2>1, <2>2, RangeInduction
  <2>4. QED
    BY <2>3 DEF S
<1>11. \A n \in 0 .. m : End(valid[n]) <= a[m] + d[n]
  <2> DEFINE S == {n \in 0 .. m : End(valid[n]) <= a[m] + d[n]}
  <2>0. m \in 0 .. m /\ 0 \in 0 .. m /\ a[m] \in Nat
    BY <1>1, <1>3 DEF PartialSums
  <2>1. 0 \in S
    <3>1. valid[0] = kept[m] /\ d[0] = 0
      BY <1>4, <1>6, <1>7 DEF PartialSums, SecondWalk
    <3>2. End(kept[m]) <= a[m]
      BY <1>10, <2>0
    <3>3. QED
      BY <2>0, <3>1, <3>2
  <2>2. ASSUME NEW k \in 0 .. m - 1, k \in S PROVE k + 1 \in S
    <3>1. k + 1 \in 1 .. m /\ (k + 1) - 1 = k /\ k \in 0 .. m
      BY <1>1
    <3>2. valid[k] \in Seq(Records) /\ End(valid[k]) \in Nat
      BY <1>7, <3>1, EndType DEF SecondWalk
    <3>3. records[k + 1] \in Records /\ Length(records[k + 1]) \in Nat
      BY <1>1, <3>1
    <3>4. d[k + 1] = d[k] + gi[k + 1] /\ d[k] \in Nat
      BY <1>8, <3>1
    <3>5. End(valid[k]) <= a[m] + d[k]
      BY <2>2
    <3>6. valid[k + 1] = IF Takes(records, curr, indel, k + 1, valid[k])
                         THEN Append(valid[k], SetState(records[k + 1], "added")) ELSE valid[k]
      BY <1>7, <3>1 DEF SecondWalk
    <3>7. CASE Takes(records, curr, indel, k + 1, valid[k])
      <4>1. records[k + 1].state = "indel"
        BY <3>7 DEF Takes
      <4>2. SetState(records[k + 1], "added") \in Records
            /\ Length(SetState(records[k + 1], "added")) = Length(records[k + 1])
        BY <3>3, <4>1, SetStateType DEF Length, States
      <4>3. End(valid[k + 1]) = End(valid[k]) + Length(records[k + 1])
        BY <3>2, <3>6, <3>7, <4>2, EndAppend
      <4>4. gi[k + 1] = Length(records[k + 1])
        BY <3>1, <4>1
      <4> HIDE DEF gi
      <4>5. QED
        BY <4>3, <4>4, <2>0, <3>1, <3>2, <3>3, <3>4, <3>5
    <3>8. CASE ~Takes(records, curr, indel, k + 1, valid[k])
      <4>1. gi[k + 1] \in Nat
        BY <3>1, <3>3
      <4> HIDE DEF gi
      <4>2. QED
        BY <4>1, <2>0, <3>1, <3>2, <3>4, <3>5, <3>6, <3>8
    <3>9. QED
      BY <3>7, <3>8
  <2> HIDE DEF S
  <2>3. \A n \in 0 .. m : n \in S
    BY <1>1, <2>1, <2>2, RangeInduction
  <2>4. QED
    BY <2>3 DEF S
<1>12. valid[m] \in Seq(Records) /\ End(valid[m]) <= a[m] + d[m] /\ a[m] + d[m] <= c[m]
       /\ End(valid[m]) \in Nat /\ a[m] \in Nat /\ d[m] \in Nat /\ c[m] \in Nat
  <2>1. m \in 0 .. m
    BY <1>1
  <2>2. valid[m] \in Seq(Records) /\ a[m] \in Nat /\ d[m] \in Nat /\ c[m] \in Nat
    BY <2>1, <1>3, <1>4, <1>5, <1>7 DEF SecondWalk, PartialSums, Sums
  <2>3. QED
    BY <2>1, <2>2, <1>9, <1>11, EndType
<1>13. End(records) = c[m]
  BY <1>5, EndIsSum
<1>14. QED
  BY <1>7, <1>12, <1>13

-----------------------------------------------------------------------------
(***************************************************************************)
(* The program.                                                            *)
(***************************************************************************)

\* The steps of a call.
Ops == {"mark_old", "header", "header_valid", "data", "added", "delete_indel", "delete_curr",
        "not_found", "out_of_resources", "reclaim", "return", "reclaim_os", "reclaim_junk",
        "init_store"}

\* The next step is op; what is left behind it.
Op(p, op) == p \in Seq(Ops) /\ p # <<>> /\ Head(p) = op

Only(p, op) == Op(p, op) /\ Tail(p) = <<>>

AtReturn(p)      == Only(p, "return")
AtDeleteCurr(p)  == Op(p, "delete_curr") /\ AtReturn(Tail(p))
AtDeleteIndel(p) == Op(p, "delete_indel") /\ AtDeleteCurr(Tail(p))

\* The deletion of the copies that a has found.
AtDeletes(p, a) ==
  IF a.indel # 0 THEN AtDeleteIndel(p)
  ELSE IF a.curr # 0 THEN AtDeleteCurr(p) ELSE AtReturn(p)

AtAdded(p, a)       == Op(p, "added") /\ AtDeletes(Tail(p), a)
AtData(p, a)        == Op(p, "data") /\ AtAdded(Tail(p), a)
AtHeaderValid(p, a) == Op(p, "header_valid") /\ AtData(Tail(p), a)
AtHeader(p, a)      == Op(p, "header") /\ AtHeaderValid(Tail(p), a)
AtRefused(p)        == Op(p, "out_of_resources") /\ AtReturn(Tail(p))
AtReclaim(p)        == Op(p, "reclaim") /\ AtReturn(Tail(p))
AtNotFound(p)       == Op(p, "not_found") /\ AtReturn(Tail(p))

\* The new copy, by four writes or by a reclaim, or its refusal.
AtNew(p, a)  == AtHeader(p, a) \/ AtRefused(p) \/ AtReclaim(p)
AtMark(p, a) == Op(p, "mark_old") /\ a.curr # 0 /\ AtNew(Tail(p), a)

\* A step in front of others.
LEMMA Cons ==
  ASSUME NEW op \in Ops, NEW d \in Seq(Ops)
  PROVE  Op(<<op>> \o d, op) /\ Tail(<<op>> \o d) = d
<1> DEFINE p == <<op>> \o d
<1>1. p \in Seq(Ops) /\ Len(p) = Len(d) + 1 /\ p[1] = op /\ \A i \in 1 .. Len(d) : p[i + 1] = d[i]
  <2>1. <<op>> \in Seq(Ops) /\ Len(<<op>>) = 1
    OBVIOUS
  <2>2. QED
    BY <2>1, ConcatProperties
<1> HIDE DEF p
<1>2. p # <<>> /\ Head(p) = op
  BY <1>1
<1>3. Tail(p) \in Seq(Ops) /\ Len(Tail(p)) = Len(d) /\ \A i \in 1 .. Len(d) : Tail(p)[i] = d[i]
  BY <1>1, <1>2, HeadTailProperties
<1>4. Tail(p) = d
  BY <1>3, SeqEqual
<1>5. QED
  BY <1>1, <1>2, <1>4 DEF Op, p

LEMMA ReturnPlanned == <<"return">> \in Seq(Ops) /\ AtReturn(<<"return">>)
<1>1. "return" \in Ops /\ <<>> \in Seq(Ops) /\ <<"return">> = <<"return">> \o <<>>
  BY DEF Ops
<1>2. QED
  BY <1>1, Cons DEF AtReturn, Only, Op

\* The deletions that UpdateVariable plans.
LEMMA DeletesPlanned ==
  ASSUME NEW a, a.curr \in Nat, a.indel \in Nat, a.indel # 0 => a.curr # 0
  PROVE  /\ DeleteOld(a) \in Seq(Ops) /\ DeleteOld(a) \o <<"return">> \in Seq(Ops)
         /\ AtDeletes(DeleteOld(a) \o <<"return">>, a)
<1> DEFINE c == <<"delete_curr">> \o <<"return">>
           d == <<"delete_indel">> \o c
<1>1. DeleteOld(a) \in Seq(Ops)
  <2>1. {"delete_curr", "delete_indel"} \subseteq Ops
    BY DEF Ops
  <2>2. QED
    BY <2>1 DEF DeleteOld
<1>2. DeleteOld(a) \o <<"return">> \in Seq(Ops)
  BY <1>1, ReturnPlanned, ConcatProperties
<1>3. AtDeleteCurr(c) /\ c \in Seq(Ops)
  BY ReturnPlanned, Cons DEF AtDeleteCurr, Op, Ops
<1>4. AtDeleteIndel(d)
  <2> HIDE DEF c
  <2>1. QED
    BY <1>3, Cons DEF AtDeleteIndel, Op, Ops
<1>5. CASE a.indel # 0
  <2>1. DeleteOld(a) \o <<"return">> = d
    <3>1. DeleteOld(a) = <<"delete_indel">> \o <<"delete_curr">>
      BY <1>5 DEF DeleteOld
    <3>2. (<<"delete_indel">> \o <<"delete_curr">>) \o <<"return">> = d
      OBVIOUS
    <3>3. QED
      BY <3>1, <3>2
  <2>2. QED
    BY <1>1, <1>2, <1>4, <1>5, <2>1 DEF AtDeletes
<1>6. CASE a.indel = 0 /\ a.curr # 0
  <2>1. DeleteOld(a) = <<>> \o <<"delete_curr">>
    BY <1>6 DEF DeleteOld
  <2>2. (<<>> \o <<"delete_curr">>) \o <<"return">> = c
    OBVIOUS
  <2>3. QED
    BY <1>1, <1>2, <1>3, <1>6, <2>1, <2>2 DEF AtDeletes
<1>7. CASE a.indel = 0 /\ a.curr = 0
  <2>1. DeleteOld(a) = <<>> \o <<>>
    BY <1>7 DEF DeleteOld
  <2>2. (<<>> \o <<>>) \o <<"return">> = <<"return">>
    OBVIOUS
  <2>3. QED
    BY <1>1, <1>2, <1>7, <2>1, <2>2, ReturnPlanned DEF AtDeletes
<1>8. QED
  BY <1>5, <1>6, <1>7

\* The four writes that UpdateVariable plans.
LEMMA WritesPlanned ==
  ASSUME NEW a, a.curr \in Nat, a.indel \in Nat, a.indel # 0 => a.curr # 0
  PROVE  AtHeader((<<"header", "header_valid", "data", "added">> \o DeleteOld(a)) \o <<"return">>, a)
<1> DEFINE d  == DeleteOld(a) \o <<"return">>
           p3 == <<"added">> \o d
           p2 == <<"data">> \o p3
           p1 == <<"header_valid">> \o p2
           p  == <<"header">> \o p1
<1>1. DeleteOld(a) \in Seq(Ops) /\ d \in Seq(Ops) /\ AtDeletes(d, a)
  BY DeletesPlanned
<1>2. (<<"header", "header_valid", "data", "added">> \o DeleteOld(a)) \o <<"return">> = p
  BY <1>1
<1> HIDE DEF d
<1>3. AtAdded(p3, a) /\ p3 \in Seq(Ops)
  <2>1. Op(p3, "added") /\ Tail(p3) = d
    BY <1>1, Cons DEF Ops
  <2>2. QED
    BY <1>1, <2>1 DEF AtAdded, Op
<1> HIDE DEF p3
<1>4. AtData(p2, a) /\ p2 \in Seq(Ops)
  BY <1>3, Cons DEF AtData, Op, Ops
<1> HIDE DEF p2
<1>5. AtHeaderValid(p1, a) /\ p1 \in Seq(Ops)
  BY <1>4, Cons DEF AtHeaderValid, Op, Ops
<1> HIDE DEF p1
<1>6. AtHeader(p, a)
  BY <1>5, Cons DEF AtHeader, Op, Ops
<1>7. QED
  BY <1>2, <1>6

\* The five ways UpdateVariable can go.
Plans(p, a, old, v) ==
  \/ v = NoValue /\ a.curr = 0 /\ AtNotFound(p)
  \/ v = NoValue /\ a.curr # 0 /\ AtDeletes(p, a)
  \/ v \in Values /\ v = old /\ AtReturn(p)
  \/ /\ v \in Values /\ v # old /\ a.curr # 0 /\ AtMark(p, a)
     /\ AtHeader(Tail(p), a) => ~Full(v)
     /\ AtRefused(Tail(p)) => Runtime
  \/ /\ v \in Values /\ v # old /\ a.curr = 0 /\ AtNew(p, a)
     /\ AtHeader(p, a) => ~Full(v)
     /\ AtRefused(p) => Runtime

LEMMA UpdatePlanned ==
  ASSUME NEW a, a.curr \in Nat, a.indel \in Nat, a.indel # 0 => a.curr # 0,
         NEW old, NEW v \in Values \cup {NoValue}
  PROVE  Plans(UpdateVariable(a, old, v) \o <<"return">>, a, old, v)
<1> DEFINE w == IF ~Full(v) THEN <<"header", "header_valid", "data", "added">> \o DeleteOld(a)
                ELSE IF Runtime THEN <<"out_of_resources">>
                ELSE <<"reclaim">>
           n == w \o <<"return">>
           p == UpdateVariable(a, old, v) \o <<"return">>
<1>1. CASE v = NoValue
  <2>1. CASE a.curr = 0
    <3>1. UpdateVariable(a, old, v) = <<"not_found">>
      BY <1>1, <2>1 DEF UpdateVariable
    <3>2. Op(<<"not_found">> \o <<"return">>, "not_found")
          /\ Tail(<<"not_found">> \o <<"return">>) = <<"return">>
      BY ReturnPlanned, Cons DEF Ops
    <3>3. AtNotFound(p)
      BY <3>1, <3>2, ReturnPlanned DEF AtNotFound
    <3>4. QED
      BY <1>1, <2>1, <3>3 DEF Plans
  <2>2. CASE a.curr # 0
    <3>1. UpdateVariable(a, old, v) = DeleteOld(a)
      BY <1>1, <2>2 DEF UpdateVariable
    <3>2. QED
      BY <1>1, <2>2, <3>1, DeletesPlanned DEF Plans
  <2>3. QED
    BY <2>1, <2>2
<1>2. v # NoValue => v \in Values
  OBVIOUS
<1>3. CASE v # NoValue /\ v = old
  <2>1. UpdateVariable(a, old, v) = <<>>
    BY <1>3 DEF UpdateVariable
  <2>2. <<>> \o <<"return">> = <<"return">>
    OBVIOUS
  <2>3. QED
    BY <1>2, <1>3, <2>1, <2>2, ReturnPlanned DEF Plans
<1>4. CASE v # NoValue /\ v # old
  <2>1. w \in Seq(Ops) /\ n \in Seq(Ops)
    <3>1. DeleteOld(a) \in Seq(Ops)
      BY DeletesPlanned
    <3>2. <<"header", "header_valid", "data", "added">> \in Seq(Ops)
          /\ <<"out_of_resources">> \in Seq(Ops) /\ <<"reclaim">> \in Seq(Ops)
      BY DEF Ops
    <3>3. <<"header", "header_valid", "data", "added">> \o DeleteOld(a) \in Seq(Ops)
      BY <3>1, <3>2, ConcatProperties
    <3>4. w \in Seq(Ops)
      BY <3>2, <3>3
    <3> HIDE DEF w
    <3>5. QED
      BY <3>4, ReturnPlanned, ConcatProperties
  <2>2. /\ AtNew(n, a)
        /\ AtHeader(n, a) => ~Full(v)
        /\ AtRefused(n) => Runtime
    <3>1. CASE ~Full(v)
      <4>1. n = (<<"header", "header_valid", "data", "added">> \o DeleteOld(a)) \o <<"return">>
        BY <3>1
      <4> HIDE DEF n
      <4>2. AtHeader(n, a)
        BY <4>1, WritesPlanned
      <4>3. QED
        BY <3>1, <4>2 DEF AtNew, AtHeader, AtRefused, Op
    <3>2. CASE Full(v) /\ Runtime
      <4>1. n = <<"out_of_resources">> \o <<"return">>
        BY <3>2
      <4> HIDE DEF n
      <4>2. AtRefused(n)
        <5>1. Op(n, "out_of_resources") /\ Tail(n) = <<"return">>
          BY <4>1, ReturnPlanned, Cons DEF Ops
        <5>2. QED
          BY <5>1, ReturnPlanned DEF AtRefused
      <4>3. QED
        BY <3>2, <4>2 DEF AtNew, AtHeader, AtRefused, Op
    <3>3. CASE Full(v) /\ ~Runtime
      <4>1. n = <<"reclaim">> \o <<"return">>
        BY <3>3
      <4> HIDE DEF n
      <4>2. AtReclaim(n)
        <5>1. Op(n, "reclaim") /\ Tail(n) = <<"return">>
          BY <4>1, ReturnPlanned, Cons DEF Ops
        <5>2. QED
          BY <5>1, ReturnPlanned DEF AtReclaim
      <4>3. QED
        BY <3>3, <4>2 DEF AtNew, AtHeader, AtRefused, AtReclaim, Op
    <3>4. QED
      BY <3>1, <3>2, <3>3
  <2>3. UpdateVariable(a, old, v) = (IF a.curr # 0 THEN <<"mark_old">> ELSE <<>>) \o w
    BY <1>4 DEF UpdateVariable
  <2> HIDE DEF w
  <2>4. CASE a.curr = 0
    <3>1. p = n
      <4>1. <<>> \o w = w
        BY <2>1, ConcatEmptySeq
      <4>2. QED
        BY <2>3, <2>4, <4>1
    <3> HIDE DEF n, p
    <3>2. Plans(p, a, old, v)
      BY <1>2, <1>4, <2>2, <2>4, <3>1 DEF Plans
    <3>3. QED
      BY <3>2 DEF p
  <2>5. CASE a.curr # 0
    <3>1. p = <<"mark_old">> \o n
      <4>1. <<"mark_old">> \in Seq(Ops)
        BY DEF Ops
      <4>2. QED
        BY <2>1, <2>3, <2>5, <4>1, ReturnPlanned, ConcatAssociative
    <3> HIDE DEF n
    <3>2. Op(p, "mark_old") /\ Tail(p) = n
      BY <2>1, <3>1, Cons DEF Ops
    <3> HIDE DEF p
    <3>3. Plans(p, a, old, v)
      BY <1>2, <1>4, <2>2, <2>5, <3>2 DEF Plans, AtMark
    <3>4. QED
      BY <3>3 DEF p
  <2>6. QED
    BY <2>4, <2>5
<1>5. QED
  BY <1>1, <1>3, <1>4

-----------------------------------------------------------------------------
(***************************************************************************)
(* FindVariableEx.                                                         *)
(***************************************************************************)
LEMMA FirstFinal ==
  ASSUME NEW m \in Nat, NEW S, S \subseteq 1 .. m
  PROVE  /\ S = {} => First(S) = 0 /\ Final(S) = 0
         /\ S # {} => /\ First(S) # 0 /\ Final(S) # 0
                      /\ First(S) \in S /\ \A i \in S : First(S) <= i
                      /\ Final(S) \in S /\ \A i \in S : i <= Final(S)
<1>1. S = {} => First(S) = 0 /\ Final(S) = 0
  BY DEF First, Final
<1>2. SUFFICES ASSUME S # {} PROVE /\ First(S) # 0 /\ Final(S) # 0
                                   /\ First(S) \in S /\ \A i \in S : First(S) <= i
                                   /\ Final(S) \in S /\ \A i \in S : i <= Final(S)
  BY <1>1
<1>3. PICK a \in S : \A i \in S : a <= i
  <2>1. S \subseteq Nat
    OBVIOUS
  <2>2. QED
    BY <1>2, <2>1, LeastNatural
<1>4. PICK b \in S : \A i \in S : i <= b
  <2> DEFINE T == {m - i : i \in S}
  <2>1. T \subseteq Nat /\ T # {}
    BY <1>2
  <2>2. PICK t \in T : \A u \in T : t <= u
    <3> HIDE DEF T
    <3>1. QED
      BY <2>1, LeastNatural
  <2>3. PICK b \in S : t = m - b
    BY <2>2
  <2>4. ASSUME NEW i \in S PROVE i <= b
    <3>1. m - i \in T
      OBVIOUS
    <3>2. m - b <= m - i
      BY <2>2, <2>3, <3>1
    <3>3. i \in Int /\ b \in Int
      OBVIOUS
    <3>4. QED
      BY <3>2, <3>3
  <2>5. QED
    BY <2>4
<1>5. Min(S) \in S /\ \A i \in S : Min(S) <= i
  BY <1>3 DEF Min
<1>6. Max(S) \in S /\ \A i \in S : i <= Max(S)
  <2>1. \A i \in S : b >= i
    BY <1>4
  <2>2. Max(S) \in S /\ \A i \in S : Max(S) >= i
    BY <2>1 DEF Max
  <2>3. QED
    BY <2>2
<1>7. First(S) = Min(S) /\ Final(S) = Max(S)
  BY <1>2 DEF First, Final
<1>8. Min(S) \in 1 .. m /\ Max(S) \in 1 .. m
  BY <1>5, <1>6
<1>9. QED
  BY <1>5, <1>6, <1>7, <1>8

\* The copies of a key that are ADDED or in deletion.
Live(records, k) == In(records, k, "added") \cup In(records, k, "indel")

\* What FindVariableEx finds are copies of the key; the second one, in deletion, is before
\* the first, which then is ADDED.  It finds one when there is one.
LEMMA FoundCopies ==
  ASSUME NEW records \in Seq(Records), NEW k, NEW f, f = FindVariableEx(records, k)
  PROVE  /\ f = [curr |-> f.curr, indel |-> f.indel]
         /\ f.curr \in 0 .. Len(records) /\ f.indel \in 0 .. Len(records)
         /\ f.curr # 0 => f.curr \in Live(records, k)
         /\ f.indel # 0 => /\ f.curr \in In(records, k, "added")
                           /\ f.indel \in In(records, k, "indel")
                           /\ f.indel < f.curr
         /\ f.curr = 0 => Live(records, k) = {}
         /\ f.curr \in In(records, k, "indel") => In(records, k, "added") = {}
<1> DEFINE m == Len(records)
           A == In(records, k, "added")
           D == In(records, k, "indel")
           a == First(A)
           B == {i \in D : i < a}
<1>1. m \in Nat /\ A \subseteq 1 .. m /\ D \subseteq 1 .. m /\ B \subseteq 1 .. m
  BY DEF In
<1>2. A \cap D = {}
  BY DEF In
<1>3. f = IF a = 0 THEN [curr |-> Final(D), indel |-> 0] ELSE [curr |-> a, indel |-> Final(B)]
  BY DEF FindVariableEx
<1>4. Live(records, k) = A \cup D
  BY DEF Live
<1> HIDE DEF m, A, D
<1>6. /\ A = {} => a = 0
      /\ A # {} => a \in A /\ a # 0
  BY <1>1, FirstFinal
<1>7. /\ D = {} => Final(D) = 0
      /\ D # {} => Final(D) \in D /\ Final(D) # 0
  BY <1>1, FirstFinal
<1>8. /\ B = {} => Final(B) = 0
      /\ B # {} => Final(B) \in B /\ Final(B) # 0
  <2> HIDE DEF B
  <2>1. QED
    BY <1>1, FirstFinal
<1>9. CASE A = {}
  <2>1. f.curr = Final(D) /\ f.indel = 0 /\ f = [curr |-> f.curr, indel |-> f.indel]
    BY <1>3, <1>6, <1>9
  <2>2. Final(D) \in 0 .. m
    <3>1. CASE D = {}
      BY <1>1, <1>7, <3>1
    <3>2. CASE D # {}
      <4>1. Final(D) \in 1 .. m
        BY <1>1, <1>7, <3>2
      <4>2. QED
        BY <1>1, <4>1
    <3>3. QED
      BY <3>1, <3>2
  <2>3. QED
    BY <1>1, <1>4, <1>7, <1>9, <2>1, <2>2 DEF m, A, D
<1>10. CASE A # {}
  <2>1. f.curr = a /\ f.indel = Final(B) /\ f = [curr |-> f.curr, indel |-> f.indel]
    BY <1>3, <1>6, <1>10
  <2>2. Final(B) \in 0 .. m /\ a \in 1 .. m /\ a \notin D
    <3>1. a \in 1 .. m /\ a \notin D
      BY <1>1, <1>2, <1>6, <1>10
    <3>2. CASE B = {}
      BY <1>1, <1>8, <3>1, <3>2
    <3>3. CASE B # {}
      <4>1. Final(B) \in 1 .. m
        BY <1>1, <1>8, <3>3
      <4>2. QED
        BY <1>1, <3>1, <4>1
    <3>4. QED
      BY <3>2, <3>3
  <2>3. Final(B) # 0 => Final(B) \in D /\ Final(B) < a
    BY <1>8
  <2>4. QED
    BY <1>1, <1>4, <1>6, <1>10, <2>1, <2>2, <2>3 DEF m, A, D
<1>11. QED
  BY <1>9, <1>10

-----------------------------------------------------------------------------
(***************************************************************************)
(* The inductive invariant: for each place of a call, what flash holds     *)
(* beyond the cache.                                                       *)
(***************************************************************************)
Stores   == [records : Seq(Records), junk : BOOLEAN]
Requests == [key : Keys, val : Values \cup {NoValue}]

TypeInv ==
  /\ flash \in Stores /\ cache \in Stores
  /\ offset \in 0 .. Space /\ total \in 0 .. Space /\ End(flash.records) <= Space
  /\ os \in {"boot", "ready", "runtime"}
  /\ scenario \in Scenarios /\ faults \in 0 .. scenario.faults
  /\ arg \in [req : Requests \cup {NoRequest}, curr : Nat, indel : Nat]

\* The copies a call has found are records whose header and data are complete.
IsCopy(i) == i # 0 => /\ i \in 1 .. Len(cache.records)
                      /\ cache.records[i].state \in {"added", "indel", "deleted"}
CopyInv == IsCopy(arg.curr) /\ IsCopy(arg.indel) /\ (arg.indel # 0 => arg.curr # 0)

\* The cache mirrors the flash; a new copy of the request still fits behind it.
Synced == cache.records = flash.records /\ offset = End(flash.records) /\ total = offset
Fits   == offset + 1 + Size[arg.req.val] <= Space

\* Flash has the new copy, in the given state, and the cache has it not.
Half(state) ==
  /\ flash.records = Append(cache.records, SetState(Record(arg.req), state))
  /\ offset = End(cache.records) /\ total = offset /\ Fits

Call ==
  \/ /\ Synced
     /\ \/ AtReturn(prog) \/ AtNotFound(prog) \/ AtRefused(prog)
        \/ AtDeleteCurr(prog) /\ arg.curr # 0
        \/ AtDeleteIndel(prog) /\ arg.indel # 0
  \/ /\ arg.req.val \in Values
     /\ \/ Synced /\ AtMark(prog, arg) /\ (AtHeader(Tail(prog), arg) => Fits)
        \/ Synced /\ AtHeader(prog, arg) /\ Fits
        \/ Half("none") /\ AtHeaderValid(prog, arg)
        \/ Half("header") /\ (AtData(prog, arg) \/ AtAdded(prog, arg))
        \/ Synced /\ AtReclaim(prog)

Control ==
  \/ prog = <<>> /\ arg = NoArg /\ Synced
  \/ Only(prog, "init_store") /\ arg = NoArg
  \/ (Only(prog, "reclaim_os") \/ Only(prog, "reclaim_junk")) /\ arg = NoArg /\ Synced
  \/ arg.req \in Requests /\ Call

\* Flash behind the records that is not erased comes from a power failure, and is known
\* until the reclaim that removes it, unless that reclaim fails.
JunkInv ==
  flash.junk =>
    /\ faults >= 1 /\ "power" \in scenario.kinds
    /\ \/ Only(prog, "init_store") \/ Only(prog, "reclaim_junk")
       \/ faults >= 2 /\ "ftw" \in scenario.kinds

IInv == TypeInv /\ CopyInv /\ Control /\ JunkInv

\* The place of a call is told by its next step.
LEMMA Places ==
  ASSUME Control
  PROVE  /\ Idle => arg = NoArg /\ Synced
         /\ At("init_store") => Only(prog, "init_store") /\ arg = NoArg
         /\ At("reclaim_os") => Only(prog, "reclaim_os") /\ arg = NoArg /\ Synced
         /\ At("reclaim_junk") => Only(prog, "reclaim_junk") /\ arg = NoArg /\ Synced
         /\ At("return") => AtReturn(prog) /\ arg.req \in Requests /\ Synced
         /\ At("not_found") => AtNotFound(prog) /\ arg.req \in Requests /\ Synced
         /\ At("out_of_resources") => AtRefused(prog) /\ arg.req \in Requests /\ Synced
         /\ At("delete_curr") => /\ AtDeleteCurr(prog) /\ arg.req \in Requests /\ Synced
                                 /\ arg.curr # 0
         /\ At("delete_indel") => /\ AtDeleteIndel(prog) /\ arg.req \in Requests /\ Synced
                                  /\ arg.indel # 0
         /\ At("mark_old") => /\ AtMark(prog, arg) /\ arg.req \in Requests /\ Synced
                              /\ arg.req.val \in Values /\ (AtHeader(Tail(prog), arg) => Fits)
         /\ At("header") => /\ AtHeader(prog, arg) /\ arg.req \in Requests /\ Synced
                            /\ arg.req.val \in Values /\ Fits
         /\ At("header_valid") => /\ AtHeaderValid(prog, arg) /\ arg.req \in Requests
                                  /\ arg.req.val \in Values /\ Half("none")
         /\ At("data") => /\ AtData(prog, arg) /\ arg.req \in Requests
                          /\ arg.req.val \in Values /\ Half("header")
         /\ At("added") => /\ AtAdded(prog, arg) /\ arg.req \in Requests
                           /\ arg.req.val \in Values /\ Half("header")
         /\ At("reclaim") => /\ AtReclaim(prog) /\ arg.req \in Requests
                             /\ arg.req.val \in Values /\ Synced
BY DEF Control, Call, Idle, At, Only, Op, AtReturn, AtNotFound, AtRefused, AtDeleteCurr,
       AtDeleteIndel, AtMark, AtHeader, AtHeaderValid, AtData, AtAdded, AtReclaim

LEMMA InitInv == Init => IInv
<1> SUFFICES ASSUME Init PROVE IInv
  OBVIOUS
<1>1. <<>> \in Seq(Records)
  OBVIOUS
<1>2. TypeInv
  BY <1>1, VarAssumption, EndEmpty DEF Init, TypeInv, Stores, NoArg
<1>3. CopyInv
  BY DEF Init, CopyInv, IsCopy, NoArg
<1>4. Control
  BY EndEmpty DEF Init, Control, Synced
<1>5. JunkInv
  BY DEF Init, JunkInv
<1>6. QED
  BY <1>2, <1>3, <1>4, <1>5 DEF IInv

-----------------------------------------------------------------------------
(***************************************************************************)
(* Every action preserves it.                                              *)
(***************************************************************************)

\* A plan depends on the two copies only.
LEMMA SameCopies ==
  ASSUME NEW p, NEW a, NEW b, a.curr = b.curr, a.indel = b.indel
  PROVE  /\ AtDeletes(p, a) = AtDeletes(p, b)
         /\ AtHeader(p, a) = AtHeader(p, b)
         /\ AtHeader(Tail(p), a) = AtHeader(Tail(p), b)
         /\ AtNew(p, a) = AtNew(p, b)
         /\ AtMark(p, a) = AtMark(p, b)
BY DEF AtDeletes, AtAdded, AtData, AtHeaderValid, AtHeader, AtNew, AtMark

LEMMA SetVariableInv ==
  ASSUME IInv, NEW k \in Keys, NEW v \in Values \cup {NoValue}, SetVariable(k, v)
  PROVE  IInv'
<1> DEFINE f   == FindVariableEx(cache.records, k)
           old == GetVariable(cache.records, k)
<1>1. Idle /\ arg = NoArg /\ Synced /\ TypeInv /\ JunkInv
  BY Places DEF IInv, SetVariable
<1>2. /\ prog' = UpdateVariable(f, old, v) \o <<"return">>
      /\ arg' = [req |-> [key |-> k, val |-> v], curr |-> f.curr, indel |-> f.indel]
      /\ UNCHANGED <<flash, cache, offset, total, os, faults, scenario>>
  BY DEF SetVariable
<1>3. cache.records \in Seq(Records)
  BY <1>1 DEF TypeInv, Stores
<1> HIDE DEF f, old
<1>4. /\ f.curr \in 0 .. Len(cache.records) /\ f.indel \in 0 .. Len(cache.records)
      /\ f.curr # 0 => f.curr \in Live(cache.records, k)
      /\ f.indel # 0 => /\ f.curr \in In(cache.records, k, "added")
                        /\ f.indel \in In(cache.records, k, "indel")
                        /\ f.indel < f.curr
  BY <1>3, FoundCopies DEF f
<1>5. f.curr \in Nat /\ f.indel \in Nat /\ (f.indel # 0 => f.curr # 0)
  <2>1. Len(cache.records) \in Nat
    BY <1>3
  <2>2. QED
    BY <1>4, <2>1
<1>6. arg'.curr = f.curr /\ arg'.indel = f.indel /\ arg'.req = [key |-> k, val |-> v]
      /\ arg'.req \in Requests /\ arg'.req.val = v
  BY <1>2 DEF Requests
<1>7. Plans(prog', f, old, v)
  BY <1>2, <1>5, UpdatePlanned
<1>8. Plans(prog', arg', old, v)
  BY <1>6, <1>7, SameCopies DEF Plans
<1>9. v \in Values /\ ~Full(v) => Fits'
  <2>1. v \in Values => Size[v] \in Nat
    BY VarAssumption
  <2>2. total = offset /\ offset \in Nat /\ Space \in Nat /\ Reserved \in 0 .. Space
    BY <1>1, VarAssumption DEF Synced, TypeInv
  <2>3. SUFFICES ASSUME v \in Values, ~Full(v) PROVE Fits'
    OBVIOUS
  <2>4. offset + 1 + Size[v] <= Space
    BY <2>1, <2>2, <2>3 DEF Full
  <2>5. QED
    BY <1>2, <1>6, <2>4 DEF Fits
<1>10. Synced'
  BY <1>1, <1>2 DEF Synced
<1>11. TypeInv'
  <2>1. arg' \in [req : Requests \cup {NoRequest}, curr : Nat, indel : Nat]
    BY <1>2, <1>5, <1>6
  <2>2. QED
    BY <1>1, <1>2, <2>1 DEF TypeInv
<1>12. CopyInv'
  <2>1. ASSUME NEW i, i \in Live(cache.records, k) \/ i \in In(cache.records, k, "indel")
        PROVE  /\ i \in 1 .. Len(cache.records)
               /\ cache.records[i].state \in {"added", "indel", "deleted"}
    BY <1>3, <2>1 DEF Live, In
  <2>2. IsCopy(f.curr) /\ IsCopy(f.indel)
    BY <1>4, <2>1 DEF IsCopy
  <2>3. QED
    BY <1>2, <1>5, <1>6, <2>2 DEF CopyInv, IsCopy
<1>13. Control'
  <2>1. Call'
    <3>1. CASE v = NoValue /\ arg'.curr = 0 /\ AtNotFound(prog')
      BY <1>10, <3>1 DEF Call
    <3>2. CASE v = NoValue /\ arg'.curr # 0 /\ AtDeletes(prog', arg')
      BY <1>10, <3>2 DEF Call, AtDeletes
    <3>3. CASE v \in Values /\ v = old /\ AtReturn(prog')
      BY <1>10, <3>3 DEF Call
    <3>4. CASE /\ v \in Values /\ arg'.curr # 0 /\ AtMark(prog', arg')
               /\ AtHeader(Tail(prog'), arg') => ~Full(v)
      BY <1>6, <1>9, <1>10, <3>4 DEF Call
    <3>5. CASE /\ v \in Values /\ AtNew(prog', arg')
               /\ AtHeader(prog', arg') => ~Full(v)
      BY <1>6, <1>9, <1>10, <3>5 DEF Call, AtNew
    <3>6. QED
      BY <1>8, <3>1, <3>2, <3>3, <3>4, <3>5 DEF Plans
  <2>2. QED
    BY <1>6, <2>1 DEF Control
<1>14. JunkInv'
  BY <1>1, <1>2 DEF JunkInv, Only, Op, Idle
<1>15. QED
  BY <1>11, <1>12, <1>13, <1>14 DEF IInv

\* The write of a state byte.
Marked(store, i, s) == [store EXCEPT !.records[i].state = s]

LEMMA RecordsWritten ==
  ASSUME NEW store \in Stores, NEW i \in 1 .. Len(store.records), NEW s \in States,
         NEW t, t = Marked(store, i, s)
  PROVE  t.records = [store.records EXCEPT ![i] = SetState(@, s)]
BY DEF Stores, SetState, Marked

\* The store that results, record by record.
LEMMA StateWritten ==
  ASSUME NEW store \in Stores, NEW i \in 1 .. Len(store.records), NEW s \in States,
         NEW t, t = Marked(store, i, s)
  PROVE  /\ t \in Stores /\ t.junk = store.junk /\ Len(t.records) = Len(store.records)
         /\ \A n \in 1 .. Len(store.records) :
              t.records[n] = IF n = i THEN SetState(store.records[i], s) ELSE store.records[n]
<1>1. store.records \in Seq(Records) /\ store.records[i] \in Records
  BY DEF Stores
<1>2. t.junk = store.junk /\ t.records = [store.records EXCEPT ![i] = SetState(@, s)]
      /\ t = [records |-> t.records, junk |-> store.junk]
  BY DEF Stores, SetState, Marked
<1>3. SetState(store.records[i], s) \in Records
  BY <1>1, SetStateType
<1>4. t.records \in Seq(Records) /\ Len(t.records) = Len(store.records)
  <2> DEFINE u == [store.records EXCEPT ![i] = SetState(store.records[i], s)]
  <2>1. u \in Seq(Records) /\ Len(u) = Len(store.records)
    BY <1>1, <1>3
  <2>2. t.records = u
    BY <1>2
  <2>3. QED
    BY <2>1, <2>2
<1>5. \A n \in 1 .. Len(store.records) :
        t.records[n] = IF n = i THEN SetState(store.records[i], s) ELSE store.records[n]
  BY <1>1, <1>2
<1>6. store.junk \in BOOLEAN
  BY DEF Stores
<1>7. t \in Stores
  BY <1>2, <1>4, <1>6 DEF Stores
<1>8. QED
  BY <1>2, <1>4, <1>5, <1>7

\* The end stays where it is when the header was complete.
LEMMA EndKept ==
  ASSUME NEW records \in Seq(Records), NEW i \in 1 .. Len(records), NEW s \in States \ {"none"},
         records[i].state # "none", NEW t, t = [records EXCEPT ![i] = SetState(@, s)]
  PROVE  End(t) = End(records)
<1>1. records[i] \in Records
  OBVIOUS
<1>2. SetState(records[i], s) \in Records /\ Length(SetState(records[i], s)) = Length(records[i])
  BY <1>1, SetStateType DEF Length
<1>3. t \in Seq(Records) /\ Len(t) = Len(records)
  BY <1>2
<1>4. \A n \in 1 .. Len(records) : t[n] = IF n = i THEN SetState(records[i], s) ELSE records[n]
  OBVIOUS
<1>5. \A n \in 1 .. Len(records) : Length(records[n]) = Length(t[n])
  BY <1>2, <1>4
<1>6. QED
  BY <1>3, <1>5, EndSame

LEMMA WriteStateInv ==
  ASSUME IInv, NEW step \in {"mark_old", "delete_indel", "delete_curr"},
         NEW i, NEW s \in {"indel", "deleted"}, WriteState(step, i, s),
         i \in {arg.curr, arg.indel}, i # 0, Synced, arg.req \in Requests,
         Synced' => Call'
  PROVE  IInv'
<1>1. /\ At(step) /\ prog' = Tail(prog)
      /\ flash' = [flash EXCEPT !.records[i].state = s]
      /\ cache' = [cache EXCEPT !.records[i].state = s]
      /\ UNCHANGED <<offset, total, os, arg, status, faults, scenario>>
  BY DEF WriteState, Done
<1>2. TypeInv /\ CopyInv /\ JunkInv /\ s \in States \ {"none"}
  BY DEF IInv, States
<1>3. /\ flash \in Stores /\ cache \in Stores /\ cache.records = flash.records
      /\ flash.records \in Seq(Records) /\ i \in 1 .. Len(flash.records)
      /\ flash.records[i].state # "none"
  BY <1>2 DEF TypeInv, CopyInv, IsCopy, Synced, Stores
<1>4. /\ flash' \in Stores /\ flash'.junk = flash.junk
      /\ flash'.records = [flash.records EXCEPT ![i] = SetState(@, s)]
      /\ Len(flash'.records) = Len(flash.records)
  <2>1. s \in States /\ i \in 1 .. Len(flash.records) /\ flash \in Stores
    BY <1>2, <1>3
  <2>2. flash' = Marked(flash, i, s)
    BY <1>1 DEF Marked
  <2>3. QED
    BY <2>1, <2>2, RecordsWritten, StateWritten
<1>5. /\ cache' \in Stores
      /\ cache'.records = [cache.records EXCEPT ![i] = SetState(@, s)]
      /\ Len(cache'.records) = Len(cache.records)
      /\ \A n \in 1 .. Len(cache.records) :
           cache'.records[n] = IF n = i THEN SetState(cache.records[i], s) ELSE cache.records[n]
  <2>1. s \in States /\ i \in 1 .. Len(cache.records) /\ cache \in Stores
    BY <1>2, <1>3
  <2>2. cache' = Marked(cache, i, s)
    BY <1>1 DEF Marked
  <2>3. QED
    BY <2>1, <2>2, RecordsWritten, StateWritten
<1>6. End(flash'.records) = End(flash.records)
  BY <1>2, <1>3, <1>4, EndKept
<1>7. Synced'
  BY <1>1, <1>3, <1>4, <1>5, <1>6 DEF Synced
<1>8. TypeInv'
  BY <1>1, <1>2, <1>4, <1>5, <1>6 DEF TypeInv
<1>9. CopyInv'
  <2>1. SetState(cache.records[i], s).state = s
    BY <1>2, <1>3, SetStateType
  <2>2. ASSUME NEW j \in Nat, IsCopy(j) PROVE IsCopy(j)'
    BY <1>5, <2>1, <2>2 DEF IsCopy
  <2>3. arg.curr \in Nat /\ arg.indel \in Nat
    BY <1>2 DEF TypeInv
  <2>4. IsCopy(arg.curr)' /\ IsCopy(arg.indel)'
    BY <1>1, <1>2, <2>2, <2>3 DEF CopyInv, IsCopy
  <2>5. QED
    BY <1>1, <1>2, <2>4 DEF CopyInv
<1>10. Control'
  BY <1>1, <1>7 DEF Control
<1>11. JunkInv'
  BY <1>1, <1>2, <1>4 DEF JunkInv, At, Only, Op
<1>12. QED
  BY <1>8, <1>9, <1>10, <1>11 DEF IInv

LEMMA MarkInv ==
  ASSUME IInv, MarkOld \/ DeleteIndel \/ DeleteCurr
  PROVE  IInv'
<1>1. Control /\ TypeInv
  BY DEF IInv
<1>2. CASE MarkOld
  <2>1. /\ At("mark_old") /\ prog' = Tail(prog) /\ UNCHANGED <<arg, offset>>
        /\ WriteState("mark_old", arg.curr, "indel")
    BY <1>2 DEF MarkOld, WriteState, Done
  <2>2. /\ AtMark(prog, arg) /\ arg.req \in Requests /\ Synced
        /\ arg.req.val \in Values /\ (AtHeader(Tail(prog), arg) => Fits)
    BY <1>1, <2>1, Places
  <2>3. arg.curr # 0 /\ AtNew(prog', arg) /\ (AtHeader(prog', arg) => Fits')
    BY <2>1, <2>2 DEF AtMark, Fits
  <2>4. Synced' => Call'
    BY <2>1, <2>2, <2>3 DEF Call, AtNew
  <2>5. QED
    BY <2>1, <2>2, <2>3, <2>4, WriteStateInv
<1>3. CASE DeleteIndel
  <2>1. /\ At("delete_indel") /\ prog' = Tail(prog) /\ UNCHANGED arg
        /\ WriteState("delete_indel", arg.indel, "deleted")
    BY <1>3 DEF DeleteIndel, WriteState, Done
  <2>2. AtDeleteIndel(prog) /\ arg.req \in Requests /\ Synced /\ arg.indel # 0
    BY <1>1, <2>1, Places
  <2>3. arg.curr # 0
    BY <2>2 DEF IInv, CopyInv
  <2>4. Synced' => Call'
    BY <2>1, <2>2, <2>3 DEF Call, AtDeleteIndel
  <2>5. QED
    BY <2>1, <2>2, <2>4, WriteStateInv
<1>4. CASE DeleteCurr
  <2>1. /\ At("delete_curr") /\ prog' = Tail(prog) /\ UNCHANGED arg
        /\ WriteState("delete_curr", arg.curr, "deleted")
    BY <1>4 DEF DeleteCurr, WriteState, Done
  <2>2. AtDeleteCurr(prog) /\ arg.req \in Requests /\ Synced /\ arg.curr # 0
    BY <1>1, <2>1, Places
  <2>3. Synced' => Call'
    BY <2>1, <2>2 DEF Call, AtDeleteCurr
  <2>4. QED
    BY <2>1, <2>2, <2>3, WriteStateInv
<1>5. QED
  BY <1>2, <1>3, <1>4

\* The new copy of a request, in any state of its header.
LEMMA NewCopy ==
  ASSUME NEW r \in Requests, r.val \in Values
  PROVE  /\ Record(r) \in Records /\ Record(r).key = r.key /\ Record(r).val = r.val
         /\ Record(r).state = "added"
         /\ \A s \in States : /\ SetState(Record(r), s) \in Records
                              /\ SetState(Record(r), s).state = s
         /\ SetState(Record(r), "added") = Record(r)
         /\ Length(SetState(Record(r), "none")) = 1
         /\ Length(SetState(Record(r), "header")) = 1 + Size[r.val]
         /\ Length(Record(r)) = 1 + Size[r.val]
         /\ Size[r.val] \in Nat
<1>1. Record(r) \in Records /\ Record(r).key = r.key /\ Record(r).val = r.val
      /\ Record(r).state = "added"
  BY DEF Record, Records, Requests, States
<1>2. \A s \in States : /\ SetState(Record(r), s) \in Records
                        /\ SetState(Record(r), s).state = s
                        /\ SetState(Record(r), s).val = r.val
  BY <1>1, SetStateType
<1>3. "none" \in States /\ "header" \in States
  BY DEF States
<1>4. SetState(Record(r), "added") = Record(r)
  BY DEF SetState, Record
<1>5. Size[r.val] \in Nat
  BY VarAssumption
<1>6. Length(SetState(Record(r), "none")) = 1 /\ Length(Record(r)) = 1 + Size[r.val]
      /\ Length(SetState(Record(r), "header")) = 1 + Size[r.val]
  BY <1>1, <1>2, <1>3 DEF Length
<1>7. QED
  BY <1>1, <1>2, <1>4, <1>5, <1>6

\* A state byte written to the last of the records.
LEMMA TipWritten ==
  ASSUME NEW old \in Seq(Records), NEW r \in Requests, r.val \in Values, NEW s \in States,
         NEW s2 \in States, NEW store \in Stores,
         store.records = Append(old, SetState(Record(r), s)), NEW t,
         t = Marked(store, Len(store.records), s2)
  PROVE  /\ t \in Stores /\ t.junk = store.junk
         /\ t.records = Append(old, SetState(Record(r), s2))
<1> DEFINE m == Len(old)
           a == SetState(Record(r), s)
           b == SetState(Record(r), s2)
<1>1. a \in Records /\ b \in Records /\ m \in Nat
  BY NewCopy
<1>2. SetState(a, s2) = b
  BY DEF SetState, Record
<1> HIDE DEF a, b
<1>3. /\ store.records \in Seq(Records) /\ Len(store.records) = m + 1
      /\ store.records[m + 1] = a /\ \A n \in 1 .. m : store.records[n] = old[n]
  BY <1>1 DEF a
<1>4. m + 1 \in 1 .. Len(store.records)
  BY <1>1, <1>3
<1>5. /\ t \in Stores /\ t.junk = store.junk /\ Len(t.records) = Len(store.records)
      /\ \A n \in 1 .. Len(store.records) :
           t.records[n] = IF n = m + 1 THEN SetState(store.records[m + 1], s2)
                          ELSE store.records[n]
  <2>1. t = Marked(store, m + 1, s2)
    BY <1>3
  <2> HIDE DEF m
  <2>2. QED
    BY <1>4, <2>1, StateWritten
<1>6. t.records \in Seq(Records)
  BY <1>5 DEF Stores
<1> DEFINE u == Append(old, b)
<1>7. u \in Seq(Records) /\ Len(u) = m + 1 /\ u[m + 1] = b /\ \A n \in 1 .. m : u[n] = old[n]
  BY <1>1
<1> HIDE DEF u, m
<1>8. \A n \in 1 .. m + 1 : t.records[n] = u[n]
  <2>1. ASSUME NEW n \in 1 .. m + 1 PROVE t.records[n] = u[n]
    <3>1. CASE n = m + 1
      BY <1>2, <1>3, <1>5, <1>7, <3>1
    <3>2. CASE n \in 1 .. m
      BY <1>1, <1>3, <1>5, <1>7, <3>2
    <3>3. QED
      BY <1>1, <3>1, <3>2
  <2>2. QED
    BY <2>1
<1>9. t.records = u
  BY <1>3, <1>5, <1>6, <1>7, <1>8, SeqEqual
<1>10. QED
  BY <1>5, <1>9 DEF u, b

LEMMA WriteHeaderInv == IInv /\ WriteHeader => IInv'
<1> SUFFICES ASSUME IInv, WriteHeader PROVE IInv'
  OBVIOUS
<1> DEFINE r == SetState(Record(arg.req), "none")
<1>1. /\ At("header") /\ prog' = Tail(prog)
      /\ flash' = [flash EXCEPT !.records = Append(@, r)]
      /\ UNCHANGED <<cache, offset, total, os, arg, status, faults, scenario>>
  BY DEF WriteHeader, Done
<1>2. AtHeader(prog, arg) /\ arg.req \in Requests /\ Synced /\ arg.req.val \in Values /\ Fits
  BY <1>1, Places DEF IInv
<1>3. TypeInv /\ CopyInv /\ JunkInv
  BY DEF IInv
<1>4. r \in Records /\ Length(r) = 1 /\ Size[arg.req.val] \in Nat
  BY <1>2, NewCopy DEF States
<1>5. flash.records \in Seq(Records) /\ flash \in Stores
  BY <1>3 DEF TypeInv, Stores
<1> HIDE DEF r
<1>6. /\ flash' \in Stores /\ flash'.records = Append(flash.records, r)
      /\ flash'.junk = flash.junk
  BY <1>1, <1>4, <1>5 DEF Stores
<1>7. End(flash'.records) = End(flash.records) + 1
  BY <1>4, <1>5, <1>6, EndAppend
<1>8. TypeInv'
  <2>1. End(flash'.records) <= Space
    BY <1>2, <1>3, <1>4, <1>7, VarAssumption DEF Synced, Fits, TypeInv
  <2>2. QED
    BY <1>1, <1>3, <1>6, <2>1 DEF TypeInv
<1>9. CopyInv'
  BY <1>1, <1>3 DEF CopyInv, IsCopy
<1>10. Control'
  <2>1. Half("none")'
    BY <1>1, <1>2, <1>6 DEF Half, Synced, Fits, r
  <2>2. AtHeaderValid(prog', arg')
    BY <1>1, <1>2 DEF AtHeader
  <2>3. QED
    BY <1>1, <1>2, <2>1, <2>2 DEF Control, Call
<1>11. JunkInv'
  BY <1>1, <1>2, <1>3, <1>6 DEF JunkInv, AtHeader, Only, Op
<1>12. QED
  BY <1>8, <1>9, <1>10, <1>11 DEF IInv

LEMMA WriteHeaderValidInv == IInv /\ WriteHeaderValid => IInv'
<1> SUFFICES ASSUME IInv, WriteHeaderValid PROVE IInv'
  OBVIOUS
<1> DEFINE r == SetState(Record(arg.req), "header")
<1>1. /\ At("header_valid") /\ prog' = Tail(prog)
      /\ flash' = Marked(flash, Len(flash.records), "header")
      /\ UNCHANGED <<cache, offset, total, os, arg, status, faults, scenario>>
  BY DEF WriteHeaderValid, Done, Tip, Marked
<1>2. AtHeaderValid(prog, arg) /\ arg.req \in Requests /\ arg.req.val \in Values /\ Half("none")
  BY <1>1, Places DEF IInv
<1>3. TypeInv /\ CopyInv /\ JunkInv
  BY DEF IInv
<1>4. r \in Records /\ Length(r) = 1 + Size[arg.req.val] /\ Size[arg.req.val] \in Nat
  BY <1>2, NewCopy DEF States
<1>5. cache.records \in Seq(Records) /\ flash \in Stores
  BY <1>3 DEF TypeInv, Stores
<1>6. flash' \in Stores /\ flash'.records = Append(cache.records, r) /\ flash'.junk = flash.junk
  <2>1. flash.records = Append(cache.records, SetState(Record(arg.req), "none"))
    BY <1>2 DEF Half
  <2>2. "none" \in States /\ "header" \in States
    BY DEF States
  <2>3. QED
    BY <1>1, <1>2, <1>5, <2>1, <2>2, TipWritten, SMTT(30)
<1> HIDE DEF r
<1>7. End(flash'.records) = End(cache.records) + 1 + Size[arg.req.val]
      /\ End(cache.records) \in Nat
  <2>1. End(flash'.records) = End(cache.records) + Length(r)
    BY <1>4, <1>5, <1>6, EndAppend
  <2>2. End(cache.records) \in Nat
    BY <1>5, EndType
  <2>3. QED
    BY <1>4, <2>1, <2>2
<1>8. TypeInv'
  <2>1. End(flash'.records) <= Space
    BY <1>2, <1>7 DEF Half, Fits
  <2>2. QED
    BY <1>1, <1>3, <1>6, <2>1 DEF TypeInv
<1>9. CopyInv'
  BY <1>1, <1>3 DEF CopyInv, IsCopy
<1>10. Control'
  <2>1. Half("header")'
    BY <1>1, <1>2, <1>6 DEF Half, Fits, r
  <2>2. AtData(prog', arg')
    BY <1>1, <1>2 DEF AtHeaderValid
  <2>3. QED
    BY <1>1, <1>2, <2>1, <2>2 DEF Control, Call
<1>11. JunkInv'
  BY <1>1, <1>2, <1>3, <1>6 DEF JunkInv, AtHeaderValid, Only, Op
<1>12. QED
  BY <1>8, <1>9, <1>10, <1>11 DEF IInv

LEMMA WriteDataInv == IInv /\ WriteData => IInv'
<1> SUFFICES ASSUME IInv, WriteData PROVE IInv'
  OBVIOUS
<1>1. /\ At("data") /\ prog' = Tail(prog)
      /\ UNCHANGED <<flash, cache, offset, total, os, arg, status, faults, scenario>>
  BY DEF WriteData, Done
<1>2. AtData(prog, arg) /\ arg.req \in Requests /\ arg.req.val \in Values /\ Half("header")
  BY <1>1, Places DEF IInv
<1>3. Half("header")' /\ AtAdded(prog', arg')
  BY <1>1, <1>2 DEF Half, Fits, AtData
<1>4. Control'
  BY <1>1, <1>2, <1>3 DEF Control, Call
<1>5. TypeInv' /\ CopyInv' /\ JunkInv'
  BY <1>1, <1>2 DEF IInv, TypeInv, CopyInv, IsCopy, JunkInv, AtData, Only, Op
<1>6. QED
  BY <1>4, <1>5 DEF IInv

LEMMA WriteAddedInv == IInv /\ WriteAdded => IInv'
<1> SUFFICES ASSUME IInv, WriteAdded PROVE IInv'
  OBVIOUS
<1> DEFINE r == Record(arg.req)
<1>1. /\ At("added") /\ prog' = Tail(prog)
      /\ flash' = Marked(flash, Len(flash.records), "added")
      /\ cache' = [cache EXCEPT !.records = Append(@, r)]
      /\ offset' = offset + 1 + Size[arg.req.val] /\ total' = total + 1 + Size[arg.req.val]
      /\ UNCHANGED <<os, arg, status, faults, scenario>>
  BY DEF WriteAdded, Done, Tip, Marked
<1>2. AtAdded(prog, arg) /\ arg.req \in Requests /\ arg.req.val \in Values /\ Half("header")
  BY <1>1, Places DEF IInv
<1>3. TypeInv /\ CopyInv /\ JunkInv
  BY DEF IInv
<1>4. /\ r \in Records /\ Length(r) = 1 + Size[arg.req.val] /\ Size[arg.req.val] \in Nat
      /\ SetState(r, "added") = r
  BY <1>2, NewCopy
<1>5. cache.records \in Seq(Records) /\ flash \in Stores /\ cache \in Stores
  BY <1>3 DEF TypeInv, Stores
<1>6. flash' \in Stores /\ flash'.records = Append(cache.records, r) /\ flash'.junk = flash.junk
  <2>1. flash.records = Append(cache.records, SetState(Record(arg.req), "header"))
    BY <1>2 DEF Half
  <2>2. "added" \in States /\ "header" \in States
    BY DEF States
  <2>3. flash' \in Stores /\ flash'.records = Append(cache.records, SetState(r, "added"))
        /\ flash'.junk = flash.junk
    BY <1>1, <1>2, <1>5, <2>1, <2>2, TipWritten
  <2>4. QED
    BY <1>4, <2>3
<1> HIDE DEF r
<1>7. cache' \in Stores /\ cache'.records = Append(cache.records, r)
  <2>1. Append(cache.records, r) \in Seq(Records)
    BY <1>4, <1>5
  <2>2. cache' = [records |-> Append(cache.records, r), junk |-> cache.junk]
        /\ cache.junk \in BOOLEAN
    BY <1>1, <1>5 DEF Stores
  <2>3. QED
    BY <2>1, <2>2 DEF Stores
<1>8. End(flash'.records) = End(cache.records) + 1 + Size[arg.req.val]
      /\ End(cache.records) \in Nat
  BY <1>4, <1>5, <1>6, EndAppend, EndType, SMTT(30)
<1>9. offset = End(cache.records) /\ total = offset /\ offset + 1 + Size[arg.req.val] <= Space
  BY <1>2 DEF Half, Fits
<1>10. Synced'
  BY <1>1, <1>6, <1>7, <1>8, <1>9 DEF Synced
<1>11. TypeInv'
  <2>1. offset' \in 0 .. Space /\ total' \in 0 .. Space /\ End(flash'.records) <= Space
    BY <1>1, <1>4, <1>8, <1>9, VarAssumption
  <2>2. QED
    BY <1>1, <1>3, <1>6, <1>7, <2>1 DEF TypeInv
<1>12. CopyInv'
  <2>1. /\ Len(cache'.records) = Len(cache.records) + 1 /\ Len(cache.records) \in Nat
        /\ \A n \in 1 .. Len(cache.records) : cache'.records[n] = cache.records[n]
    BY <1>4, <1>5, <1>7
  <2>2. ASSUME NEW i, IsCopy(i) PROVE IsCopy(i)'
    BY <2>1, <2>2 DEF IsCopy
  <2>3. QED
    BY <1>1, <1>3, <2>2 DEF CopyInv, IsCopy
<1>13. Control'
  <2>1. AtDeletes(prog', arg')
    BY <1>1, <1>2 DEF AtAdded
  <2>2. Call'
    BY <1>10, <2>1 DEF Call, AtDeletes
  <2>3. QED
    BY <1>1, <1>2, <2>2 DEF Control
<1>14. JunkInv'
  BY <1>1, <1>2, <1>3, <1>6 DEF JunkInv, AtAdded, Only, Op
<1>15. QED
  BY <1>11, <1>12, <1>13, <1>14 DEF IInv

\* What Reclaim writes, for each of its three callers.
LEMMA CollectedStore ==
  ASSUME IInv, Reclaiming
  PROVE  /\ Collected.records \in Seq(Records)
         /\ Collected.ok => End(Collected.records) <= Space
         /\ At("reclaim") => /\ Len(Collected.records) > 0
                             /\ Collected.records[Len(Collected.records)].state = "added"
<1> DEFINE b == ValidBuffer(flash.records, arg.curr, arg.indel)
<1>1. flash.records \in Seq(Records) /\ End(flash.records) <= Space
  BY DEF IInv, TypeInv, Stores
<1>2. b \in Seq(Records) /\ End(b) <= End(flash.records)
  BY <1>1, ReclaimShrinks
<1>3. End(b) \in Nat /\ End(flash.records) \in Nat /\ Space \in Nat
  BY <1>1, <1>2, EndType, VarAssumption
<1> HIDE DEF b
<1>4. CASE At("reclaim")
  <2>1. Record(arg.req) \in Records /\ Record(arg.req).state = "added"
    BY <1>4, Places, NewCopy DEF IInv
  <2>2. Collected = [ok |-> End(Append(b, Record(arg.req))) <= Space,
                     records |-> Append(b, Record(arg.req))]
    BY <1>4 DEF Collected, Reclaim, b
  <2>3. /\ Append(b, Record(arg.req)) \in Seq(Records)
        /\ Len(Append(b, Record(arg.req))) = Len(b) + 1 /\ Len(b) \in Nat
        /\ Append(b, Record(arg.req))[Len(b) + 1] = Record(arg.req)
    BY <1>2, <2>1
  <2>4. Collected.records = Append(b, Record(arg.req))
    BY <2>2
  <2>5. Collected.ok => End(Collected.records) <= Space
    BY <2>2
  <2>6. QED
    BY <2>1, <2>3, <2>4, <2>5
<1>5. CASE ~At("reclaim")
  <2>1. Collected.records = b /\ Collected.ok = TRUE
    BY <1>5 DEF Collected, Reclaim, b
  <2>2. QED
    BY <1>1, <1>2, <1>3, <1>5, <2>1
<1>6. QED
  BY <1>4, <1>5

LEMMA DoReclaimInv == IInv /\ DoReclaim => IInv'
<1> SUFFICES ASSUME IInv, DoReclaim PROVE IInv'
  OBVIOUS
<1>1. /\ Reclaiming /\ prog' = Tail(prog) /\ cache' = flash'
      /\ UNCHANGED <<os, status, faults, scenario>>
  BY DEF DoReclaim, Done
<1>2. TypeInv /\ CopyInv /\ JunkInv /\ Control
  BY DEF IInv
<1>3. Synced
  BY <1>1, <1>2, Places DEF Reclaiming
<1>4. flash \in Stores /\ flash.records \in Seq(Records)
  BY <1>2 DEF TypeInv, Stores
<1>5. /\ Collected.records \in Seq(Records)
      /\ Collected.ok => End(Collected.records) <= Space
      /\ At("reclaim") => /\ Len(Collected.records) > 0
                          /\ Collected.records[Len(Collected.records)].state = "added"
  BY <1>1, CollectedStore
<1>6. \/ AtReclaim(prog) /\ arg.req \in Requests /\ At("reclaim")
      \/ Only(prog, "reclaim_os") /\ arg = NoArg
      \/ Only(prog, "reclaim_junk") /\ arg = NoArg
  BY <1>1, <1>2, Places DEF Reclaiming
<1>7. CASE Collected.ok
  <2>1. /\ flash' = [records |-> Collected.records, junk |-> FALSE]
        /\ offset' = End(Collected.records) /\ total' = End(Collected.records)
        /\ arg' = IF arg.curr = 0 THEN arg
                  ELSE [arg EXCEPT !.curr = Len(Collected.records), !.indel = 0]
    BY <1>7 DEF DoReclaim
  <2>2. flash'.records = Collected.records /\ flash'.junk = FALSE /\ flash' \in Stores
    BY <1>5, <2>1 DEF Stores
  <2>3. End(Collected.records) \in 0 .. Space
    BY <1>5, <1>7, EndType, VarAssumption
  <2>4. Synced'
    BY <1>1, <2>1, <2>2 DEF Synced
  <2>5. arg'.req = arg.req /\ arg' \in [req : Requests \cup {NoRequest}, curr : Nat, indel : Nat]
        /\ arg'.curr = (IF arg.curr = 0 THEN 0 ELSE Len(Collected.records))
        /\ arg'.indel = 0
    <3>1. arg.curr = 0 => arg.indel = 0
      BY <1>2 DEF CopyInv
    <3>2. Len(Collected.records) \in Nat
      BY <1>5
    <3>3. arg \in [req : Requests \cup {NoRequest}, curr : Nat, indel : Nat]
      BY <1>2 DEF TypeInv
    <3>4. QED
      BY <2>1, <3>1, <3>2, <3>3
  <2>6. TypeInv'
    BY <1>1, <1>2, <2>1, <2>2, <2>3, <2>5 DEF TypeInv
  <2>7. CopyInv'
    <3>1. CASE arg.curr = 0
      BY <2>5, <3>1 DEF CopyInv, IsCopy
    <3>2. CASE arg.curr # 0
      <4>1. At("reclaim")
        BY <1>6, <3>2 DEF NoArg
      <4>2. Len(Collected.records) \in 1 .. Len(Collected.records)
        BY <1>5, <4>1
      <4>3. QED
        BY <1>1, <1>5, <2>2, <2>5, <3>2, <4>1, <4>2 DEF CopyInv, IsCopy
    <3>3. QED
      BY <3>1, <3>2
  <2>8. Control'
    <3>1. CASE AtReclaim(prog) /\ arg.req \in Requests
      <4>1. AtReturn(prog')
        BY <1>1, <3>1 DEF AtReclaim
      <4>2. QED
        BY <2>4, <2>5, <3>1, <4>1 DEF Control, Call
    <3>2. CASE (Only(prog, "reclaim_os") \/ Only(prog, "reclaim_junk")) /\ arg = NoArg
      <4>1. prog' = <<>> /\ arg' = NoArg
        BY <1>1, <2>1, <3>2 DEF Only, NoArg
      <4>2. QED
        BY <2>4, <4>1 DEF Control
    <3>3. QED
      BY <1>6, <3>1, <3>2
  <2>9. JunkInv'
    BY <2>2 DEF JunkInv
  <2>10. QED
    BY <2>6, <2>7, <2>8, <2>9 DEF IInv
<1>8. CASE ~Collected.ok
  <2>1. UNCHANGED <<flash, offset, total, arg>>
    BY <1>8 DEF DoReclaim
  <2>2. At("reclaim") /\ AtReclaim(prog) /\ arg.req \in Requests
    BY <1>1, <1>6, <1>8 DEF Collected, Reclaim, Only, Op, Reclaiming, At, NoArg
  <2>3. Synced' /\ AtReturn(prog')
    BY <1>1, <1>3, <2>1, <2>2 DEF Synced, AtReclaim
  <2>4. Control'
    BY <2>1, <2>2, <2>3 DEF Control, Call
  <2>5. TypeInv'
    BY <1>1, <1>2, <2>1 DEF TypeInv
  <2>6. CopyInv'
    BY <1>1, <1>2, <1>3, <2>1 DEF CopyInv, IsCopy, Synced
  <2>7. JunkInv'
    BY <1>1, <1>2, <2>1, <2>2 DEF JunkInv, AtReclaim, Only, Op
  <2>8. QED
    BY <2>4, <2>5, <2>6, <2>7 DEF IInv
<1>9. QED
  BY <1>7, <1>8

LEMMA FtwErrorInv == IInv /\ FtwError => IInv'
<1> SUFFICES ASSUME IInv, FtwError PROVE IInv'
  OBVIOUS
<1>1. /\ Reclaiming /\ prog' = Tail(prog) /\ cache' = flash
      /\ offset' = End(flash.records) /\ total' = End(flash.records)
      /\ "ftw" \in scenario.kinds /\ faults < scenario.faults /\ faults' = faults + 1
      /\ UNCHANGED <<flash, os, arg, status, scenario>>
  BY DEF FtwError, Fault, Done
<1>2. TypeInv /\ CopyInv /\ JunkInv /\ Control
  BY DEF IInv
<1>3. Synced
  BY <1>1, <1>2, Places DEF Reclaiming
<1>4. flash \in Stores /\ flash.records \in Seq(Records) /\ End(flash.records) \in 0 .. Space
  BY <1>2, EndType, VarAssumption DEF TypeInv, Stores
<1>5. Synced'
  BY <1>1 DEF Synced
<1>6. faults \in Nat /\ scenario.faults \in Nat
  BY <1>2, VarAssumption DEF TypeInv
<1>7. TypeInv'
  BY <1>1, <1>2, <1>4, <1>6 DEF TypeInv
<1>8. CopyInv'
  BY <1>1, <1>2, <1>3 DEF CopyInv, IsCopy, Synced
<1>9. Control'
  <2>1. \/ AtReclaim(prog) /\ arg.req \in Requests
        \/ (Only(prog, "reclaim_os") \/ Only(prog, "reclaim_junk")) /\ arg = NoArg
    BY <1>1, <1>2, Places DEF Reclaiming
  <2>2. CASE AtReclaim(prog) /\ arg.req \in Requests
    BY <1>1, <1>5, <2>2 DEF AtReclaim, Control, Call
  <2>3. CASE (Only(prog, "reclaim_os") \/ Only(prog, "reclaim_junk")) /\ arg = NoArg
    BY <1>1, <1>5, <2>3 DEF Only, Control
  <2>4. QED
    BY <2>1, <2>2, <2>3
<1>10. JunkInv'
  BY <1>1, <1>2, <1>6 DEF JunkInv
<1>11. QED
  BY <1>7, <1>8, <1>9, <1>10 DEF IInv

LEMMA RefuseInv == IInv /\ Refuse => IInv'
<1> SUFFICES ASSUME IInv, Refuse PROVE IInv'
  OBVIOUS
<1>1. /\ At("not_found") \/ At("out_of_resources")
      /\ prog' = Tail(prog)
      /\ UNCHANGED <<flash, cache, offset, total, os, arg, faults, scenario>>
  BY DEF Refuse, Done
<1>2. TypeInv /\ CopyInv /\ JunkInv /\ Control
  BY DEF IInv
<1>3. (AtNotFound(prog) \/ AtRefused(prog)) /\ arg.req \in Requests /\ Synced
  BY <1>1, <1>2, Places
<1>4. AtReturn(prog') /\ Synced'
  BY <1>1, <1>3 DEF AtNotFound, AtRefused, Synced
<1>5. Control'
  BY <1>1, <1>3, <1>4 DEF Control, Call
<1>6. TypeInv' /\ CopyInv' /\ JunkInv'
  BY <1>1, <1>2, <1>3 DEF TypeInv, CopyInv, IsCopy, JunkInv, AtNotFound, AtRefused, Only, Op
<1>7. QED
  BY <1>5, <1>6 DEF IInv

LEMMA ReturnInv == IInv /\ Return => IInv'
<1> SUFFICES ASSUME IInv, Return PROVE IInv'
  OBVIOUS
<1>1. /\ At("return") /\ prog' = Tail(prog) /\ arg' = NoArg
      /\ UNCHANGED <<flash, cache, offset, total, os, status, faults, scenario>>
  BY DEF Return, Done
<1>2. TypeInv /\ CopyInv /\ JunkInv /\ Control
  BY DEF IInv
<1>3. AtReturn(prog) /\ Synced
  BY <1>1, <1>2, Places
<1>4. prog' = <<>> /\ Synced'
  BY <1>1, <1>3 DEF AtReturn, Only, Synced
<1>5. Control'
  BY <1>1, <1>4 DEF Control
<1>6. TypeInv' /\ CopyInv'
  BY <1>1, <1>2 DEF TypeInv, CopyInv, IsCopy, NoArg
<1>7. JunkInv'
  BY <1>1, <1>2, <1>3 DEF JunkInv, AtReturn, Only, Op
<1>8. QED
  BY <1>5, <1>6, <1>7 DEF IInv

\* A call of one step.
LEMMA OneStep ==
  ASSUME NEW op \in Ops
  PROVE  Only(<<op>>, op) /\ <<op>> # <<>>
BY DEF Only, Op

LEMMA StartInv == IInv /\ (ReclaimForOS \/ ExitBootServices \/ Reset) => IInv'
<1> SUFFICES ASSUME IInv, ReclaimForOS \/ ExitBootServices \/ Reset PROVE IInv'
  OBVIOUS
<1>1. /\ Idle /\ os' \in {"boot", "ready", "runtime"}
      /\ prog' \in {<<>>, <<"reclaim_os">>, <<"init_store">>}
      /\ UNCHANGED <<flash, cache, offset, total, arg, faults, scenario>>
  BY DEF ReclaimForOS, ExitBootServices, Reset, Idle
<1>2. TypeInv /\ CopyInv /\ JunkInv /\ Control
  BY DEF IInv
<1>3. arg = NoArg /\ Synced
  BY <1>1, <1>2, Places
<1>4. prog' = <<>> \/ Only(prog', "reclaim_os") \/ Only(prog', "init_store")
  BY <1>1, OneStep DEF Ops
<1>5. Control'
  BY <1>1, <1>3, <1>4 DEF Control, Synced
<1>6. TypeInv' /\ CopyInv'
  BY <1>1, <1>2 DEF TypeInv, CopyInv, IsCopy
<1>7. JunkInv'
  BY <1>1, <1>2 DEF JunkInv, Idle, Only, Op
<1>8. QED
  BY <1>5, <1>6, <1>7 DEF IInv

LEMMA InitStoreInv == IInv /\ InitStore => IInv'
<1> SUFFICES ASSUME IInv, InitStore PROVE IInv'
  OBVIOUS
<1>1. /\ At("init_store") /\ cache' = flash
      /\ offset' = End(flash.records) /\ total' = End(flash.records)
      /\ prog' = IF flash.junk THEN <<"reclaim_junk">> ELSE <<>>
      /\ UNCHANGED <<flash, os, arg, status, faults, scenario>>
  BY DEF InitStore
<1>2. TypeInv /\ JunkInv /\ Control
  BY DEF IInv
<1>3. arg = NoArg
  BY <1>1, <1>2, Places
<1>4. End(flash.records) \in 0 .. Space
  BY <1>2, EndType, VarAssumption DEF TypeInv, Stores
<1>5. Synced'
  BY <1>1 DEF Synced
<1>6. IF flash.junk THEN Only(prog', "reclaim_junk") ELSE prog' = <<>>
  BY <1>1, OneStep DEF Ops
<1>7. Control'
  BY <1>1, <1>3, <1>5, <1>6 DEF Control
<1>8. TypeInv' /\ CopyInv'
  BY <1>1, <1>2, <1>3, <1>4 DEF TypeInv, CopyInv, IsCopy, NoArg
<1>9. JunkInv'
  BY <1>1, <1>2, <1>6 DEF JunkInv
<1>10. QED
  BY <1>7, <1>8, <1>9 DEF IInv

LEMMA StateErrorInv == IInv /\ StateError => IInv'
<1> SUFFICES ASSUME IInv, StateError PROVE IInv'
  OBVIOUS
<1>1. /\ At("mark_old") \/ At("delete_indel") \/ At("delete_curr")
      /\ faults < scenario.faults /\ faults' = faults + 1 /\ prog' = <<"return">>
      /\ UNCHANGED <<flash, cache, offset, total, os, arg, scenario>>
  BY DEF StateError, Fault
<1>2. TypeInv /\ CopyInv /\ JunkInv /\ Control
  BY DEF IInv
<1>3. arg.req \in Requests /\ Synced
  BY <1>1, <1>2, Places
<1>4. AtReturn(prog')
  BY <1>1, ReturnPlanned
<1>5. Control'
  BY <1>1, <1>3, <1>4 DEF Control, Call, Synced
<1>6. faults \in Nat /\ scenario.faults \in Nat
  BY <1>2, VarAssumption DEF TypeInv
<1>7. TypeInv' /\ CopyInv'
  BY <1>1, <1>2, <1>6 DEF TypeInv, CopyInv, IsCopy
<1>8. JunkInv'
  BY <1>1, <1>2, <1>6 DEF JunkInv, At, Only, Op
<1>9. QED
  BY <1>5, <1>7, <1>8 DEF IInv

\* What a power failure leaves in flash is a store that fits, and is erased behind its
\* records unless a header was being written.
LEMMA CutOffStore ==
  ASSUME IInv, NEW f \in CutOff
  PROVE  f \in Stores /\ End(f.records) <= Space
<1>1. flash \in Stores /\ flash.records \in Seq(Records) /\ End(flash.records) <= Space
  BY DEF IInv, TypeInv, Stores
<1>2. CASE f = flash
  BY <1>1, <1>2
<1>3. CASE At("header")
  <2> DEFINE r == SetState(Record(arg.req), "none")
  <2>1. arg.req \in Requests /\ Synced /\ arg.req.val \in Values /\ Fits
    BY <1>3, Places DEF IInv
  <2>2. r \in Records /\ Length(r) = 1 /\ Size[arg.req.val] \in Nat
    BY <2>1, NewCopy DEF States
  <2>3. f \in {flash, [flash EXCEPT !.junk = TRUE], [flash EXCEPT !.records = Append(@, r)]}
    <3>1. ~Reclaiming
      BY <1>3 DEF Reclaiming, At
    <3>2. QED
      BY <1>3, <3>1 DEF CutOff
  <2> HIDE DEF r
  <2>4. CASE f = [flash EXCEPT !.junk = TRUE]
    BY <1>1, <2>4 DEF Stores
  <2>5. CASE f = [flash EXCEPT !.records = Append(@, r)]
    <3>1. Append(flash.records, r) \in Seq(Records)
      BY <1>1, <2>2
    <3>2. f = [records |-> Append(flash.records, r), junk |-> flash.junk]
      BY <1>1, <2>5 DEF Stores
    <3>3. End(f.records) = End(flash.records) + 1 /\ End(flash.records) \in Nat
      BY <1>1, <2>2, <3>2, EndAppend, EndType
    <3>4. End(f.records) <= Space
      BY <2>1, <2>2, <3>3, VarAssumption DEF Synced, Fits
    <3>5. flash.junk \in BOOLEAN
      BY <1>1 DEF Stores
    <3>6. QED
      BY <3>1, <3>2, <3>4, <3>5 DEF Stores
  <2>6. QED
    BY <1>2, <2>3, <2>4, <2>5
<1>4. CASE Reclaiming /\ Collected.ok /\ f = [records |-> Collected.records, junk |-> FALSE]
  BY <1>4, CollectedStore DEF Stores
<1>5. QED
  BY <1>2, <1>3, <1>4 DEF CutOff

LEMMA PowerFailureInv == IInv /\ PowerFailure => IInv'
<1> SUFFICES ASSUME IInv, PowerFailure PROVE IInv'
  OBVIOUS
<1>1. /\ "power" \in scenario.kinds /\ faults < scenario.faults /\ faults' = faults + 1
      /\ flash' \in CutOff /\ prog' = <<"init_store">> /\ arg' = NoArg /\ os' = "boot"
      /\ UNCHANGED <<cache, offset, total, scenario>>
  BY DEF PowerFailure, Fault
<1>2. TypeInv
  BY DEF IInv
<1>3. flash' \in Stores /\ End(flash'.records) <= Space
  BY <1>1, CutOffStore
<1>4. Only(prog', "init_store")
  BY <1>1, OneStep DEF Ops
<1>5. Control'
  BY <1>1, <1>4 DEF Control
<1>6. faults \in Nat /\ scenario.faults \in Nat
  BY <1>2, VarAssumption DEF TypeInv
<1>7. TypeInv' /\ CopyInv'
  BY <1>1, <1>2, <1>3, <1>6 DEF TypeInv, CopyInv, IsCopy, NoArg
<1>8. JunkInv'
  BY <1>1, <1>4, <1>6 DEF JunkInv
<1>9. QED
  BY <1>5, <1>7, <1>8 DEF IInv

\* Every step keeps the invariant.
LEMMA NextInv == IInv /\ [Next]_vars => IInv'
<1> SUFFICES ASSUME IInv, [Next]_vars PROVE IInv'
  OBVIOUS
<1>1. CASE \E k \in Keys, v \in Values \cup {NoValue} : SetVariable(k, v)
  BY <1>1, SetVariableInv
<1>2. CASE MarkOld \/ DeleteIndel \/ DeleteCurr
  BY <1>2, MarkInv
<1>3. CASE WriteHeader \/ WriteHeaderValid \/ WriteData \/ WriteAdded
  BY <1>3, WriteHeaderInv, WriteHeaderValidInv, WriteDataInv, WriteAddedInv
<1>4. CASE DoReclaim \/ FtwError
  BY <1>4, DoReclaimInv, FtwErrorInv
<1>5. CASE Refuse \/ Return
  BY <1>5, RefuseInv, ReturnInv
<1>6. CASE ReclaimForOS \/ ExitBootServices \/ Reset
  BY <1>6, StartInv
<1>7. CASE PowerFailure \/ InitStore \/ StateError
  BY <1>7, PowerFailureInv, InitStoreInv, StateErrorInv
<1>8. CASE UNCHANGED vars
  <2>1. UNCHANGED <<flash, cache, offset, total, os, prog, arg, faults, scenario>>
    BY <1>8 DEF vars
  <2>2. TypeInv' /\ CopyInv' /\ JunkInv'
    BY <2>1 DEF IInv, TypeInv, CopyInv, IsCopy, JunkInv
  <2>3. Control'
    BY <2>1 DEF IInv, Control, Call, Synced, Fits, Half
  <2>4. QED
    BY <2>2, <2>3 DEF IInv
<1>9. QED
  BY <1>1, <1>2, <1>3, <1>4, <1>5, <1>6, <1>7, <1>8 DEF Next

-----------------------------------------------------------------------------
\* At each place of a call, after any faults, flash holds what the cache mirrors, or that
\* and the new copy as far as it is written.
THEOREM Invariance == Spec => []IInv
<1>1. QED
  BY InitInv, NextInv, PTL DEF Spec

\* The records keep their shape, the copies a call works on are records of the store, and
\* the offset and the total of UpdateVariable and Reclaim never pass the end of the store.
THEOREM TypeCorrect == Spec => []VarTypeOK
<1>1. IInv => VarTypeOK
  <2> SUFFICES ASSUME IInv PROVE VarTypeOK
    OBVIOUS
  <2>1. TypeInv /\ CopyInv /\ Control
    BY DEF IInv
  <2>2. /\ flash.records \in Seq(Records) /\ cache.records \in Seq(Records)
        /\ flash.junk \in BOOLEAN /\ cache.junk \in BOOLEAN
    BY <2>1 DEF TypeInv, Stores
  <2>3. /\ \A i \in DOMAIN flash.records : flash.records[i] \in Records
        /\ \A i \in DOMAIN cache.records : cache.records[i] \in Records
    BY <2>2
  <2>4. \A store \in {flash, cache} :
          store.junk \in BOOLEAN /\ \A i \in DOMAIN store.records : store.records[i] \in Records
    BY <2>2, <2>3
  <2>5. arg = NoArg \/ Len(cache.records) <= Len(flash.records)
    <3>1. CASE Synced
      BY <2>2, <3>1 DEF Synced
    <3>2. ASSUME NEW s, Half(s) PROVE Len(cache.records) <= Len(flash.records)
      BY <2>2, <3>2 DEF Half
    <3>3. QED
      BY <2>1, <3>1, <3>2 DEF Control, Call
  <2>6. arg.curr \in 0 .. Len(flash.records) /\ arg.indel \in 0 .. Len(flash.records)
    <3>1. Len(flash.records) \in Nat /\ Len(cache.records) \in Nat
      BY <2>2
    <3>2. arg.curr \in Nat /\ arg.indel \in Nat
      BY <2>1 DEF TypeInv
    <3>3. QED
      BY <2>1, <2>5, <3>1, <3>2 DEF CopyInv, IsCopy, NoArg
  <2>7. QED
    BY <2>1, <2>4, <2>6 DEF VarTypeOK, TypeInv
<1>2. QED
  BY <1>1, Invariance, PTL

\* Between calls, after any number of power failures, device errors and failed fault
\* tolerant writes, mNvVariableCache has the records of the flash, and the offset and the
\* total are where a walk over them ends.
THEOREM CacheMirrors == Spec => []CacheInSync
<1>1. IInv => CacheInSync
  BY Places DEF IInv, CacheInSync, Synced
<1>2. QED
  BY <1>1, Invariance, PTL

\* UpdateVariable writes a header only over erased flash, if a power failure and a failure
\* of the fault tolerant write do not both happen: Reclaim at start-up reports no failure,
\* and what a power failure has left behind the records stays there.
THEOREM HeadersOverErased ==
  (\A s \in Scenarios : {"power", "ftw"} \subseteq s.kinds => s.faults <= 1)
    => (Spec => []WritesOverErased)
<1> SUFFICES ASSUME \A s \in Scenarios : {"power", "ftw"} \subseteq s.kinds => s.faults <= 1
             PROVE  Spec => []WritesOverErased
  OBVIOUS
<1>1. IInv => WritesOverErased
  <2> SUFFICES ASSUME IInv, At("header") PROVE offset = End(flash.records) /\ ~flash.junk
    BY DEF WritesOverErased
  <2>1. offset = End(flash.records)
    BY Places DEF IInv, Synced
  <2>2. scenario \in Scenarios /\ faults <= scenario.faults /\ faults \in Nat
        /\ scenario.faults \in Nat
    BY VarAssumption DEF IInv, TypeInv
  <2>3. ~Only(prog, "init_store") /\ ~Only(prog, "reclaim_junk")
    BY DEF At, Only, Op
  <2>4. ASSUME flash.junk PROVE FALSE
    <3>1. /\ faults >= 2 /\ "power" \in scenario.kinds /\ "ftw" \in scenario.kinds
      BY <2>3, <2>4 DEF IInv, JunkInv
    <3>2. scenario.faults <= 1
      BY <2>2, <3>1
    <3>3. QED
      BY <2>2, <3>1, <3>2
  <2>5. QED
    BY <2>1, <2>4
<1>2. QED
  BY <1>1, Invariance, PTL

-----------------------------------------------------------------------------
(***************************************************************************)
(* Proofs that the variable store implements a map with atomic updates     *)
(* (VarMap), as long as at most one fault has happened and no update was   *)
(* refused after it.                                                       *)
(*                                                                         *)
(* The invariant says, for each place of a call, which records of the      *)
(* name that is updated count (ADDED or in deletion): those FindVariableEx *)
(* has found and the new one.                                              *)
(***************************************************************************)

-----------------------------------------------------------------------------
(***************************************************************************)
(* Which records a reclaim keeps.                                          *)
(***************************************************************************)
LEMMA AppendEntry ==
  ASSUME NEW b \in Seq(Records), NEW e \in Records, NEW a, a = Append(b, e)
  PROVE  /\ a \in Seq(Records) /\ Len(b) \in Nat /\ Len(a) = Len(b) + 1
         /\ a[Len(b) + 1] = e /\ \A j \in 1 .. Len(b) : a[j] = b[j]
OBVIOUS

\* No two records that the first walk keeps have the same name.
KeptOnce(records, curr) ==
  \A i, j \in 1 .. Len(records) :
    /\ Keeps(records, curr, i) /\ Keeps(records, curr, j)
    /\ records[i].key = records[j].key
    => i = j

Distinct(b) == \A i, j \in 1 .. Len(b) : b[i].key = b[j].key => i = j

\* The buffer b after n records of the first walk.
AfterFirst(records, curr, n, b) ==
  /\ \A j \in 1 .. Len(b) : \E i \in 1 .. n : Keeps(records, curr, i) /\ b[j] = records[i]
  /\ \A i \in 1 .. n : Keeps(records, curr, i) => \E j \in 1 .. Len(b) : b[j] = records[i]
  /\ Distinct(b)

LEMMA FirstWalkStep ==
  ASSUME NEW records \in Seq(Records), NEW curr, KeptOnce(records, curr),
         NEW n \in Nat, n + 1 \in 1 .. Len(records), NEW b \in Seq(Records),
         AfterFirst(records, curr, n, b), NEW a,
         a = IF Keeps(records, curr, n + 1) THEN Append(b, records[n + 1]) ELSE b
  PROVE  AfterFirst(records, curr, n + 1, a)
<1>1. records[n + 1] \in Records /\ Len(records) \in Nat
  OBVIOUS
<1>2. CASE ~Keeps(records, curr, n + 1)
  <2>1. a = b
    BY <1>2
  <2>2. \A i \in 1 .. n + 1 : Keeps(records, curr, i) => i \in 1 .. n
    BY <1>2
  <2>3. QED
    BY <2>1, <2>2 DEF AfterFirst
<1>3. CASE Keeps(records, curr, n + 1)
  <2> DEFINE e == records[n + 1]
             l == Len(b)
  <2>1. /\ a \in Seq(Records) /\ l \in Nat /\ Len(a) = l + 1
        /\ a[l + 1] = e /\ \A j \in 1 .. l : a[j] = b[j]
    BY <1>1, <1>3, AppendEntry
  <2>2. ASSUME NEW j \in 1 .. Len(a)
        PROVE  \E i \in 1 .. n + 1 : Keeps(records, curr, i) /\ a[j] = records[i]
    <3>1. CASE j = l + 1
      BY <1>3, <2>1, <3>1
    <3>2. CASE j \in 1 .. l
      <4>1. PICK i \in 1 .. n : Keeps(records, curr, i) /\ b[j] = records[i]
        BY <3>2 DEF AfterFirst
      <4>2. QED
        BY <2>1, <3>2, <4>1
    <3>3. QED
      BY <2>1, <3>1, <3>2
  <2>3. ASSUME NEW i \in 1 .. n + 1, Keeps(records, curr, i)
        PROVE  \E j \in 1 .. Len(a) : a[j] = records[i]
    <3>1. CASE i = n + 1
      <4>1. l + 1 \in 1 .. Len(a)
        BY <2>1
      <4>2. QED
        BY <2>1, <3>1, <4>1
    <3>2. CASE i \in 1 .. n
      <4>1. PICK j \in 1 .. l : b[j] = records[i]
        BY <2>3, <3>2 DEF AfterFirst
      <4>2. j \in 1 .. Len(a) /\ a[j] = records[i]
        BY <2>1, <4>1
      <4>3. QED
        BY <4>2
    <3>3. QED
      BY <3>1, <3>2
  <2>4. ASSUME NEW j \in 1 .. l PROVE b[j].key # e.key
    <3>1. PICK i \in 1 .. n : Keeps(records, curr, i) /\ b[j] = records[i]
      BY DEF AfterFirst
    <3>2. i \in 1 .. Len(records) /\ i # n + 1
      BY <1>1, <3>1
    <3>3. QED
      BY <1>3, <3>1, <3>2 DEF KeptOnce
  <2>5. ASSUME NEW i \in 1 .. Len(a), NEW j \in 1 .. Len(a), a[i].key = a[j].key
        PROVE  i = j
    <3>1. CASE i \in 1 .. l /\ j \in 1 .. l
      BY <2>1, <2>5, <3>1 DEF AfterFirst, Distinct
    <3>2. CASE i = l + 1 /\ j \in 1 .. l
      BY <2>1, <2>4, <2>5, <3>2
    <3>3. CASE i \in 1 .. l /\ j = l + 1
      BY <2>1, <2>4, <2>5, <3>3
    <3>4. QED
      BY <2>1, <3>1, <3>2, <3>3
  <2>6. QED
    BY <2>2, <2>3, <2>5 DEF AfterFirst, Distinct
<1>4. QED
  BY <1>2, <1>3

\* The first walk keeps the ADDED records but curr, each once.
LEMMA AddedKeeps ==
  ASSUME NEW records \in Seq(Records), NEW curr, KeptOnce(records, curr)
  PROVE  /\ Added(records, curr) \in Seq(Records)
         /\ AfterFirst(records, curr, Len(records), Added(records, curr))
<1> DEFINE m == Len(records)
<1>1. PICK kept : FirstWalk(records, curr, kept) /\ Added(records, curr) = kept[m]
  BY AddedIsWalk
<1>2. m \in Nat
  OBVIOUS
<1>3. /\ \A n \in 0 .. m : kept[n] \in Seq(Records)
      /\ kept[0] = <<>>
      /\ \A n \in 1 .. m : kept[n] = IF Keeps(records, curr, n)
                                     THEN Append(kept[n - 1], records[n]) ELSE kept[n - 1]
  BY <1>1 DEF FirstWalk
<1> DEFINE S == {n \in 0 .. m : AfterFirst(records, curr, n, kept[n])}
<1>4. 0 \in S
  <2>1. AfterFirst(records, curr, 0, <<>>)
    BY DEF AfterFirst, Distinct
  <2>2. QED
    BY <1>2, <1>3, <2>1
<1>5. ASSUME NEW n \in 0 .. m - 1, n \in S PROVE n + 1 \in S
  <2>1. n \in Nat /\ n + 1 \in 1 .. m /\ (n + 1) - 1 = n /\ n \in 0 .. m /\ n + 1 \in 0 .. m
    BY <1>2
  <2>2. kept[n + 1] = IF Keeps(records, curr, n + 1) THEN Append(kept[n], records[n + 1])
                      ELSE kept[n]
    BY <1>3, <2>1
  <2>3. kept[n] \in Seq(Records) /\ AfterFirst(records, curr, n, kept[n])
    BY <1>3, <1>5, <2>1
  <2>4. AfterFirst(records, curr, n + 1, kept[n + 1])
    BY <2>1, <2>2, <2>3, FirstWalkStep
  <2>5. QED
    BY <2>1, <2>4
<1> HIDE DEF S
<1>6. \A n \in 0 .. m : n \in S
  BY <1>2, <1>4, <1>5, RangeInduction
<1>7. m \in S /\ kept[m] \in Seq(Records)
  BY <1>2, <1>3, <1>6
<1>8. QED
  BY <1>1, <1>7 DEF S

\* Record i is where entry e of the buffer comes from.
Source(records, curr, indel, i, e) ==
  /\ records[i].key = e.key /\ records[i].val = e.val
  /\ \/ Keeps(records, curr, i)
     \/ /\ records[i].state = "indel" /\ i \notin {curr, indel}
        /\ \A n \in 1 .. Len(records) : Keeps(records, curr, n) => records[n].key # e.key

\* The buffer b after n records of the second walk.
AfterSecond(records, curr, indel, n, b) ==
  /\ \A j \in 1 .. Len(b) : /\ b[j].state = "added"
                            /\ \E i \in 1 .. Len(records) : Source(records, curr, indel, i, b[j])
  /\ \A i \in 1 .. Len(records) :
       Keeps(records, curr, i) => \E j \in 1 .. Len(b) : b[j].key = records[i].key
  /\ \A i \in 1 .. n : records[i].state = "indel" /\ i \notin {curr, indel}
                       => \E j \in 1 .. Len(b) : b[j].key = records[i].key
  /\ Distinct(b)

LEMMA SecondWalkStep ==
  ASSUME NEW records \in Seq(Records), NEW curr, NEW indel,
         NEW n \in Nat, n + 1 \in 1 .. Len(records), NEW b \in Seq(Records),
         AfterSecond(records, curr, indel, n, b), NEW a,
         a = IF Takes(records, curr, indel, n + 1, b)
             THEN Append(b, SetState(records[n + 1], "added")) ELSE b
  PROVE  AfterSecond(records, curr, indel, n + 1, a)
<1>1. records[n + 1] \in Records /\ Len(records) \in Nat /\ DOMAIN b = 1 .. Len(b)
  OBVIOUS
<1>2. CASE ~Takes(records, curr, indel, n + 1, b)
  <2>1. a = b
    BY <1>2
  <2>2. records[n + 1].state = "indel" /\ n + 1 \notin {curr, indel}
        => \E j \in 1 .. Len(b) : b[j].key = records[n + 1].key
    BY <1>1, <1>2 DEF Takes
  <2>3. \A i \in 1 .. n + 1 : i = n + 1 \/ i \in 1 .. n
    OBVIOUS
  <2>4. QED
    BY <2>1, <2>2, <2>3 DEF AfterSecond
<1>3. CASE Takes(records, curr, indel, n + 1, b)
  <2> DEFINE e == SetState(records[n + 1], "added")
             l == Len(b)
  <2>1. e \in Records /\ e.key = records[n + 1].key /\ e.val = records[n + 1].val
        /\ e.state = "added"
    BY <1>1, SetStateType DEF States
  <2>2. a = Append(b, e)
    BY <1>3
  <2> HIDE DEF e
  <2>3. /\ a \in Seq(Records) /\ l \in Nat /\ Len(a) = l + 1
        /\ a[l + 1] = e /\ \A j \in 1 .. l : a[j] = b[j]
    BY <2>1, <2>2, AppendEntry
  <2>4. /\ records[n + 1].state = "indel" /\ n + 1 \notin {curr, indel}
        /\ \A j \in 1 .. l : b[j].key # e.key
    BY <1>1, <1>3, <2>1 DEF Takes
  <2>5. \A i \in 1 .. Len(records) : Keeps(records, curr, i) => records[i].key # e.key
    BY <2>4 DEF AfterSecond
  <2>6. Source(records, curr, indel, n + 1, e)
    BY <2>1, <2>4, <2>5 DEF Source
  <2>7. l + 1 \in 1 .. Len(a) /\ \A j \in 1 .. l : j \in 1 .. Len(a)
    BY <2>3
  <2>8. \A j \in 1 .. Len(a) : j = l + 1 \/ j \in 1 .. l
    BY <2>3
  <2>9. \A j \in 1 .. Len(a) : /\ a[j].state = "added"
                               /\ \E i \in 1 .. Len(records) : Source(records, curr, indel, i, a[j])
    BY <2>1, <2>3, <2>6, <2>8 DEF AfterSecond
  <2>10. \A i \in 1 .. Len(records) :
           Keeps(records, curr, i) => \E j \in 1 .. Len(a) : a[j].key = records[i].key
    BY <2>3, <2>7 DEF AfterSecond
  <2>11. ASSUME NEW i \in 1 .. n + 1, records[i].state = "indel", i \notin {curr, indel}
         PROVE  \E j \in 1 .. Len(a) : a[j].key = records[i].key
    <3>1. CASE i = n + 1
      BY <2>1, <2>3, <2>7, <3>1
    <3>2. CASE i \in 1 .. n
      BY <2>3, <2>7, <2>11, <3>2 DEF AfterSecond
    <3>3. QED
      BY <3>1, <3>2
  <2>12. ASSUME NEW i \in 1 .. Len(a), NEW j \in 1 .. Len(a), a[i].key = a[j].key
         PROVE  i = j
    <3>1. CASE i \in 1 .. l /\ j \in 1 .. l
      BY <2>3, <2>12, <3>1 DEF AfterSecond, Distinct
    <3>2. CASE i = l + 1 /\ j \in 1 .. l
      BY <2>3, <2>4, <2>12, <3>2
    <3>3. CASE i \in 1 .. l /\ j = l + 1
      BY <2>3, <2>4, <2>12, <3>3
    <3>4. QED
      BY <2>8, <3>1, <3>2, <3>3
  <2>13. QED
    BY <2>9, <2>10, <2>11, <2>12 DEF AfterSecond, Distinct
<1>4. QED
  BY <1>2, <1>3

\* The second walk: what the buffer of a reclaim holds.
LEMMA ValidKeeps ==
  ASSUME NEW records \in Seq(Records), NEW curr, NEW indel, KeptOnce(records, curr)
  PROVE  /\ ValidBuffer(records, curr, indel) \in Seq(Records)
         /\ AfterSecond(records, curr, indel, Len(records), ValidBuffer(records, curr, indel))
<1> DEFINE m == Len(records)
<1>1. PICK valid : /\ SecondWalk(records, curr, indel, valid)
                   /\ ValidBuffer(records, curr, indel) = valid[m]
  BY ValidIsWalk
<1>2. m \in Nat
  OBVIOUS
<1>3. /\ \A n \in 0 .. m : valid[n] \in Seq(Records)
      /\ valid[0] = Added(records, curr)
      /\ \A n \in 1 .. m : valid[n] = IF Takes(records, curr, indel, n, valid[n - 1])
                                      THEN Append(valid[n - 1], SetState(records[n], "added"))
                                      ELSE valid[n - 1]
  BY <1>1 DEF SecondWalk
<1> DEFINE S == {n \in 0 .. m : AfterSecond(records, curr, indel, n, valid[n])}
<1>4. 0 \in S
  <2> DEFINE b == Added(records, curr)
  <2>1. AfterFirst(records, curr, m, b)
    BY AddedKeeps
  <2> HIDE DEF b
  <2>2. AfterSecond(records, curr, indel, 0, b)
    <3>1. ASSUME NEW j \in 1 .. Len(b)
          PROVE  /\ b[j].state = "added"
                 /\ \E i \in 1 .. m : Source(records, curr, indel, i, b[j])
      <4>1. PICK i \in 1 .. m : Keeps(records, curr, i) /\ b[j] = records[i]
        BY <2>1 DEF AfterFirst
      <4>2. b[j].state = "added" /\ Source(records, curr, indel, i, b[j])
        BY <4>1 DEF Keeps, Source
      <4>3. QED
        BY <4>2
    <3>2. \A i \in 1 .. m :
            Keeps(records, curr, i) => \E j \in 1 .. Len(b) : b[j].key = records[i].key
      BY <2>1 DEF AfterFirst
    <3>3. QED
      BY <2>1, <3>1, <3>2 DEF AfterFirst, AfterSecond
  <2>3. QED
    BY <1>2, <1>3, <2>2 DEF b
<1>5. ASSUME NEW n \in 0 .. m - 1, n \in S PROVE n + 1 \in S
  <2>1. n \in Nat /\ n + 1 \in 1 .. m /\ (n + 1) - 1 = n /\ n \in 0 .. m /\ n + 1 \in 0 .. m
    BY <1>2
  <2>2. valid[n + 1] = IF Takes(records, curr, indel, n + 1, valid[n])
                       THEN Append(valid[n], SetState(records[n + 1], "added")) ELSE valid[n]
    BY <1>3, <2>1
  <2>3. valid[n] \in Seq(Records) /\ AfterSecond(records, curr, indel, n, valid[n])
    BY <1>3, <1>5, <2>1
  <2>4. AfterSecond(records, curr, indel, n + 1, valid[n + 1])
    BY <2>1, <2>2, <2>3, SecondWalkStep
  <2>5. QED
    BY <2>1, <2>4
<1> HIDE DEF S
<1>6. \A n \in 0 .. m : n \in S
  BY <1>2, <1>4, <1>5, RangeInduction
<1>7. m \in S /\ valid[m] \in Seq(Records)
  BY <1>2, <1>3, <1>6
<1>8. QED
  BY <1>1, <1>7 DEF S

-----------------------------------------------------------------------------
(***************************************************************************)
(* What GetVariable reads.                                                 *)
(***************************************************************************)
Single(S) == \A i, j \in S : i = j

\* At most one ADDED copy and at most one in deletion, which is before it.
Shape(records, k) ==
  /\ Single(In(records, k, "added")) /\ Single(In(records, k, "indel"))
  /\ \A i \in In(records, k, "indel"), j \in In(records, k, "added") : i < j

\* The ADDED copy, or the last copy in deletion.
LEMMA Reads ==
  ASSUME NEW R \in Seq(Records), NEW k
  PROVE  /\ \A i \in In(R, k, "added") :
              Single(In(R, k, "added")) => GetVariable(R, k) = R[i].val
         /\ In(R, k, "added") = {} => 
              \A i \in In(R, k, "indel") :
                (\A j \in In(R, k, "indel") : j <= i) => GetVariable(R, k) = R[i].val
         /\ Live(R, k) = {} => GetVariable(R, k) = NoValue
<1> DEFINE m == Len(R)
           A == In(R, k, "added")
           D == In(R, k, "indel")
           a == First(A)
           f == FindVariableEx(R, k)
<1>1. m \in Nat /\ A \subseteq 1 .. m /\ D \subseteq 1 .. m
  BY DEF In
<1>2. A # {} => f.curr = a
  <2>1. A # {} => a # 0
    <3> HIDE DEF A, m
    <3>1. QED
      BY <1>1, FirstFinal
  <2>2. QED
    BY <2>1 DEF FindVariableEx
<1>3. A = {} => f.curr = Final(D)
  BY DEF FindVariableEx, First
<1>4. GetVariable(R, k) = IF f.curr = 0 THEN NoValue ELSE R[f.curr].val
  BY DEF GetVariable
<1>5. Live(R, k) = A \cup D
  BY DEF Live
<1> HIDE DEF f, A, D, m
<1>6. A # {} => a \in A /\ a # 0
  BY <1>1, FirstFinal
<1>7. /\ D = {} => Final(D) = 0
      /\ D # {} => Final(D) \in D /\ Final(D) # 0 /\ \A i \in D : i <= Final(D)
  BY <1>1, FirstFinal
<1> HIDE DEF a
<1>8. ASSUME NEW i \in A, Single(A) PROVE GetVariable(R, k) = R[i].val
  BY <1>2, <1>4, <1>6, <1>8 DEF Single
<1>9. ASSUME A = {}, NEW i \in D, \A j \in D : j <= i PROVE GetVariable(R, k) = R[i].val
  <2>1. Final(D) \in D /\ Final(D) # 0 /\ Final(D) <= i /\ i <= Final(D)
    BY <1>7, <1>9
  <2>2. Final(D) \in Nat /\ i \in Nat
    <3>1. Final(D) \in 1 .. m /\ i \in 1 .. m
      BY <1>1, <2>1
    <3>2. QED
      BY <1>1, <3>1
  <2>3. Final(D) = i
    BY <2>1, <2>2
  <2>4. QED
    BY <1>3, <1>4, <1>9, <2>1, <2>3
<1>10. A \cup D = {} => GetVariable(R, k) = NoValue
  BY <1>3, <1>4, <1>7
<1>11. QED
  BY <1>5, <1>8, <1>9, <1>10 DEF A, D

\* Records that leave the copies of a name alone leave its value alone.
LEMMA SameReads ==
  ASSUME NEW R \in Seq(Records), NEW T \in Seq(Records), NEW k,
         In(T, k, "added") = In(R, k, "added"), In(T, k, "indel") = In(R, k, "indel"),
         \A i \in Live(R, k) : T[i].val = R[i].val
  PROVE  GetVariable(T, k) = GetVariable(R, k)
<1> DEFINE f == FindVariableEx(R, k)
<1>1. FindVariableEx(T, k) = f
  BY DEF FindVariableEx
<1> HIDE DEF f
<1>2. f.curr # 0 => f.curr \in Live(R, k)
  BY FoundCopies DEF f
<1>3. QED
  BY <1>1, <1>2 DEF GetVariable, f

\* T is R with the state s of record i.
Rewritten(R, i, s, T) ==
  /\ T \in Seq(Records) /\ Len(T) = Len(R)
  /\ \A n \in 1 .. Len(R) : T[n] = IF n = i THEN SetState(R[i], s) ELSE R[n]

\* The copies of T as those of R.
CopiesRewritten(R, i, s, T) ==
  /\ \A k, st : k # R[i].key => In(T, k, st) = In(R, k, st)
  /\ \A k, st : st # s => In(T, k, st) = In(R, k, st) \ {i}
  /\ In(T, R[i].key, s) = In(R, R[i].key, s) \cup {i}
  /\ \A n \in 1 .. Len(R) : T[n].val = R[n].val /\ T[n].key = R[n].key

\* The copies after a state byte was written.
LEMMA MarkedIn ==
  ASSUME NEW R \in Seq(Records), NEW i \in 1 .. Len(R), NEW s \in States,
         NEW T, Rewritten(R, i, s, T)
  PROVE  CopiesRewritten(R, i, s, T)
<1>1. DOMAIN T = 1 .. Len(R) /\ DOMAIN R = 1 .. Len(R) /\ R[i] \in Records
  BY DEF Rewritten
<1>2. SetState(R[i], s).key = R[i].key /\ SetState(R[i], s).val = R[i].val
      /\ SetState(R[i], s).state = s
  BY <1>1, SetStateType
<1>3. \A n \in 1 .. Len(R) : /\ T[n].val = R[n].val /\ T[n].key = R[n].key
                             /\ T[n].state = IF n = i THEN s ELSE R[n].state
  BY <1>2 DEF Rewritten
<1>4. \A k, st : In(T, k, st) = {n \in 1 .. Len(R) : T[n].key = k /\ T[n].state = st}
  BY <1>1 DEF In
<1>5. \A k, st : In(R, k, st) = {n \in 1 .. Len(R) : R[n].key = k /\ R[n].state = st}
  BY <1>1 DEF In
<1>6. ASSUME NEW k, NEW st, k # R[i].key PROVE In(T, k, st) = In(R, k, st)
  <2>1. In(T, k, st) = {n \in 1 .. Len(R) : T[n].key = k /\ T[n].state = st}
    BY <1>4
  <2>2. In(R, k, st) = {n \in 1 .. Len(R) : R[n].key = k /\ R[n].state = st}
    BY <1>5
  <2>3. \A n \in 1 .. Len(R) : T[n].key = k /\ T[n].state = st
                              <=> R[n].key = k /\ R[n].state = st
    BY <1>3, <1>6
  <2>4. QED
    BY <2>1, <2>2, <2>3
<1>7. ASSUME NEW k, NEW st, st # s PROVE In(T, k, st) = In(R, k, st) \ {i}
  BY <1>3, <1>4, <1>5, <1>7
<1>8. In(T, R[i].key, s) = In(R, R[i].key, s) \cup {i}
  BY <1>3, <1>4, <1>5
<1>9. QED
  BY <1>3, <1>6, <1>7, <1>8 DEF CopiesRewritten

Appended(T, R, e) == T = Append(R, e)

\* The copies of T as those of R and e.
CopiesAppended(T, R, e) ==
  /\ T \in Seq(Records) /\ Len(R) \in Nat /\ Len(T) = Len(R) + 1 /\ T[Len(R) + 1] = e
  /\ \A n \in 1 .. Len(R) : T[n] = R[n]
  /\ \A k, st : e.key # k \/ e.state # st => In(T, k, st) = In(R, k, st)
  /\ In(T, e.key, e.state) = In(R, e.key, e.state) \cup {Len(R) + 1}

\* The copies after a record was appended.
LEMMA AppendIn ==
  ASSUME NEW R \in Seq(Records), NEW e \in Records, NEW T, Appended(T, R, e)
  PROVE  CopiesAppended(T, R, e)
<1>1. /\ T \in Seq(Records) /\ Len(R) \in Nat /\ Len(T) = Len(R) + 1
      /\ T[Len(R) + 1] = e /\ \A j \in 1 .. Len(R) : T[j] = R[j]
  BY AppendEntry DEF Appended
<1>2. DOMAIN T = 1 .. Len(R) + 1 /\ DOMAIN R = 1 .. Len(R)
  BY <1>1
<1>3. \A k, st : In(T, k, st) = {n \in 1 .. Len(R) + 1 : T[n].key = k /\ T[n].state = st}
  BY <1>2 DEF In
<1>4. \A k, st : In(R, k, st) = {n \in 1 .. Len(R) : R[n].key = k /\ R[n].state = st}
  BY <1>2 DEF In
<1>5. ASSUME NEW n \in 1 .. Len(R) + 1 PROVE n = Len(R) + 1 \/ n \in 1 .. Len(R)
  BY <1>1
<1>6. ASSUME NEW k, NEW st, e.key # k \/ e.state # st PROVE In(T, k, st) = In(R, k, st)
  <2>1. In(T, k, st) = {n \in 1 .. Len(R) + 1 : T[n].key = k /\ T[n].state = st}
    BY <1>3
  <2>2. In(R, k, st) = {n \in 1 .. Len(R) : R[n].key = k /\ R[n].state = st}
    BY <1>4
  <2>3. ~(T[Len(R) + 1].key = k /\ T[Len(R) + 1].state = st)
    BY <1>1, <1>6
  <2>4. \A n \in 1 .. Len(R) : n \in 1 .. Len(R) + 1 /\ T[n] = R[n]
    BY <1>1
  <2>5. QED
    BY <1>5, <2>1, <2>2, <2>3, <2>4
<1>7. In(T, e.key, e.state) = In(R, e.key, e.state) \cup {Len(R) + 1}
  BY <1>1, <1>3, <1>4, <1>5
<1>8. QED
  BY <1>1, <1>6, <1>7 DEF CopiesAppended

\* A name reads the same after a reclaim that was not about its copies, and has no copy
\* when all of them were left out.
LEMMA BufferMap ==
  ASSUME NEW R \in Seq(Records), NEW c, NEW d, KeptOnce(R, c),
         NEW b, b = ValidBuffer(R, c, d), NEW k
  PROVE  /\ b \in Seq(Records)
         /\ In(b, k, "indel") = {} /\ Single(In(b, k, "added"))
         /\ Shape(R, k) /\ c \notin Live(R, k) /\ d \notin Live(R, k)
              => GetVariable(b, k) = GetVariable(R, k)
         /\ In(R, k, "added") = {} /\ In(R, k, "indel") \subseteq {c, d} => Live(b, k) = {}
<1> DEFINE m == Len(R)
<1>1. b \in Seq(Records) /\ AfterSecond(R, c, d, m, b)
  BY ValidKeeps
<1>2. DOMAIN R = 1 .. m /\ DOMAIN b = 1 .. Len(b) /\ m \in Nat
  BY <1>1
<1>3. \A st : In(R, k, st) = {n \in 1 .. m : R[n].key = k /\ R[n].state = st}
  BY <1>2 DEF In
<1>4. \A st : In(b, k, st) = {n \in 1 .. Len(b) : b[n].key = k /\ b[n].state = st}
  BY <1>2 DEF In
<1> HIDE DEF m
<1>5. In(b, k, "indel") = {}
  BY <1>1, <1>4 DEF AfterSecond
<1>6. In(b, k, "added") = {n \in 1 .. Len(b) : b[n].key = k}
  <2>1. \A n \in 1 .. Len(b) : b[n].state = "added"
    BY <1>1 DEF AfterSecond
  <2>2. In(b, k, "added") = {n \in 1 .. Len(b) : b[n].key = k /\ b[n].state = "added"}
    BY <1>4
  <2>3. QED
    BY <2>1, <2>2
<1>7. Single(In(b, k, "added"))
  <2>1. \A i, j \in 1 .. Len(b) : b[i].key = b[j].key => i = j
    BY <1>1 DEF AfterSecond, Distinct
  <2>2. QED
    BY <1>6, <2>1 DEF Single
<1>8. ASSUME NEW j \in In(b, k, "added")
      PROVE  \E i \in Live(R, k) : /\ R[i].val = b[j].val
                                   /\ \/ i \in In(R, k, "added") /\ i # c
                                      \/ /\ i \in In(R, k, "indel") /\ i \notin {c, d}
                                         /\ \A n \in In(R, k, "added") : n = c
  <2>1. j \in 1 .. Len(b) /\ b[j].key = k
    BY <1>6
  <2>2. PICK i \in 1 .. m : Source(R, c, d, i, b[j])
    BY <1>1, <2>1 DEF AfterSecond, m
  <2>3. R[i].key = k /\ R[i].val = b[j].val
    BY <2>1, <2>2 DEF Source
  <2>4. CASE Keeps(R, c, i)
    BY <1>3, <2>2, <2>3, <2>4 DEF Keeps, Live
  <2>5. CASE /\ R[i].state = "indel" /\ i \notin {c, d}
             /\ \A n \in 1 .. m : Keeps(R, c, n) => R[n].key # k
    BY <1>3, <2>2, <2>3, <2>5 DEF Keeps, Live
  <2>6. QED
    BY <2>1, <2>2, <2>4, <2>5 DEF Source, m
<1>9. ASSUME NEW i \in Live(R, k), i \notin {c, d} PROVE In(b, k, "added") # {}
  <2>1. i \in 1 .. m /\ R[i].key = k /\ R[i].state \in {"added", "indel"}
    BY <1>3 DEF Live
  <2>2. \E j \in 1 .. Len(b) : b[j].key = R[i].key
    BY <1>1, <1>9, <2>1 DEF AfterSecond, Keeps, m
  <2>3. QED
    BY <1>6, <2>1, <2>2
<1>10. ASSUME Shape(R, k), c \notin Live(R, k), d \notin Live(R, k)
       PROVE  GetVariable(b, k) = GetVariable(R, k)
  <2>1. CASE Live(R, k) = {}
    <3>1. In(b, k, "added") = {}
      BY <1>8, <2>1
    <3>2. Live(b, k) = {}
      BY <1>5, <3>1 DEF Live
    <3>3. QED
      BY <1>1, <2>1, <3>2, Reads
  <2>2. CASE Live(R, k) # {}
    <3>1. PICK j \in In(b, k, "added") : TRUE
      BY <1>9, <1>10, <2>2
    <3>2. GetVariable(b, k) = b[j].val
      BY <1>1, <1>7, Reads
    <3>3. PICK i \in Live(R, k) : /\ R[i].val = b[j].val
                                  /\ \/ i \in In(R, k, "added") /\ i # c
                                     \/ /\ i \in In(R, k, "indel") /\ i \notin {c, d}
                                        /\ \A n \in In(R, k, "added") : n = c
      BY <1>8
    <3>4. CASE i \in In(R, k, "added")
      <4>1. GetVariable(R, k) = R[i].val
        BY <1>10, <3>4, Reads DEF Shape
      <4>2. QED
        BY <3>2, <3>3, <4>1
    <3>5. CASE i \in In(R, k, "indel") /\ \A n \in In(R, k, "added") : n = c
      <4>1. In(R, k, "added") = {}
        BY <1>10, <3>5 DEF Live
      <4>2. \A n \in In(R, k, "indel") : n <= i
        <5>1. i \in Nat
          BY <1>2, <1>3, <3>5
        <5>2. QED
          BY <1>10, <3>5, <5>1 DEF Shape, Single
      <4>3. GetVariable(R, k) = R[i].val
        BY <3>5, <4>1, <4>2, Reads
      <4>4. QED
        BY <3>2, <3>3, <4>3
    <3>6. QED
      BY <3>3, <3>4, <3>5
  <2>3. QED
    BY <2>1, <2>2
<1>11. ASSUME In(R, k, "added") = {}, In(R, k, "indel") \subseteq {c, d}
       PROVE  Live(b, k) = {}
  BY <1>5, <1>8, <1>11 DEF Live
<1>12. QED
  BY <1>1, <1>5, <1>7, <1>10, <1>11

-----------------------------------------------------------------------------
(***************************************************************************)
(* The invariant.                                                          *)
(***************************************************************************)

\* At most one fault so far, and no update that is refused after it for lack of room, by the
\* test of the reserve at run time or by Reclaim.
Calm ==
  /\ faults <= 1
  /\ faults = 1 => ~At("out_of_resources") /\ (At("reclaim") => Collected.ok)

Contents(records) == [k \in Keys |-> GetVariable(records, k)]

\* A name that no call is about.  Both an ADDED copy and one in deletion mean a fault.
Settled(k) ==
  /\ Shape(flash.records, k)
  /\ faults = 0 => In(flash.records, k, "added") = {} \/ In(flash.records, k, "indel") = {}

\* The copies c and d that FindVariableEx has found are all that count.
Pair(records, k, c, d) ==
  /\ Live(records, k) = {c, d} \ {0}
  /\ d # 0 => d < c /\ d \in In(records, k, "indel")

\* The new copy of request r is ADDED, with the copies old in deletion before it.
Replaced(records, r, old) ==
  \E t \in DOMAIN records :
    /\ In(records, r.key, "added") = {t} /\ In(records, r.key, "indel") = old
    /\ records[t].val = r.val /\ \A i \in old : i < t

\* Two copies were found only after a fault.
Before == arg.indel # 0 => faults >= 1 /\ arg.indel < arg.curr

Found == Pair(flash.records, arg.req.key, arg.curr, arg.indel) /\ Before

\* Between the mark of the old copy and the new copy.
Writing == \/ At("header") \/ At("header_valid") \/ At("data") \/ At("added")
           \/ At("reclaim") \/ At("out_of_resources")

PlaceInv ==
  /\ At("mark_old") => Found
  /\ Writing => Found /\ In(flash.records, arg.req.key, "added") = {}
  /\ At("delete_indel") => /\ Before
                           /\ IF arg.req.val = NoValue
                              THEN Pair(flash.records, arg.req.key, arg.curr, arg.indel)
                              ELSE Replaced(flash.records, arg.req, {arg.curr, arg.indel})
  /\ At("delete_curr") => IF arg.req.val = NoValue
                          THEN Live(flash.records, arg.req.key) = {arg.curr}
                          ELSE Replaced(flash.records, arg.req, {arg.curr})
  /\ At("return") \/ At("not_found") => Settled(arg.req.key)

MapInv ==
  /\ \A k \in Keys : arg.req = NoRequest \/ k # arg.req.key => Settled(k)
  /\ arg.req # NoRequest => PlaceInv

\* A step of VarMap, or none.
Keep   == Contents(flash'.records) = Contents(flash.records)
Update == Contents(flash'.records) =
            [Contents(flash.records) EXCEPT ![arg.req.key] = arg.req.val]
MapStep ==
  \/ Keep /\ arg'.req = arg.req
  \/ Keep /\ arg.req = NoRequest /\ arg'.req \in Requests
  \/ Update /\ arg.req # NoRequest /\ arg'.req = arg.req
  \/ (Keep \/ Update) /\ arg.req # NoRequest /\ arg'.req = NoRequest

-----------------------------------------------------------------------------
(***************************************************************************)
(* Consequences.                                                           *)
(***************************************************************************)

\* Where a call is.
LEMMA Somewhere ==
  ASSUME IInv
  PROVE  /\ arg.req = NoRequest =>
              /\ arg = NoArg
              /\ Idle \/ At("init_store") \/ At("reclaim_os") \/ At("reclaim_junk")
         /\ arg.req # NoRequest =>
              /\ arg.req \in Requests /\ arg.req.key \in Keys
              /\ \/ At("mark_old") \/ Writing \/ At("delete_indel") \/ At("delete_curr")
                 \/ At("return") \/ At("not_found")
<1>1. Control /\ NoRequest \notin Requests
  BY VarAssumption DEF IInv, Requests
<1>2. CASE prog = <<>> /\ arg = NoArg
  BY <1>2 DEF NoArg, Idle
<1>3. CASE Only(prog, "init_store") /\ arg = NoArg
  BY <1>3 DEF NoArg, Only, Op, At, Idle
<1>4. CASE (Only(prog, "reclaim_os") \/ Only(prog, "reclaim_junk")) /\ arg = NoArg
  BY <1>4 DEF NoArg, Only, Op, At, Idle
<1>5. CASE arg.req \in Requests /\ Call
  <2>1. arg.req # NoRequest /\ arg.req.key \in Keys
    BY <1>1, <1>5 DEF Requests
  <2>2. \/ At("mark_old") \/ Writing \/ At("delete_indel") \/ At("delete_curr")
        \/ At("return") \/ At("not_found")
    BY <1>5 DEF Call, Writing, At, Idle, Op, Only, AtReturn, AtNotFound, AtRefused,
                AtDeleteCurr, AtDeleteIndel, AtMark, AtHeader, AtHeaderValid, AtData, AtAdded,
                AtReclaim
  <2>3. QED
    BY <1>5, <2>1, <2>2
<1>6. QED
  BY <1>1, <1>2, <1>3, <1>4, <1>5 DEF Control

\* ADDED copies and copies in deletion are records of the store, and not the same.
LEMMA InDisjoint ==
  ASSUME NEW R \in Seq(Records), NEW k
  PROVE  /\ In(R, k, "added") \cap In(R, k, "indel") = {}
         /\ Live(R, k) \subseteq 1 .. Len(R) /\ Len(R) \in Nat
         /\ \A i \in Live(R, k) : R[i].key = k
         /\ In(R, k, "added") \subseteq Live(R, k) /\ In(R, k, "indel") \subseteq Live(R, k)
         /\ Live(R, k) = In(R, k, "added") \cup In(R, k, "indel")
BY DEF In, Live

\* The value of a name with the copies c and d.
LEMMA PairReads ==
  ASSUME NEW R \in Seq(Records), NEW k, NEW c, NEW d, c # 0, Pair(R, k, c, d)
  PROVE  GetVariable(R, k) = R[c].val
<1> DEFINE A == In(R, k, "added")
           D == In(R, k, "indel")
<1>1. /\ A \cap D = {} /\ A \cup D = {c, d} \ {0} /\ A \cup D \subseteq 1 .. Len(R)
      /\ d # 0 => d < c /\ d \in D
  BY InDisjoint DEF Pair
<1>2. c \in A \/ c \in D
  BY <1>1
<1>3. c \in 1 .. Len(R) /\ Len(R) \in Nat
  BY <1>1, <1>2
<1>4. CASE c \in A
  <2>1. Single(A)
    BY <1>1, <1>4 DEF Single
  <2>2. QED
    BY <1>4, <2>1, Reads
<1>5. CASE c \in D
  <2>1. A = {}
    BY <1>1, <1>5
  <2>2. \A j \in D : j <= c
    BY <1>1, <1>3
  <2>3. QED
    BY <1>5, <2>1, <2>2, Reads
<1>6. QED
  BY <1>2, <1>4, <1>5

LEMMA ReplacedReads ==
  ASSUME NEW R \in Seq(Records), NEW r, NEW old, Replaced(R, r, old)
  PROVE  GetVariable(R, r.key) = r.val
<1>1. PICK t \in DOMAIN R : In(R, r.key, "added") = {t} /\ R[t].val = r.val
  BY DEF Replaced
<1>2. t \in In(R, r.key, "added") /\ Single(In(R, r.key, "added"))
  BY <1>1 DEF Single
<1>3. QED
  BY <1>1, <1>2, Reads

\* FindVariableEx finds all copies of a name that no call is about.
LEMMA FoundPair ==
  ASSUME NEW R \in Seq(Records), NEW k, Shape(R, k), NEW f, f = FindVariableEx(R, k)
  PROVE  Pair(R, k, f.curr, f.indel)
<1> DEFINE A == In(R, k, "added")
           D == In(R, k, "indel")
           a == First(A)
           B == {i \in D : i < a}
<1>1. /\ A \subseteq 1 .. Len(R) /\ D \subseteq 1 .. Len(R) /\ Len(R) \in Nat
      /\ Live(R, k) = A \cup D
  BY InDisjoint
<1>2. f = IF a = 0 THEN [curr |-> Final(D), indel |-> 0] ELSE [curr |-> a, indel |-> Final(B)]
  BY DEF FindVariableEx
<1>3. Single(A) /\ Single(D) /\ \A i \in D, j \in A : i < j
  BY DEF Shape
<1> HIDE DEF A, D
<1>4. /\ A = {} => a = 0
      /\ A # {} => a \in A /\ a # 0
  BY <1>1, FirstFinal
<1>5. /\ D = {} => Final(D) = 0
      /\ D # {} => Final(D) \in D /\ Final(D) # 0
  BY <1>1, FirstFinal
<1> HIDE DEF a
<1>6. CASE A = {}
  <2>1. f.curr = Final(D) /\ f.indel = 0
    BY <1>2, <1>4, <1>6
  <2>2. D = {f.curr} \ {0}
    BY <1>3, <1>5, <2>1 DEF Single
  <2>3. QED
    BY <1>1, <1>6, <2>1, <2>2 DEF Pair
<1>7. CASE A # {}
  <2>1. a \in A /\ a # 0 /\ A = {a}
    BY <1>3, <1>4, <1>7 DEF Single
  <2>2. B = D
    BY <1>3, <2>1
  <2>3. f.curr = a /\ f.indel = Final(D)
    <3>1. f = [curr |-> a, indel |-> Final(B)]
      BY <1>2, <2>1
    <3> HIDE DEF B
    <3>2. QED
      BY <2>2, <3>1
  <2>4. D = {f.indel} \ {0}
    BY <1>3, <1>5, <2>3 DEF Single
  <2>5. f.indel # 0 => f.indel < f.curr /\ f.indel \in D
    BY <1>3, <2>1, <2>3, <2>4
  <2>6. Live(R, k) = {f.curr, f.indel} \ {0}
    BY <1>1, <2>1, <2>3, <2>4
  <2>7. QED
    BY <2>5, <2>6 DEF Pair, D
<1>8. QED
  BY <1>6, <1>7

\* No name has two ADDED copies at any place of a call.
LEMMA SingleAdded ==
  ASSUME IInv, MapInv, NEW k \in Keys
  PROVE  Single(In(flash.records, k, "added"))
<1> DEFINE R == flash.records
<1>1. R \in Seq(Records)
  BY DEF IInv, TypeInv, Stores
<1>2. CASE arg.req = NoRequest \/ k # arg.req.key
  BY <1>2 DEF MapInv, Settled, Shape
<1>3. CASE arg.req # NoRequest /\ k = arg.req.key
  <2>1. PlaceInv
    BY <1>3 DEF MapInv
  <2>2. \/ At("mark_old") \/ Writing \/ At("delete_indel") \/ At("delete_curr")
        \/ At("return") \/ At("not_found")
    BY <1>3, Somewhere
  <2>3. ASSUME NEW c, NEW d, Pair(R, k, c, d) PROVE Single(In(R, k, "added"))
    <3>1. /\ In(R, k, "added") \cap In(R, k, "indel") = {}
          /\ In(R, k, "added") \subseteq Live(R, k)
      BY <1>1, InDisjoint
    <3>2. QED
      BY <2>3, <3>1 DEF Pair, Single
  <2>4. ASSUME NEW c, Live(R, k) = {c} PROVE Single(In(R, k, "added"))
    BY <2>4 DEF Live, Single
  <2>5. ASSUME NEW old, Replaced(R, arg.req, old) PROVE Single(In(R, k, "added"))
    BY <1>3, <2>5 DEF Replaced, Single
  <2>6. CASE At("mark_old") \/ Writing
    BY <1>3, <2>1, <2>3, <2>6 DEF PlaceInv, Found
  <2>7. CASE At("delete_indel")
    BY <1>3, <2>1, <2>3, <2>5, <2>7 DEF PlaceInv
  <2>8. CASE At("delete_curr")
    BY <1>3, <2>1, <2>4, <2>5, <2>8 DEF PlaceInv
  <2>9. CASE At("return") \/ At("not_found")
    BY <1>3, <2>1, <2>9 DEF PlaceInv, Settled, Shape
  <2>10. QED
    BY <2>2, <2>6, <2>7, <2>8, <2>9
<1>4. QED
  BY <1>2, <1>3

\* A first fault finds the copies of each name in order.
LEMMA FaultShape ==
  ASSUME IInv, MapInv, faults = 0, NEW k \in Keys
  PROVE  Shape(flash.records, k)
<1> DEFINE R == flash.records
<1>1. R \in Seq(Records)
  BY DEF IInv, TypeInv, Stores
<1>2. CASE arg.req = NoRequest \/ k # arg.req.key
  BY <1>2 DEF MapInv, Settled
<1>3. CASE arg.req # NoRequest /\ k = arg.req.key
  <2>1. PlaceInv
    BY <1>3 DEF MapInv
  <2>2. \/ At("mark_old") \/ Writing \/ At("delete_indel") \/ At("delete_curr")
        \/ At("return") \/ At("not_found")
    BY <1>3, Somewhere
  <2>3. ASSUME NEW c, Live(R, k) \subseteq {c} PROVE Shape(R, k)
    <3>1. /\ In(R, k, "added") \cap In(R, k, "indel") = {}
          /\ In(R, k, "added") \subseteq Live(R, k) /\ In(R, k, "indel") \subseteq Live(R, k)
      BY <1>1, InDisjoint
    <3>2. QED
      BY <2>3, <3>1 DEF Shape, Single
  <2>4. ASSUME NEW c, Replaced(R, arg.req, {c}) PROVE Shape(R, k)
    BY <1>3, <2>4 DEF Replaced, Shape, Single
  <2>5. Before => arg.indel = 0
    BY DEF Before
  <2>6. CASE At("mark_old") \/ Writing
    <3>1. Live(R, k) \subseteq {arg.curr}
      BY <1>3, <2>1, <2>5, <2>6 DEF PlaceInv, Found, Pair
    <3>2. QED
      BY <2>3, <3>1
  <2>7. CASE At("delete_indel")
    <3>1. arg.indel # 0
      BY <2>7, Places DEF IInv
    <3>2. QED
      BY <2>1, <2>5, <2>7, <3>1 DEF PlaceInv
  <2>8. CASE At("delete_curr")
    BY <1>3, <2>1, <2>3, <2>4, <2>8 DEF PlaceInv
  <2>9. CASE At("return") \/ At("not_found")
    BY <1>3, <2>1, <2>9 DEF PlaceInv, Settled
  <2>10. QED
    BY <2>2, <2>6, <2>7, <2>8, <2>9
<1>4. QED
  BY <1>2, <1>3

-----------------------------------------------------------------------------
(***************************************************************************)
(* Steps that leave the records in flash alone.                            *)
(***************************************************************************)
LEMMA SameRecords ==
  ASSUME flash'.records = flash.records
  PROVE  /\ Keep
         /\ \A k : Shape(flash.records, k) => Shape(flash'.records, k)
         /\ faults' = faults => \A k : Settled(k) => Settled(k)'
         /\ faults' # 0 => \A k : Shape(flash.records, k) => Settled(k)'
BY DEF Keep, Settled

LEMMA SetVariableMap ==
  ASSUME IInv, MapInv, NEW k \in Keys, NEW v \in Values \cup {NoValue}, SetVariable(k, v)
  PROVE  MapInv' /\ MapStep
<1> DEFINE f   == FindVariableEx(cache.records, k)
           old == GetVariable(cache.records, k)
<1>1. Idle /\ arg = NoArg /\ Synced
  BY Places DEF IInv, SetVariable
<1>2. /\ prog' = UpdateVariable(f, old, v) \o <<"return">>
      /\ arg' = [req |-> [key |-> k, val |-> v], curr |-> f.curr, indel |-> f.indel]
      /\ UNCHANGED <<flash, faults>>
  BY DEF SetVariable
<1>3. cache.records = flash.records /\ flash.records \in Seq(Records)
  BY <1>1 DEF IInv, TypeInv, Stores, Synced
<1>4. \A n \in Keys : Settled(n)
  BY <1>1 DEF MapInv, NoArg
<1>5. Pair(flash.records, k, f.curr, f.indel)
  BY <1>3, <1>4, FoundPair DEF Settled
<1>6. /\ f.curr \in Nat /\ f.indel \in Nat /\ (f.indel # 0 => f.curr # 0)
      /\ f.curr # 0 => f.curr \in Live(flash.records, k)
      /\ f.indel # 0 => /\ f.curr \in In(flash.records, k, "added")
                        /\ f.indel \in In(flash.records, k, "indel")
  <2>1. /\ f.curr \in 0 .. Len(flash.records) /\ f.indel \in 0 .. Len(flash.records)
        /\ f.curr # 0 => f.curr \in Live(flash.records, k)
        /\ f.indel # 0 => /\ f.curr \in In(flash.records, k, "added")
                          /\ f.indel \in In(flash.records, k, "indel")
                          /\ f.indel < f.curr
    <3> HIDE DEF f
    <3>1. f = FindVariableEx(flash.records, k)
      BY <1>3 DEF f
    <3>2. QED
      BY <1>3, <3>1, FoundCopies
  <2> HIDE DEF f
  <2>2. Len(flash.records) \in Nat
    BY <1>3
  <2>3. QED
    BY <2>1, <2>2
<1> HIDE DEF f, old
<1>7. arg'.curr = f.curr /\ arg'.indel = f.indel /\ arg'.req = [key |-> k, val |-> v]
      /\ arg'.req \in Requests /\ arg'.req.key = k /\ arg'.req.val = v
  BY <1>2 DEF Requests
<1>8. Plans(prog', arg', old, v)
  <2>1. Plans(prog', f, old, v)
    BY <1>2, <1>6, UpdatePlanned
  <2>2. QED
    BY <1>7, <2>1, SameCopies DEF Plans
<1>9. (\A n \in Keys : Settled(n)') /\ Keep
  BY <1>2, <1>4, SameRecords
<1>10. Found'
  <2>1. f.indel # 0 => faults >= 1 /\ f.indel < f.curr
    <3>1. SUFFICES ASSUME f.indel # 0 PROVE faults >= 1 /\ f.indel < f.curr
      OBVIOUS
    <3>2. faults # 0
      BY <1>4, <1>6, <3>1 DEF Settled
    <3>3. faults \in Nat
      BY DEF IInv, TypeInv
    <3>4. QED
      BY <1>5, <3>1, <3>2, <3>3 DEF Pair
  <2>2. Pair(flash'.records, arg'.req.key, arg'.curr, arg'.indel)
    BY <1>2, <1>5, <1>7
  <2>3. QED
    BY <1>2, <1>7, <2>1, <2>2 DEF Found, Before
<1>11. PlaceInv'
  <2>1. CASE AtNotFound(prog') \/ AtReturn(prog')
    BY <1>7, <1>9, <2>1 DEF PlaceInv, Writing, At, AtNotFound, AtReturn, Only, Op
  <2>2. CASE v = NoValue /\ arg'.curr # 0 /\ AtDeletes(prog', arg')
    <3>1. CASE arg'.indel # 0
      <4>1. At("delete_indel")' /\ Head(prog') = "delete_indel"
        BY <2>2, <3>1 DEF AtDeletes, AtDeleteIndel, Op, At, Idle
      <4>2. QED
        BY <1>7, <1>10, <2>2, <4>1 DEF PlaceInv, Writing, At, Found
    <3>2. CASE arg'.indel = 0
      <4>1. At("delete_curr")' /\ Head(prog') = "delete_curr"
        BY <2>2, <3>2 DEF AtDeletes, AtDeleteCurr, Op, At, Idle
      <4>2. Live(flash'.records, arg'.req.key) = {arg'.curr}
        BY <1>10, <2>2, <3>2 DEF Found, Pair
      <4>3. QED
        BY <1>7, <2>2, <4>1, <4>2 DEF PlaceInv, Writing, At
    <3>3. QED
      BY <3>1, <3>2
  <2>3. CASE AtMark(prog', arg')
    BY <1>10, <2>3 DEF PlaceInv, Writing, At, AtMark, Op
  <2>4. CASE arg'.curr = 0 /\ AtNew(prog', arg')
    <3>1. In(flash'.records, arg'.req.key, "added") = {}
      <4>1. f.curr = 0 /\ f.indel = 0
        BY <1>6, <1>7, <2>4
      <4>2. Live(flash.records, k) = {}
        BY <1>5, <4>1 DEF Pair
      <4>3. QED
        BY <1>2, <1>7, <4>2 DEF Live
    <3>2. Head(prog') \in {"header", "out_of_resources", "reclaim"}
      BY <2>4 DEF AtNew, AtHeader, AtRefused, AtReclaim, Op
    <3>3. QED
      BY <1>10, <3>1, <3>2 DEF PlaceInv, At
  <2>5. QED
    BY <1>8, <2>1, <2>2, <2>3, <2>4 DEF Plans
<1>12. MapInv'
  BY <1>9, <1>11 DEF MapInv
<1>13. MapStep
  BY <1>1, <1>7, <1>9 DEF MapStep, NoArg
<1>14. QED
  BY <1>12, <1>13

LEMMA WriteDataMap == IInv /\ MapInv /\ WriteData => MapInv' /\ MapStep
<1> SUFFICES ASSUME IInv, MapInv, WriteData PROVE MapInv' /\ MapStep
  OBVIOUS
<1>1. At("data") /\ prog' = Tail(prog) /\ UNCHANGED <<flash, arg, faults>>
  BY DEF WriteData, Done
<1>2. AtData(prog, arg) /\ arg.req \in Requests
  BY <1>1, Places DEF IInv
<1>3. arg.req # NoRequest
  BY <1>2, VarAssumption DEF Requests
<1>4. Head(prog') = "added"
  BY <1>1, <1>2 DEF AtData, AtAdded, Op
<1>5. Found /\ In(flash.records, arg.req.key, "added") = {}
  BY <1>1, <1>3 DEF MapInv, PlaceInv, Writing
<1>6. PlaceInv'
  BY <1>1, <1>4, <1>5 DEF PlaceInv, At, Found, Before
<1>7. Keep /\ \A k \in Keys : arg.req = NoRequest \/ k # arg.req.key => Settled(k)'
  BY <1>1, SameRecords DEF MapInv
<1>8. QED
  BY <1>1, <1>6, <1>7 DEF MapInv, MapStep

LEMMA RefuseMap == IInv /\ MapInv /\ Calm /\ Refuse => MapInv' /\ MapStep
<1> SUFFICES ASSUME IInv, MapInv, Calm, Refuse PROVE MapInv' /\ MapStep
  OBVIOUS
<1>1. /\ At("not_found") \/ At("out_of_resources")
      /\ prog' = Tail(prog) /\ UNCHANGED <<flash, arg, faults>>
  BY DEF Refuse, Done
<1>2. (AtNotFound(prog) \/ AtRefused(prog)) /\ arg.req \in Requests
  BY <1>1, Places DEF IInv
<1>3. arg.req # NoRequest /\ arg.req.key \in Keys
  BY <1>2, VarAssumption DEF Requests
<1>4. Head(prog') = "return"
  BY <1>1, <1>2 DEF AtNotFound, AtRefused, AtReturn, Only, Op
<1>5. Settled(arg.req.key)
  <2>1. CASE At("not_found")
    BY <1>3, <2>1 DEF MapInv, PlaceInv
  <2>2. CASE At("out_of_resources")
    <3>1. faults = 0
      BY <2>2 DEF Calm, IInv, TypeInv
    <3>2. In(flash.records, arg.req.key, "added") = {}
      BY <1>3, <2>2 DEF MapInv, PlaceInv, Writing
    <3>3. QED
      BY <1>3, <3>1, <3>2, FaultShape DEF Settled
  <2>3. QED
    BY <1>1, <2>1, <2>2
<1>6. /\ Keep /\ Settled(arg.req.key)'
      /\ \A k \in Keys : arg.req = NoRequest \/ k # arg.req.key => Settled(k)'
  BY <1>1, <1>5, SameRecords DEF MapInv
<1>7. PlaceInv'
  BY <1>1, <1>4, <1>6 DEF PlaceInv, At, Writing, Settled
<1>8. QED
  BY <1>1, <1>6, <1>7 DEF MapInv, MapStep

LEMMA ReturnMap == IInv /\ MapInv /\ Return => MapInv' /\ MapStep
<1> SUFFICES ASSUME IInv, MapInv, Return PROVE MapInv' /\ MapStep
  OBVIOUS
<1>1. At("return") /\ arg' = NoArg /\ UNCHANGED <<flash, faults>>
  BY DEF Return
<1>2. arg.req \in Requests
  BY <1>1, Places DEF IInv
<1>3. arg.req # NoRequest
  BY <1>2, VarAssumption DEF Requests
<1>4. \A k \in Keys : Settled(k)
  BY <1>1, <1>3 DEF MapInv, PlaceInv
<1>5. Keep /\ \A k \in Keys : Settled(k)'
  BY <1>1, <1>4, SameRecords
<1>6. QED
  BY <1>1, <1>3, <1>5 DEF MapInv, MapStep, NoArg

LEMMA StartMap ==
  IInv /\ MapInv /\ (ReclaimForOS \/ ExitBootServices \/ Reset \/ InitStore) => MapInv' /\ MapStep
<1> SUFFICES ASSUME IInv, MapInv, ReclaimForOS \/ ExitBootServices \/ Reset \/ InitStore
             PROVE  MapInv' /\ MapStep
  OBVIOUS
<1>1. (Idle \/ At("init_store")) /\ UNCHANGED <<flash, arg, faults>>
  BY DEF ReclaimForOS, ExitBootServices, Reset, InitStore
<1>2. arg.req = NoRequest
  BY <1>1, Places DEF IInv, NoArg
<1>3. Keep /\ \A k \in Keys : Settled(k)'
  BY <1>1, <1>2, SameRecords DEF MapInv
<1>4. QED
  BY <1>1, <1>2, <1>3 DEF MapInv, MapStep

\* Device errors and failures of the fault tolerant write.
LEMMA ErrorMap ==
  IInv /\ MapInv /\ Calm' /\ (StateError \/ FtwError) => MapInv' /\ MapStep
<1> SUFFICES ASSUME IInv, MapInv, Calm', StateError \/ FtwError PROVE MapInv' /\ MapStep
  OBVIOUS
<1>1. UNCHANGED <<flash, arg>> /\ faults' = faults + 1
  BY DEF StateError, FtwError, Fault
<1>2. faults = 0 /\ faults' = 1
  BY <1>1 DEF Calm, IInv, TypeInv
<1>3. Keep /\ \A k \in Keys : Settled(k)'
  BY <1>1, <1>2, FaultShape, SameRecords
<1>4. arg.req # NoRequest => Head(prog') = "return" /\ arg.req.key \in Keys
  <2>1. SUFFICES ASSUME arg.req # NoRequest
                 PROVE  Head(prog') = "return" /\ arg.req.key \in Keys
    OBVIOUS
  <2>2. CASE StateError
    BY <2>1, <2>2, Somewhere DEF StateError
  <2>3. CASE FtwError
    <3>1. Reclaiming /\ prog' = Tail(prog)
      BY <2>3 DEF FtwError, Done
    <3>2. AtReclaim(prog)
      BY <2>1, <3>1, Places DEF IInv, Reclaiming, NoArg
    <3>3. QED
      BY <2>1, <3>1, <3>2, Somewhere DEF AtReclaim, AtReturn, Only, Op
  <2>4. QED
    BY <2>2, <2>3
<1>5. arg.req # NoRequest => PlaceInv'
  BY <1>1, <1>3, <1>4 DEF PlaceInv, At, Writing, Settled
<1>6. QED
  BY <1>1, <1>3, <1>5 DEF MapInv, MapStep

-----------------------------------------------------------------------------
(***************************************************************************)
(* Steps that write to the copies of the request's name.                   *)
(***************************************************************************)

\* The other names read as before.
Others ==
  \A k \in Keys : k # arg.req.key =>
    Settled(k)' /\ GetVariable(flash'.records, k) = GetVariable(flash.records, k)

LEMMA OthersStep ==
  ASSUME Others, arg.req.key \in Keys
  PROVE  /\ GetVariable(flash'.records, arg.req.key) = GetVariable(flash.records, arg.req.key)
              => Keep
         /\ GetVariable(flash'.records, arg.req.key) = arg.req.val => Update
<1> DEFINE q == arg.req.key
           R == flash.records
           T == flash'.records
<1>1. \A k \in Keys : k # q => GetVariable(T, k) = GetVariable(R, k)
  BY DEF Others
<1>2. ASSUME GetVariable(T, q) = GetVariable(R, q) PROVE Keep
  BY <1>1, <1>2 DEF Keep, Contents
<1>3. ASSUME GetVariable(T, q) = arg.req.val PROVE Update
  BY <1>1, <1>3 DEF Update, Contents
<1>4. QED
  BY <1>2, <1>3

\* A name whose copies are where they were is settled as before.
LEMMA OtherSettled ==
  ASSUME NEW k, Settled(k), faults' = faults, flash.records \in Seq(Records),
         flash'.records \in Seq(Records),
         In(flash'.records, k, "added") = In(flash.records, k, "added"),
         In(flash'.records, k, "indel") = In(flash.records, k, "indel"),
         \A i \in 1 .. Len(flash.records) : flash'.records[i].val = flash.records[i].val
  PROVE  /\ Settled(k)'
         /\ GetVariable(flash'.records, k) = GetVariable(flash.records, k)
<1>1. Settled(k)'
  BY DEF Settled, Shape
<1>2. Live(flash.records, k) \subseteq 1 .. Len(flash.records)
  BY InDisjoint
<1>3. GetVariable(flash'.records, k) = GetVariable(flash.records, k)
  BY <1>2, SameReads
<1>4. QED
  BY <1>1, <1>3

\* A state byte of a copy of the request's name.
LEMMA StateByte ==
  ASSUME IInv, MapInv, arg.req # NoRequest, NEW i, i \in Live(flash.records, arg.req.key),
         NEW s \in {"indel", "deleted"}, flash' = Marked(flash, i, s), faults' = faults
  PROVE  /\ flash.records \in Seq(Records) /\ flash'.records \in Seq(Records)
         /\ Len(flash'.records) = Len(flash.records) /\ i \in 1 .. Len(flash.records)
         /\ \A st : st # s => In(flash'.records, arg.req.key, st)
                                = In(flash.records, arg.req.key, st) \ {i}
         /\ In(flash'.records, arg.req.key, s) = In(flash.records, arg.req.key, s) \cup {i}
         /\ \A n \in 1 .. Len(flash.records) : flash'.records[n].val = flash.records[n].val
         /\ Others
<1> DEFINE q == arg.req.key
           R == flash.records
           T == flash'.records
<1>1. flash \in Stores /\ R \in Seq(Records)
  BY DEF IInv, TypeInv, Stores
<1>2. i \in 1 .. Len(R) /\ R[i].key = q
  BY <1>1, InDisjoint
<1>3. s \in States
  BY DEF States
<1>5. /\ flash' \in Stores /\ Len(T) = Len(R)
      /\ \A n \in 1 .. Len(R) : T[n] = IF n = i THEN SetState(R[i], s) ELSE R[n]
  BY <1>1, <1>2, <1>3, StateWritten
<1>6. T \in Seq(Records)
  BY <1>5 DEF Stores
<1>7. /\ \A k, st : k # R[i].key => In(T, k, st) = In(R, k, st)
      /\ \A k, st : st # s => In(T, k, st) = In(R, k, st) \ {i}
      /\ In(T, R[i].key, s) = In(R, R[i].key, s) \cup {i}
      /\ \A n \in 1 .. Len(R) : T[n].val = R[n].val /\ T[n].key = R[n].key
  <2>1. Rewritten(R, i, s, T)
    BY <1>5, <1>6 DEF Rewritten
  <2> HIDE DEF R, T
  <2>2. CopiesRewritten(R, i, s, T)
    BY <1>1, <1>2, <1>3, <2>1, MarkedIn
  <2>3. QED
    BY <2>2 DEF CopiesRewritten
<1>8. Others
  <2>1. SUFFICES ASSUME NEW k \in Keys, k # q
                 PROVE  Settled(k)' /\ GetVariable(T, k) = GetVariable(R, k)
    BY DEF Others
  <2>2. Settled(k)
    BY <2>1 DEF MapInv
  <2>3. In(T, k, "added") = In(R, k, "added") /\ In(T, k, "indel") = In(R, k, "indel")
    BY <1>2, <1>7, <2>1
  <2>4. QED
    BY <1>1, <1>6, <1>7, <2>2, <2>3, OtherSettled
<1>9. QED
  BY <1>1, <1>2, <1>5, <1>6, <1>7, <1>8

LEMMA MarkOldMap == IInv /\ MapInv /\ MarkOld => MapInv' /\ MapStep
<1> SUFFICES ASSUME IInv, MapInv, MarkOld PROVE MapInv' /\ MapStep
  OBVIOUS
<1> DEFINE q == arg.req.key
           R == flash.records
           T == flash'.records
           c == arg.curr
           d == arg.indel
<1>1. /\ At("mark_old") /\ prog' = Tail(prog) /\ UNCHANGED <<arg, faults>>
      /\ flash' = Marked(flash, c, "indel")
  BY DEF MarkOld, WriteState, Done, Marked
<1>2. AtMark(prog, arg) /\ arg.req \in Requests
  BY <1>1, Places DEF IInv
<1>3. arg.req # NoRequest /\ q \in Keys /\ c # 0
  BY <1>2, VarAssumption DEF Requests, AtMark
<1>4. Pair(R, q, c, d) /\ Before
  BY <1>1, <1>3 DEF MapInv, PlaceInv, Found
<1>5. c \in Live(R, q) /\ (d # 0 => d \in In(R, q, "indel") /\ d < c)
  BY <1>3, <1>4 DEF Pair
<1>6. /\ R \in Seq(Records) /\ T \in Seq(Records) /\ Len(T) = Len(R) /\ c \in 1 .. Len(R)
      /\ In(T, q, "added") = In(R, q, "added") \ {c}
      /\ In(T, q, "indel") = In(R, q, "indel") \cup {c}
      /\ \A n \in 1 .. Len(R) : T[n].val = R[n].val
      /\ Others
  BY <1>1, <1>3, <1>5, StateByte
<1>7. /\ In(R, q, "added") \cap In(R, q, "indel") = {}
      /\ Live(R, q) = In(R, q, "added") \cup In(R, q, "indel")
      /\ Live(T, q) = In(T, q, "added") \cup In(T, q, "indel")
  BY <1>6, InDisjoint
<1>8. Live(R, q) = {c, d} \ {0}
  BY <1>4 DEF Pair
<1>9. In(T, q, "added") = {}
  BY <1>5, <1>6, <1>7, <1>8
<1>10. Live(T, q) = {c, d} \ {0} /\ (d # 0 => d \in In(T, q, "indel"))
  BY <1>5, <1>6, <1>7, <1>8
<1>11. Pair(T, q, c, d)
  BY <1>5, <1>10 DEF Pair
<1>12. Keep
  <2>1. GetVariable(R, q) = R[c].val
    BY <1>3, <1>4, <1>6, PairReads
  <2>2. GetVariable(T, q) = T[c].val
    BY <1>3, <1>6, <1>11, PairReads
  <2>3. QED
    BY <1>3, <1>6, <2>1, <2>2, OthersStep
<1>13. Head(prog') \in {"header", "out_of_resources", "reclaim"}
  BY <1>1, <1>2 DEF AtMark, AtNew, AtHeader, AtRefused, AtReclaim, Op
<1>14. Found'
  BY <1>1, <1>4, <1>11 DEF Found, Before
<1>15. PlaceInv'
  BY <1>1, <1>9, <1>13, <1>14 DEF PlaceInv, At
<1>16. QED
  BY <1>1, <1>3, <1>6, <1>12, <1>15 DEF MapInv, MapStep, Others

\* An old copy of a name is deleted: the new one stays.
LEMMA ReplacedLess ==
  ASSUME NEW R \in Seq(Records), NEW T \in Seq(Records), NEW r, NEW old, NEW i, i \in old,
         Replaced(R, r, old), Len(T) = Len(R),
         In(T, r.key, "added") = In(R, r.key, "added") \ {i},
         In(T, r.key, "indel") = In(R, r.key, "indel") \ {i},
         \A n \in 1 .. Len(R) : T[n].val = R[n].val
  PROVE  Replaced(T, r, old \ {i})
<1>1. PICK t \in DOMAIN R : /\ In(R, r.key, "added") = {t} /\ In(R, r.key, "indel") = old
                            /\ R[t].val = r.val /\ \A j \in old : j < t
  BY DEF Replaced
<1>2. In(R, r.key, "added") \cap In(R, r.key, "indel") = {}
  BY InDisjoint
<1>3. t # i /\ t \in DOMAIN T /\ t \in 1 .. Len(R)
  BY <1>1, <1>2
<1>4. In(T, r.key, "added") = {t} /\ In(T, r.key, "indel") = old \ {i}
  BY <1>1, <1>3
<1>5. T[t].val = r.val /\ \A j \in old \ {i} : j < t
  BY <1>1, <1>3
<1>6. QED
  BY <1>3, <1>4, <1>5 DEF Replaced

LEMMA DeleteIndelMap == IInv /\ MapInv /\ DeleteIndel => MapInv' /\ MapStep
<1> SUFFICES ASSUME IInv, MapInv, DeleteIndel PROVE MapInv' /\ MapStep
  OBVIOUS
<1> DEFINE q == arg.req.key
           R == flash.records
           T == flash'.records
           c == arg.curr
           d == arg.indel
<1>1. /\ At("delete_indel") /\ prog' = Tail(prog) /\ UNCHANGED <<arg, faults>>
      /\ flash' = Marked(flash, d, "deleted")
  BY DEF DeleteIndel, WriteState, Done, Marked
<1>2. AtDeleteIndel(prog) /\ arg.req \in Requests /\ d # 0
  BY <1>1, Places DEF IInv
<1>3. arg.req # NoRequest /\ q \in Keys /\ c # 0 /\ c \in Nat /\ d \in Nat
  BY <1>2, VarAssumption DEF Requests, IInv, CopyInv, TypeInv
<1>4. /\ Before
      /\ IF arg.req.val = NoValue THEN Pair(R, q, c, d) ELSE Replaced(R, arg.req, {c, d})
  BY <1>1, <1>3 DEF MapInv, PlaceInv
<1>5. d < c /\ c # d
  BY <1>2, <1>3, <1>4 DEF Before
<1>6. R \in Seq(Records)
  BY DEF IInv, TypeInv, Stores
<1>7. d \in Live(R, q)
  <2>1. CASE arg.req.val = NoValue
    BY <1>2, <1>4, <2>1 DEF Pair
  <2>2. CASE arg.req.val # NoValue
    <3>1. d \in In(R, q, "indel")
      BY <1>4, <2>2 DEF Replaced
    <3>2. QED
      BY <3>1 DEF Live
  <2>3. QED
    BY <2>1, <2>2
<1>8. /\ T \in Seq(Records) /\ Len(T) = Len(R)
      /\ In(T, q, "added") = In(R, q, "added") \ {d}
      /\ In(T, q, "indel") = In(R, q, "indel") \ {d}
      /\ \A n \in 1 .. Len(R) : T[n].val = R[n].val
      /\ Others
  BY <1>1, <1>3, <1>7, StateByte
<1>9. Head(prog') = "delete_curr"
  BY <1>1, <1>2 DEF AtDeleteIndel, AtDeleteCurr, Op
<1>10. CASE arg.req.val = NoValue
  <2>1. Live(R, q) = {c, d}
    BY <1>2, <1>3, <1>4, <1>10 DEF Pair
  <2>2. Live(T, q) = Live(R, q) \ {d}
    BY <1>8 DEF Live
  <2>3. Live(T, q) = {c}
    BY <1>5, <2>1, <2>2
  <2>4. Pair(T, q, c, 0)
    BY <1>3, <2>3 DEF Pair
  <2>5. GetVariable(R, q) = R[c].val
    BY <1>3, <1>4, <1>6, <1>10, PairReads
  <2>6. GetVariable(T, q) = T[c].val
    BY <1>3, <1>8, <2>4, PairReads
  <2>7. c \in 1 .. Len(R)
    BY <1>6, <2>1, InDisjoint
  <2>8. Keep
    BY <1>3, <1>8, <2>5, <2>6, <2>7, OthersStep
  <2>9. PlaceInv'
    BY <1>1, <1>9, <1>10, <2>3 DEF PlaceInv, At, Writing
  <2>10. QED
    BY <1>1, <1>3, <1>8, <2>8, <2>9 DEF MapInv, MapStep, Others
<1>11. CASE arg.req.val # NoValue
  <2>1. Replaced(T, arg.req, {c, d} \ {d})
    BY <1>4, <1>6, <1>8, <1>11, ReplacedLess
  <2>2. {c, d} \ {d} = {c}
    BY <1>5
  <2>3. Replaced(T, arg.req, {c})
    BY <2>1, <2>2
  <2>4. GetVariable(R, q) = arg.req.val /\ GetVariable(T, q) = arg.req.val
    BY <1>4, <1>6, <1>8, <1>11, <2>3, ReplacedReads
  <2>5. Keep
    BY <1>3, <1>8, <2>4, OthersStep
  <2>6. PlaceInv'
    BY <1>1, <1>9, <1>11, <2>3 DEF PlaceInv, At, Writing
  <2>7. QED
    BY <1>1, <1>3, <1>8, <2>5, <2>6 DEF MapInv, MapStep, Others
<1>12. QED
  BY <1>10, <1>11

LEMMA DeleteCurrMap == IInv /\ MapInv /\ DeleteCurr => MapInv' /\ MapStep
<1> SUFFICES ASSUME IInv, MapInv, DeleteCurr PROVE MapInv' /\ MapStep
  OBVIOUS
<1> DEFINE q == arg.req.key
           R == flash.records
           T == flash'.records
           c == arg.curr
<1>1. /\ At("delete_curr") /\ prog' = Tail(prog) /\ UNCHANGED <<arg, faults>>
      /\ flash' = Marked(flash, c, "deleted")
  BY DEF DeleteCurr, WriteState, Done, Marked
<1>2. AtDeleteCurr(prog) /\ arg.req \in Requests
  BY <1>1, Places DEF IInv
<1>3. arg.req # NoRequest /\ q \in Keys
  BY <1>2, VarAssumption DEF Requests
<1>4. IF arg.req.val = NoValue THEN Live(R, q) = {c} ELSE Replaced(R, arg.req, {c})
  BY <1>1, <1>3 DEF MapInv, PlaceInv
<1>5. R \in Seq(Records)
  BY DEF IInv, TypeInv, Stores
<1>6. c \in Live(R, q)
  <2>1. CASE arg.req.val = NoValue
    BY <1>4, <2>1
  <2>2. CASE arg.req.val # NoValue
    <3>1. c \in In(R, q, "indel")
      BY <1>4, <2>2 DEF Replaced
    <3>2. QED
      BY <3>1 DEF Live
  <2>3. QED
    BY <2>1, <2>2
<1>7. /\ T \in Seq(Records) /\ Len(T) = Len(R)
      /\ In(T, q, "added") = In(R, q, "added") \ {c}
      /\ In(T, q, "indel") = In(R, q, "indel") \ {c}
      /\ \A n \in 1 .. Len(R) : T[n].val = R[n].val
      /\ Others
  BY <1>1, <1>3, <1>6, StateByte
<1>8. Head(prog') = "return"
  BY <1>1, <1>2 DEF AtDeleteCurr, AtReturn, Only, Op
<1>9. ASSUME Settled(q)', Keep \/ Update PROVE MapInv' /\ MapStep
  <2>1. PlaceInv'
    BY <1>1, <1>8, <1>9 DEF PlaceInv, At, Writing, Settled
  <2>2. QED
    BY <1>1, <1>3, <1>7, <1>9, <2>1 DEF MapInv, MapStep, Others
<1>10. CASE arg.req.val = NoValue
  <2>1. Live(T, q) = Live(R, q) \ {c}
    BY <1>7 DEF Live
  <2>2. Live(T, q) = {}
    BY <1>4, <1>10, <2>1
  <2>3. Update
    BY <1>3, <1>7, <1>10, <2>2, Reads, OthersStep
  <2>4. In(T, q, "added") = {} /\ In(T, q, "indel") = {}
    BY <2>2 DEF Live
  <2>5. Settled(q)'
    BY <1>1, <2>4 DEF Settled, Shape, Single
  <2>6. QED
    BY <1>9, <2>3, <2>5
<1>11. CASE arg.req.val # NoValue
  <2>1. Replaced(T, arg.req, {c} \ {c})
    BY <1>4, <1>5, <1>7, <1>11, ReplacedLess
  <2>2. GetVariable(R, q) = arg.req.val /\ GetVariable(T, q) = arg.req.val
    BY <1>4, <1>5, <1>7, <1>11, <2>1, ReplacedReads
  <2>3. Keep
    BY <1>3, <1>7, <2>2, OthersStep
  <2>4. Single(In(T, q, "added")) /\ In(T, q, "indel") = {}
    BY <2>1 DEF Replaced, Single
  <2>5. Settled(q)'
    BY <1>1, <2>4 DEF Settled, Shape, Single
  <2>6. QED
    BY <1>9, <2>3, <2>5
<1>12. QED
  BY <1>10, <1>11

\* The first writes of a new copy, which count for nobody.
LEMMA UnreadStep ==
  ASSUME IInv, MapInv, Writing, arg.req # NoRequest, UNCHANGED <<arg, faults>>,
         Head(prog') \in {"header_valid", "data"}, flash'.records \in Seq(Records),
         \A k : /\ In(flash'.records, k, "added") = In(flash.records, k, "added")
                /\ In(flash'.records, k, "indel") = In(flash.records, k, "indel"),
         \A i \in 1 .. Len(flash.records) : flash'.records[i].val = flash.records[i].val
  PROVE  MapInv' /\ MapStep
<1> DEFINE q == arg.req.key
           R == flash.records
           T == flash'.records
<1>1. R \in Seq(Records)
  BY DEF IInv, TypeInv, Stores
<1>2. ASSUME NEW k PROVE GetVariable(T, k) = GetVariable(R, k)
  <2>1. Live(R, k) \subseteq 1 .. Len(R)
    BY <1>1, InDisjoint
  <2>2. In(T, k, "added") = In(R, k, "added") /\ In(T, k, "indel") = In(R, k, "indel")
    OBVIOUS
  <2>3. QED
    BY <1>1, <2>1, <2>2, SameReads
<1>3. Keep
  BY <1>2 DEF Keep, Contents
<1>4. Found /\ In(R, q, "added") = {}
  BY DEF MapInv, PlaceInv
<1>5. Pair(T, q, arg.curr, arg.indel)
  <2>1. In(T, q, "added") = In(R, q, "added") /\ In(T, q, "indel") = In(R, q, "indel")
    OBVIOUS
  <2>2. QED
    BY <1>4, <2>1 DEF Found, Pair, Live
<1>6. Found' /\ In(T, q, "added") = {}
  BY <1>4, <1>5 DEF Found, Before
<1>7. PlaceInv'
  BY <1>6 DEF PlaceInv, At
<1>8. ASSUME NEW k \in Keys, k # q PROVE Settled(k)'
  <2>1. Settled(k)
    BY <1>8 DEF MapInv
  <2>2. In(T, k, "added") = In(R, k, "added") /\ In(T, k, "indel") = In(R, k, "indel")
    OBVIOUS
  <2>3. QED
    BY <1>1, <2>1, <2>2, OtherSettled
<1>9. QED
  BY <1>3, <1>7, <1>8 DEF MapInv, MapStep

LEMMA WriteHeaderMap == IInv /\ MapInv /\ WriteHeader => MapInv' /\ MapStep
<1> SUFFICES ASSUME IInv, MapInv, WriteHeader PROVE MapInv' /\ MapStep
  OBVIOUS
<1> DEFINE e == SetState(Record(arg.req), "none")
           R == flash.records
           T == flash'.records
<1>1. /\ At("header") /\ prog' = Tail(prog) /\ UNCHANGED <<arg, faults>>
      /\ flash' = [flash EXCEPT !.records = Append(@, e)]
  BY DEF WriteHeader, Done
<1>2. AtHeader(prog, arg) /\ arg.req \in Requests /\ arg.req.val \in Values
  BY <1>1, Places DEF IInv
<1>3. arg.req # NoRequest
  BY <1>2, VarAssumption DEF Requests
<1>4. e \in Records /\ e.state = "none"
  BY <1>2, NewCopy DEF States
<1> HIDE DEF e
<1>5. R \in Seq(Records) /\ Appended(T, R, e)
  BY <1>1 DEF IInv, TypeInv, Stores, Appended
<1>6. /\ T \in Seq(Records)
      /\ \A n \in 1 .. Len(R) : T[n] = R[n]
      /\ \A k, st : e.key # k \/ e.state # st => In(T, k, st) = In(R, k, st)
  <2> HIDE DEF R, T
  <2>1. QED
    BY <1>4, <1>5, AppendIn DEF CopiesAppended
<1>7. \A k : In(T, k, "added") = In(R, k, "added") /\ In(T, k, "indel") = In(R, k, "indel")
  BY <1>4, <1>6
<1>8. Head(prog') = "header_valid" /\ Writing
  BY <1>1, <1>2 DEF AtHeader, AtHeaderValid, Op, Writing
<1>9. QED
  BY <1>1, <1>3, <1>6, <1>7, <1>8, UnreadStep

HasTip(R, C, r, s) == R = Append(C, SetState(Record(r), s))

\* T and R differ in the last record, which in R does not count and in T has the state u.
TipDiffers(C, r, R, T, u) ==
  /\ R \in Seq(Records) /\ T \in Seq(Records) /\ Len(C) \in Nat
  /\ Len(R) = Len(C) + 1 /\ Len(T) = Len(C) + 1 /\ T[Len(C) + 1].val = r.val
  /\ \A n \in 1 .. Len(R) : T[n].val = R[n].val
  /\ \A k, st : st \in {"added", "indel"} /\ (k # r.key \/ st # u) =>
                  In(T, k, st) = In(R, k, st)
  /\ u = "added" => In(T, r.key, "added") = In(R, r.key, "added") \cup {Len(C) + 1}
  /\ \A k : In(R, k, "indel") \subseteq 1 .. Len(C)

\* The last record in two states of its header.
LEMMA TipIn ==
  ASSUME NEW C \in Seq(Records), NEW r \in Requests, r.val \in Values,
         NEW s \in States \ {"added", "indel"}, NEW R, HasTip(R, C, r, s),
         NEW u \in States, NEW T, HasTip(T, C, r, u)
  PROVE  TipDiffers(C, r, R, T, u)
<1> DEFINE a == SetState(Record(r), s)
           b == SetState(Record(r), u)
<1>1. Record(r) \in Records /\ Record(r).key = r.key /\ Record(r).val = r.val
  BY NewCopy
<1>2. /\ a \in Records /\ a.key = r.key /\ a.val = r.val /\ a.state = s
      /\ b \in Records /\ b.key = r.key /\ b.val = r.val /\ b.state = u
  BY <1>1, SetStateType
<1>3. Appended(R, C, a) /\ Appended(T, C, b)
  BY DEF HasTip, Appended
<1> HIDE DEF a, b
<1>4. /\ R \in Seq(Records) /\ Len(C) \in Nat /\ Len(R) = Len(C) + 1 /\ R[Len(C) + 1] = a
      /\ \A n \in 1 .. Len(C) : R[n] = C[n]
      /\ \A k, st : a.key # k \/ a.state # st => In(R, k, st) = In(C, k, st)
  <2>1. CopiesAppended(R, C, a)
    BY <1>2, <1>3, AppendIn
  <2>2. QED
    BY <2>1 DEF CopiesAppended
<1>5. /\ T \in Seq(Records) /\ Len(T) = Len(C) + 1 /\ T[Len(C) + 1] = b
      /\ \A n \in 1 .. Len(C) : T[n] = C[n]
      /\ \A k, st : b.key # k \/ b.state # st => In(T, k, st) = In(C, k, st)
      /\ In(T, b.key, b.state) = In(C, b.key, b.state) \cup {Len(C) + 1}
  <2>1. CopiesAppended(T, C, b)
    BY <1>2, <1>3, AppendIn
  <2>2. QED
    BY <2>1 DEF CopiesAppended
<1>6. ASSUME NEW n \in 1 .. Len(R) PROVE T[n].val = R[n].val
  <2>1. CASE n = Len(C) + 1
    BY <1>2, <1>4, <1>5, <2>1
  <2>2. CASE n \in 1 .. Len(C)
    BY <1>4, <1>5, <2>2
  <2>3. QED
    BY <1>4, <2>1, <2>2
<1>7. \A k : /\ In(R, k, "added") = In(C, k, "added")
             /\ In(R, k, "indel") = In(C, k, "indel")
  BY <1>2, <1>4
<1>8. ASSUME NEW k, NEW st \in {"added", "indel"}, k # r.key \/ st # u
      PROVE  In(T, k, st) = In(R, k, st)
  BY <1>2, <1>5, <1>7, <1>8
<1>9. u = "added" => In(T, r.key, "added") = In(R, r.key, "added") \cup {Len(C) + 1}
  BY <1>2, <1>5, <1>7
<1>10. \A k : In(C, k, "indel") \subseteq 1 .. Len(C)
  BY DEF In
<1>11. QED
  BY <1>2, <1>4, <1>5, <1>6, <1>7, <1>8, <1>9, <1>10 DEF TipDiffers

LEMMA WriteHeaderValidMap == IInv /\ MapInv /\ WriteHeaderValid => MapInv' /\ MapStep
<1> SUFFICES ASSUME IInv, MapInv, WriteHeaderValid PROVE MapInv' /\ MapStep
  OBVIOUS
<1> DEFINE C == cache.records
           R == flash.records
           T == flash'.records
<1>1. /\ At("header_valid") /\ prog' = Tail(prog) /\ UNCHANGED <<arg, faults>>
      /\ flash' = Marked(flash, Len(R), "header")
  BY DEF WriteHeaderValid, Done, Tip, Marked
<1>2. /\ AtHeaderValid(prog, arg) /\ arg.req \in Requests /\ arg.req.val \in Values
      /\ R = Append(C, SetState(Record(arg.req), "none"))
  BY <1>1, Places DEF IInv, Half
<1>3. arg.req # NoRequest
  BY <1>2, VarAssumption DEF Requests
<1>4. flash \in Stores /\ C \in Seq(Records) /\ "none" \in States /\ "header" \in States
  BY DEF IInv, TypeInv, Stores, States
<1>5. HasTip(R, C, arg.req, "none") /\ HasTip(T, C, arg.req, "header")
  BY <1>1, <1>2, <1>4, TipWritten DEF HasTip
<1>6. /\ T \in Seq(Records)
      /\ \A n \in 1 .. Len(R) : T[n].val = R[n].val
      /\ \A k, st : st \in {"added", "indel"} /\ (k # arg.req.key \/ st # "header") =>
                      In(T, k, st) = In(R, k, st)
  <2> HIDE DEF C, R, T
  <2>1. "none" \in States \ {"added", "indel"}
    BY <1>4
  <2>2. TipDiffers(C, arg.req, R, T, "header")
    BY <1>2, <1>4, <1>5, <2>1, TipIn
  <2>3. QED
    BY <2>2 DEF TipDiffers
<1>7. \A k : In(T, k, "added") = In(R, k, "added") /\ In(T, k, "indel") = In(R, k, "indel")
  BY <1>6
<1>8. Head(prog') = "data" /\ Writing
  BY <1>1, <1>2 DEF AtHeaderValid, AtData, Op, Writing
<1>9. QED
  BY <1>1, <1>3, <1>6, <1>7, <1>8, UnreadStep

\* The new copy is ADDED: the step at which the map changes.
LEMMA WriteAddedMap == IInv /\ MapInv /\ WriteAdded => MapInv' /\ MapStep
<1> SUFFICES ASSUME IInv, MapInv, WriteAdded PROVE MapInv' /\ MapStep
  OBVIOUS
<1> DEFINE C == cache.records
           R == flash.records
           T == flash'.records
           q == arg.req.key
           c == arg.curr
           d == arg.indel
           old == {c, d} \ {0}
<1>1. /\ At("added") /\ prog' = Tail(prog) /\ UNCHANGED <<arg, faults>>
      /\ flash' = Marked(flash, Len(R), "added")
  BY DEF WriteAdded, Done, Tip, Marked
<1>2. /\ AtAdded(prog, arg) /\ arg.req \in Requests /\ arg.req.val \in Values
      /\ R = Append(C, SetState(Record(arg.req), "header"))
  BY <1>1, Places DEF IInv, Half
<1>3. arg.req # NoRequest /\ q \in Keys /\ arg.req.val # NoValue /\ (d # 0 => c # 0)
  BY <1>2, VarAssumption DEF Requests, IInv, CopyInv
<1>4. flash \in Stores /\ C \in Seq(Records) /\ "added" \in States /\ "header" \in States
  BY DEF IInv, TypeInv, Stores, States
<1>5. HasTip(R, C, arg.req, "header") /\ HasTip(T, C, arg.req, "added")
  BY <1>1, <1>2, <1>4, TipWritten DEF HasTip
<1>6. /\ R \in Seq(Records) /\ T \in Seq(Records) /\ Len(C) \in Nat
      /\ Len(T) = Len(C) + 1 /\ T[Len(C) + 1].val = arg.req.val
      /\ \A n \in 1 .. Len(R) : T[n].val = R[n].val
      /\ \A k, st : st \in {"added", "indel"} /\ (k # q \/ st # "added") =>
                      In(T, k, st) = In(R, k, st)
      /\ In(T, q, "added") = In(R, q, "added") \cup {Len(C) + 1}
      /\ \A k : In(R, k, "indel") \subseteq 1 .. Len(C)
  <2> HIDE DEF C, R, T
  <2>1. "header" \in States \ {"added", "indel"}
    BY <1>4
  <2>2. TipDiffers(C, arg.req, R, T, "added")
    BY <1>2, <1>4, <1>5, <2>1, TipIn
  <2>3. QED
    BY <2>2 DEF TipDiffers
<1>7. Pair(R, q, c, d) /\ Before /\ In(R, q, "added") = {}
  BY <1>1, <1>3 DEF MapInv, PlaceInv, Writing, Found
<1>8. In(R, q, "indel") = old
  BY <1>7 DEF Pair, Live
<1>9. /\ In(T, q, "added") = {Len(C) + 1} /\ In(T, q, "indel") = old
      /\ \A i \in old : i < Len(C) + 1
  <2>1. In(T, q, "added") = {Len(C) + 1} /\ In(T, q, "indel") = old
    <3> HIDE DEF T, C, R, old
    <3>1. QED
      BY <1>6, <1>7, <1>8
  <2>2. old \subseteq 1 .. Len(C)
    BY <1>6, <1>8
  <2>3. \A i \in 1 .. Len(C) : i < Len(C) + 1
    BY <1>6
  <2>4. QED
    BY <2>1, <2>2, <2>3
<1>10. Replaced(T, arg.req, old)
  <2>1. Len(C) + 1 \in DOMAIN T
    BY <1>6
  <2>2. QED
    BY <1>6, <1>9, <2>1 DEF Replaced
<1>11. Others
  <2>1. SUFFICES ASSUME NEW k \in Keys, k # q
                 PROVE  Settled(k)' /\ GetVariable(T, k) = GetVariable(R, k)
    BY DEF Others
  <2>2. Settled(k)
    BY <2>1 DEF MapInv
  <2>3. In(T, k, "added") = In(R, k, "added") /\ In(T, k, "indel") = In(R, k, "indel")
    BY <1>6, <2>1
  <2>4. QED
    BY <1>1, <1>6, <2>2, <2>3, OtherSettled
<1>12. Update
  BY <1>3, <1>6, <1>10, <1>11, ReplacedReads, OthersStep
<1>13. AtDeletes(prog', arg)
  BY <1>1, <1>2 DEF AtAdded
<1>14. PlaceInv'
  <2>1. CASE d # 0
    <3>1. old = {c, d} /\ Head(prog') = "delete_indel"
      BY <1>3, <1>13, <2>1 DEF AtDeletes, AtDeleteIndel, Op
    <3>2. QED
      BY <1>1, <1>3, <1>7, <1>10, <3>1 DEF PlaceInv, At, Writing, Before
  <2>2. CASE d = 0 /\ c # 0
    <3>1. old = {c} /\ Head(prog') = "delete_curr"
      BY <1>13, <2>2 DEF AtDeletes, AtDeleteCurr, Op
    <3>2. QED
      BY <1>1, <1>3, <1>10, <3>1 DEF PlaceInv, At, Writing
  <2>3. CASE d = 0 /\ c = 0
    <3>1. old = {} /\ Head(prog') = "return"
      BY <1>13, <2>3 DEF AtDeletes, AtReturn, Only, Op
    <3>2. Settled(q)'
      <4>1. In(T, q, "added") = {Len(C) + 1} /\ In(T, q, "indel") = {}
        BY <1>9, <3>1
      <4>2. QED
        BY <1>1, <4>1 DEF Settled, Shape, Single
    <3>3. QED
      BY <1>1, <3>1, <3>2 DEF PlaceInv, At, Writing, Settled
  <2>4. QED
    BY <2>1, <2>2, <2>3
<1>15. QED
  BY <1>1, <1>3, <1>11, <1>12, <1>14 DEF MapInv, MapStep, Others

-----------------------------------------------------------------------------
(***************************************************************************)
(* Reclaim and power failures.                                             *)
(***************************************************************************)

\* A walk meets no name twice.
LEMMA ReclaimKeepsOnce ==
  ASSUME IInv, MapInv, NEW c
  PROVE  KeptOnce(flash.records, c)
<1> DEFINE R == flash.records
<1>1. R \in Seq(Records)
  BY DEF IInv, TypeInv, Stores
<1>2. SUFFICES ASSUME NEW i \in 1 .. Len(R), NEW j \in 1 .. Len(R),
                      Keeps(R, c, i), Keeps(R, c, j), R[i].key = R[j].key
               PROVE  i = j
  BY DEF KeptOnce
<1>3. R[i] \in Records /\ DOMAIN R = 1 .. Len(R)
  BY <1>1
<1>4. R[i].key \in Keys /\ i \in In(R, R[i].key, "added") /\ j \in In(R, R[i].key, "added")
  BY <1>2, <1>3 DEF In, Keeps, Records
<1>5. Single(In(R, R[i].key, "added"))
  BY <1>4, SingleAdded
<1>6. QED
  BY <1>4, <1>5 DEF Single

\* What Reclaim writes has one copy of each name, and the new value of the request.
LEMMA CollectedMap ==
  ASSUME IInv, MapInv, Reclaiming, NEW k \in Keys
  PROVE  /\ In(Collected.records, k, "indel") = {}
         /\ Single(In(Collected.records, k, "added"))
         /\ GetVariable(Collected.records, k) =
              IF At("reclaim") /\ k = arg.req.key THEN arg.req.val
              ELSE GetVariable(flash.records, k)
<1> DEFINE R == flash.records
           c == arg.curr
           d == arg.indel
           b == ValidBuffer(R, c, d)
           q == arg.req.key
<1>1. R \in Seq(Records) /\ KeptOnce(R, c)
  BY ReclaimKeepsOnce DEF IInv, TypeInv, Stores
<1>2. \A n : /\ b \in Seq(Records)
             /\ In(b, n, "indel") = {} /\ Single(In(b, n, "added"))
             /\ Shape(R, n) /\ c \notin Live(R, n) /\ d \notin Live(R, n)
                  => GetVariable(b, n) = GetVariable(R, n)
             /\ In(R, n, "added") = {} /\ In(R, n, "indel") \subseteq {c, d} => Live(b, n) = {}
  BY <1>1, BufferMap
<1>3. 0 \notin Live(R, k) /\ \A i \in Live(R, k) : R[i].key = k
  <2>1. Live(R, k) \subseteq 1 .. Len(R) /\ Len(R) \in Nat /\ \A i \in Live(R, k) : R[i].key = k
    BY <1>1, InDisjoint
  <2>2. QED
    BY <2>1
<1> HIDE DEF b
<1>4. CASE ~At("reclaim")
  <2>1. arg = NoArg
    BY <1>4, Places DEF IInv, Reclaiming
  <2>2. c = 0 /\ d = 0 /\ Settled(k)
    BY <2>1 DEF NoArg, MapInv
  <2>3. Collected.records = b
    BY <1>4 DEF Collected, Reclaim, b
  <2>4. GetVariable(b, k) = GetVariable(R, k)
    BY <1>2, <1>3, <2>2 DEF Settled
  <2>5. QED
    BY <1>2, <1>4, <2>3, <2>4
<1>5. CASE At("reclaim")
  <2> DEFINE e == Record(arg.req)
  <2>1. arg.req \in Requests /\ arg.req.val \in Values
    BY <1>5, Places DEF IInv
  <2>2. arg.req # NoRequest
    BY <2>1, VarAssumption DEF Requests
  <2>3. e \in Records /\ e.key = q /\ e.val = arg.req.val /\ e.state = "added"
    BY <2>1, NewCopy
  <2>4. Collected.records = Append(b, e)
    BY <1>5 DEF Collected, Reclaim, b
  <2>5. Pair(R, q, c, d) /\ In(R, q, "added") = {}
    BY <1>5, <2>2 DEF MapInv, PlaceInv, Writing, Found
  <2> DEFINE T == Append(b, e)
  <2>6. Appended(T, b, e)
    BY DEF Appended
  <2> HIDE DEF e, T
  <2>7. /\ T \in Seq(Records) /\ Len(b) \in Nat /\ T[Len(b) + 1] = e
        /\ \A n \in 1 .. Len(b) : T[n] = b[n]
        /\ \A n, st : e.key # n \/ e.state # st => In(T, n, st) = In(b, n, st)
        /\ In(T, e.key, e.state) = In(b, e.key, e.state) \cup {Len(b) + 1}
    <3>1. CopiesAppended(T, b, e)
      BY <1>2, <2>3, <2>6, AppendIn
    <3>2. QED
      BY <3>1 DEF CopiesAppended
  <2>8. In(T, k, "indel") = {}
    BY <1>2, <2>3, <2>7
  <2>9. CASE k = q
    <3>1. In(R, q, "indel") \subseteq {c, d}
      BY <2>5 DEF Pair, Live
    <3>2. In(b, q, "added") = {}
      BY <1>2, <2>5, <3>1 DEF Live
    <3>3. In(T, k, "added") = {Len(b) + 1}
      BY <2>3, <2>7, <2>9, <3>2
    <3>4. Single(In(T, k, "added"))
      BY <3>3 DEF Single
    <3>5. GetVariable(T, k) = T[Len(b) + 1].val
      BY <2>7, <3>3, <3>4, Reads
    <3>6. QED
      BY <1>5, <2>3, <2>4, <2>7, <2>8, <2>9, <3>4, <3>5 DEF T
  <2>10. CASE k # q
    <3>1. In(T, k, "added") = In(b, k, "added") /\ In(T, k, "indel") = In(b, k, "indel")
      BY <2>3, <2>7, <2>10
    <3>2. Settled(k)
      BY <2>10 DEF MapInv
    <3>3. \A i \in Live(R, q) : R[i].key = q
      BY <1>1, InDisjoint
    <3>4. c \notin Live(R, k) /\ d \notin Live(R, k)
      BY <1>3, <2>5, <2>10, <3>3 DEF Pair
    <3>5. GetVariable(b, k) = GetVariable(R, k)
      BY <1>2, <3>2, <3>4 DEF Settled
    <3>6. Live(b, k) \subseteq 1 .. Len(b) /\ b \in Seq(Records)
      BY <1>2, InDisjoint
    <3>7. \A i \in Live(b, k) : T[i].val = b[i].val
      BY <2>7, <3>6
    <3>8. GetVariable(T, k) = GetVariable(b, k)
      BY <2>7, <3>1, <3>6, <3>7, SameReads
    <3>9. QED
      BY <1>2, <2>4, <2>8, <2>10, <3>1, <3>5, <3>8 DEF T
  <2>11. QED
    BY <2>9, <2>10
<1>6. QED
  BY <1>4, <1>5

\* All names are settled in what a reclaim writes, and the map is kept or updated.
LEMMA CollectedStep ==
  ASSUME IInv, MapInv, Reclaiming, flash'.records = Collected.records
  PROVE  /\ \A k \in Keys : Settled(k)'
         /\ At("reclaim") => Update
         /\ ~At("reclaim") => Keep
<1> DEFINE T == flash'.records
<1>1. \A k \in Keys :
        /\ In(T, k, "indel") = {} /\ Single(In(T, k, "added"))
        /\ GetVariable(T, k) = IF At("reclaim") /\ k = arg.req.key THEN arg.req.val
                               ELSE GetVariable(flash.records, k)
  <2>1. ASSUME NEW k \in Keys
        PROVE  /\ In(T, k, "indel") = {} /\ Single(In(T, k, "added"))
               /\ GetVariable(T, k) = IF At("reclaim") /\ k = arg.req.key THEN arg.req.val
                                      ELSE GetVariable(flash.records, k)
    BY CollectedMap
  <2>2. QED
    BY <2>1
<1>2. \A k \in Keys : Settled(k)'
  BY <1>1 DEF Settled, Shape, Single
<1>3. At("reclaim") => Update
  BY <1>1 DEF Update, Contents
<1>4. ~At("reclaim") => Keep
  BY <1>1 DEF Keep, Contents
<1>5. QED
  BY <1>2, <1>3, <1>4

LEMMA DoReclaimMap == IInv /\ MapInv /\ Calm /\ DoReclaim => MapInv' /\ MapStep
<1> SUFFICES ASSUME IInv, MapInv, Calm, DoReclaim PROVE MapInv' /\ MapStep
  OBVIOUS
<1>1. /\ Reclaiming /\ prog' = Tail(prog) /\ UNCHANGED faults
      /\ IF Collected.ok
         THEN /\ flash' = [records |-> Collected.records, junk |-> FALSE]
              /\ arg' = IF arg.curr = 0 THEN arg
                        ELSE [arg EXCEPT !.curr = Len(Collected.records), !.indel = 0]
         ELSE UNCHANGED <<flash, arg>>
  BY DEF DoReclaim, Done
<1>2. arg \in [req : Requests \cup {NoRequest}, curr : Nat, indel : Nat]
  BY DEF IInv, TypeInv
<1>3. arg'.req = arg.req
  BY <1>1, <1>2
<1>4. (\A k \in Keys : Settled(k)') /\ (Keep \/ (At("reclaim") /\ Update))
  <2>1. CASE Collected.ok
    BY <1>1, <2>1, CollectedStep
  <2>2. CASE ~Collected.ok
    <3>1. At("reclaim")
      BY <2>2 DEF Collected, Reclaim
    <3>2. faults = 0
      BY <2>2, <3>1 DEF Calm, IInv, TypeInv
    <3>3. arg.req # NoRequest
      BY <3>1, Places, VarAssumption DEF IInv, Requests
    <3>4. In(flash.records, arg.req.key, "added") = {}
      BY <3>1, <3>3 DEF MapInv, PlaceInv, Writing
    <3>5. \A k \in Keys : Settled(k)
      BY <3>2, <3>3, <3>4, FaultShape DEF MapInv, Settled
    <3>6. QED
      BY <1>1, <2>2, <3>5, SameRecords
  <2>3. QED
    BY <2>1, <2>2
<1>5. arg.req # NoRequest => Head(prog') = "return" /\ arg.req.key \in Keys
  <2>1. SUFFICES ASSUME arg.req # NoRequest
                 PROVE  Head(prog') = "return" /\ arg.req.key \in Keys
    OBVIOUS
  <2>2. AtReclaim(prog)
    BY <1>1, <2>1, Places DEF IInv, Reclaiming, NoArg
  <2>3. QED
    BY <1>1, <2>1, <2>2, Somewhere DEF AtReclaim, AtReturn, Only, Op
<1>6. arg.req # NoRequest => PlaceInv'
  BY <1>3, <1>4, <1>5 DEF PlaceInv, At, Writing, Settled
<1>7. At("reclaim") => arg.req # NoRequest
  BY Places, VarAssumption DEF IInv, Requests
<1>8. QED
  BY <1>3, <1>4, <1>6, <1>7 DEF MapInv, MapStep

\* A power failure ends the call in progress before or after its update.
LEMMA PowerFailureMap == IInv /\ MapInv /\ Calm' /\ PowerFailure => MapInv' /\ MapStep
<1> SUFFICES ASSUME IInv, MapInv, Calm', PowerFailure PROVE MapInv' /\ MapStep
  OBVIOUS
<1>1. flash' \in CutOff /\ arg' = NoArg /\ faults' = faults + 1
  BY DEF PowerFailure, Fault
<1>2. faults = 0 /\ faults' = 1
  BY <1>1 DEF Calm, IInv, TypeInv
<1>3. flash \in Stores /\ flash.records \in Seq(Records)
  BY DEF IInv, TypeInv, Stores
<1>4. At("reclaim") => arg.req # NoRequest
  BY Places, VarAssumption DEF IInv, Requests
<1>5. (\A k \in Keys : Settled(k)') /\ (Keep \/ (At("reclaim") /\ Update))
  <2>1. CASE flash'.records = flash.records
    BY <1>2, <2>1, FaultShape, SameRecords
  <2>2. CASE At("header") /\ flash'.records # flash.records
    <3> DEFINE e == SetState(Record(arg.req), "none")
               R == flash.records
               T == flash'.records
    <3>1. arg.req \in Requests /\ arg.req.val \in Values
      BY <2>2, Places DEF IInv
    <3>2. e \in Records /\ e.state = "none"
      BY <3>1, NewCopy DEF States
    <3>3. flash' \in {flash, [flash EXCEPT !.junk = TRUE], [flash EXCEPT !.records = Append(@, e)]}
      <4>1. ~Reclaiming
        BY <2>2 DEF Reclaiming, At
      <4>2. QED
        BY <1>1, <2>2, <4>1 DEF CutOff
    <3> HIDE DEF e
    <3>4. Appended(T, R, e)
      BY <1>3, <2>2, <3>3 DEF Stores, Appended
    <3> HIDE DEF R, T
    <3>5. /\ T \in Seq(Records)
          /\ \A n \in 1 .. Len(R) : T[n] = R[n]
          /\ \A k, st : e.key # k \/ e.state # st => In(T, k, st) = In(R, k, st)
      <4>1. CopiesAppended(T, R, e)
        BY <1>3, <3>2, <3>4, AppendIn DEF R
      <4>2. QED
        BY <4>1 DEF CopiesAppended
    <3>6. ASSUME NEW k
          PROVE  In(T, k, "added") = In(R, k, "added") /\ In(T, k, "indel") = In(R, k, "indel")
      BY <3>2, <3>5
    <3>7. ASSUME NEW k \in Keys
          PROVE  Shape(T, k) /\ GetVariable(T, k) = GetVariable(R, k)
      <4>1. Shape(R, k)
        BY <1>2, FaultShape DEF R
      <4>2. Live(R, k) \subseteq 1 .. Len(R) /\ R \in Seq(Records)
        BY <1>3, InDisjoint DEF R
      <4>3. \A i \in Live(R, k) : T[i].val = R[i].val
        BY <3>5, <4>2
      <4>4. QED
        BY <3>5, <3>6, <4>1, <4>2, <4>3, SameReads DEF Shape
    <3>8. Keep
      BY <3>7 DEF Keep, Contents, R, T
    <3>9. \A k \in Keys : Settled(k)'
      BY <1>2, <3>7 DEF Settled, T
    <3>10. QED
      BY <3>8, <3>9
  <2>3. CASE Reclaiming /\ flash' = [records |-> Collected.records, junk |-> FALSE]
    BY <2>3, CollectedStep
  <2>4. QED
    BY <1>1, <2>1, <2>2, <2>3 DEF CutOff
<1>6. QED
  BY <1>1, <1>4, <1>5 DEF MapInv, MapStep, NoArg

-----------------------------------------------------------------------------
(***************************************************************************)
(* The theorems.                                                           *)
(***************************************************************************)
LEMMA InitMap == Init => MapInv /\ Map!Init
<1> SUFFICES ASSUME Init PROVE MapInv /\ Map!Init
  OBVIOUS
<1>1. flash.records = <<>> /\ <<>> \in Seq(Records) /\ arg.req = NoRequest /\ faults = 0
  BY DEF Init, NoArg
<1>2. ASSUME NEW k, NEW st PROVE In(<<>>, k, st) = {}
  BY DEF In
<1>3. ASSUME NEW k PROVE GetVariable(<<>>, k) = NoValue /\ Settled(k)
  <2>1. Live(<<>>, k) = {}
    BY <1>2 DEF Live
  <2>2. GetVariable(<<>>, k) = NoValue
    BY <1>1, <2>1, Reads
  <2>3. Settled(k)
    BY <1>1, <1>2 DEF Settled, Shape, Single
  <2>4. QED
    BY <2>2, <2>3
<1>4. Map!Init
  BY <1>1, <1>3 DEF Map!Init
<1>5. QED
  BY <1>1, <1>3, <1>4 DEF MapInv

\* Every step is one of VarMap or changes nothing in it.
LEMMA NextMap ==
  IInv /\ MapInv /\ Calm /\ Calm' /\ [Next]_vars => MapInv' /\ MapStep
<1> SUFFICES ASSUME IInv, MapInv, Calm, Calm', [Next]_vars PROVE MapInv' /\ MapStep
  OBVIOUS
<1>1. CASE \E k \in Keys, v \in Values \cup {NoValue} : SetVariable(k, v)
  BY <1>1, SetVariableMap
<1>2. CASE MarkOld \/ DeleteIndel \/ DeleteCurr
  BY <1>2, MarkOldMap, DeleteIndelMap, DeleteCurrMap
<1>3. CASE WriteHeader \/ WriteHeaderValid \/ WriteData \/ WriteAdded
  BY <1>3, WriteHeaderMap, WriteHeaderValidMap, WriteDataMap, WriteAddedMap
<1>4. CASE DoReclaim
  BY <1>4, DoReclaimMap
<1>5. CASE Refuse \/ Return
  BY <1>5, RefuseMap, ReturnMap
<1>6. CASE ReclaimForOS \/ ExitBootServices \/ Reset \/ InitStore
  BY <1>6, StartMap
<1>7. CASE PowerFailure
  BY <1>7, PowerFailureMap
<1>8. CASE StateError \/ FtwError
  BY <1>8, ErrorMap
<1>9. CASE UNCHANGED vars
  <2>1. UNCHANGED <<flash, arg, faults, prog>>
    BY <1>9 DEF vars
  <2>2. Keep /\ arg'.req = arg.req
    BY <2>1 DEF Keep
  <2>3. MapInv'
    BY <2>1 DEF MapInv, PlaceInv, Settled, Found, Before, Writing, At, Idle
  <2>4. QED
    BY <2>2, <2>3 DEF MapStep
<1>10. QED
  BY <1>1, <1>2, <1>3, <1>4, <1>5, <1>6, <1>7, <1>8, <1>9 DEF Next

LEMMA StepRefines == MapStep => [Map!Next]_(Map!vars)
<1> SUFFICES ASSUME MapStep PROVE [Map!Next]_(Map!vars)
  OBVIOUS
<1>1. CASE Keep /\ arg'.req = arg.req
  BY <1>1 DEF Keep, Contents, Map!vars
<1>2. CASE Keep /\ arg.req = NoRequest /\ arg'.req \in Requests
  BY <1>2 DEF Keep, Contents, Requests, Map!Next, Map!Ask, Map!Requests
<1>3. CASE Update /\ arg.req # NoRequest /\ arg'.req = arg.req
  BY <1>3 DEF Update, Contents, Map!Next, Map!Commit, Map!Updated
<1>4. CASE (Keep \/ Update) /\ arg.req # NoRequest /\ arg'.req = NoRequest
  BY <1>4 DEF Keep, Update, Contents, Map!Next, Map!End, Map!Updated
<1>5. QED
  BY <1>1, <1>2, <1>3, <1>4 DEF MapStep

\* UpdateVariable, Reclaim and a reset leave no two ADDED copies of a name (Variable.c marks
\* the old copy before it writes the new one), at any place of any call, as long as at most
\* one fault has happened and no update is refused after it.
THEOREM OneAddedCopy == Spec /\ []Calm => []OneAdded
<1>1. IInv /\ MapInv => OneAdded
  <2>1. SUFFICES ASSUME IInv, MapInv, NEW k \in Keys
                 PROVE  Cardinality(In(flash.records, k, "added")) <= 1
    BY DEF OneAdded
  <2> DEFINE A == In(flash.records, k, "added")
  <2>2. Single(A)
    BY <2>1, SingleAdded
  <2> HIDE DEF A
  <2>3. CASE A = {}
    BY <2>3, FS_EmptySet DEF A
  <2>4. CASE A # {}
    <3>1. PICK i \in A : TRUE
      BY <2>4
    <3>2. A = {i}
      BY <2>2, <3>1 DEF Single
    <3>3. Cardinality(A) = 1
      BY <3>2, FS_Singleton
    <3>4. QED
      BY <3>3 DEF A
  <2>5. QED
    BY <2>3, <2>4
<1>2. Init => MapInv
  BY InitMap
<1>3. IInv /\ MapInv /\ Calm /\ Calm' /\ [Next]_vars => MapInv'
  BY NextMap
<1>4. QED
  BY <1>1, <1>2, <1>3, Invariance, PTL DEF Spec

\* The store in flash is a map from names to values and a SetVariable one atomic update of
\* it, whatever flash write a power failure, a device error or an error of the fault
\* tolerant write falls on, as long as at most one fault has happened and no update is
\* refused after it.
THEOREM ImplementsMap == Spec /\ []Calm => VarMapSpec
<1>1. Init => MapInv /\ Map!Init
  BY InitMap
<1>2. IInv /\ MapInv /\ Calm /\ Calm' /\ [Next]_vars => MapInv' /\ [Map!Next]_(Map!vars)
  BY NextMap, StepRefines
<1>3. QED
  BY <1>1, <1>2, Invariance, PTL DEF Spec, VarMapSpec, Map!Spec
=============================================================================
