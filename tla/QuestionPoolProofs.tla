------------------------- MODULE QuestionPoolProofs -------------------------
(* Theorems about QuestionPool, for every number of questions and of lanes. *)
EXTENDS QuestionPool, FiniteSetTheorems, TLAPS

LEMMA LaneFields ==
    ASSUME TypeOK, NEW l \in Lanes
    PROVE  /\ lane[l] \in Lane /\ lane[l].n \in 0..Questions
           /\ lane[l].at \in {"free", "working", "waiting", "left"}
           /\ lane[l] = [at |-> lane[l].at, n |-> lane[l].n]
  <1>1. lane[l] \in Lane
    BY DEF TypeOK
  <1> QED BY <1>1 DEF Lane

\* A move of one lane leaves the others where they are.
LEMMA OneLane ==
    ASSUME TypeOK, NEW l \in Lanes, NEW at \in {"free", "working", "waiting", "left"},
           NEW n \in 0..Questions, Moves(l, at, n)
    PROVE  /\ lane' \in [Lanes -> Lane]
           /\ lane'[l] = [at |-> at, n |-> n] /\ lane'[l].at = at /\ lane'[l].n = n
           /\ \A k \in Lanes : k # l => lane'[k] = lane[k]
  BY DEF TypeOK, Lane, Moves

\* Results are counted: while a question is being answered there is room for one.
LEMMA RoomForOne ==
    ASSUME IndInv, NEW l \in Working
    PROVE  /\ completed + 1 \in 0..Questions
           /\ Cardinality(results \cup {lane[l].n}) = completed + 1
           /\ lane[l].n \in 0..(Questions - 1)
  <1>1. /\ results \subseteq 0..(Questions - 1) /\ lane[l].n \in 0..(Questions - 1)
        /\ lane[l].n \notin results /\ Questions \in Nat
    <2>1. l \in Lanes /\ lane[l].n < next /\ next \in 0..Questions /\ Questions \in Nat
      BY PoolAssumption DEF IndInv, LanesLeaveForAReason, Working, TypeOK
    <2>2. lane[l].n \in 0..Questions
      BY <2>1, LaneFields DEF IndInv
    <2> QED BY <2>1, <2>2 DEF IndInv, TypeOK, EveryQuestionOnce
  <1>2. IsFiniteSet(0..(Questions - 1)) /\ Cardinality(0..(Questions - 1)) = Questions
    BY <1>1, FS_Interval
  <1>3. IsFiniteSet(results)
    BY <1>1, <1>2, FS_Subset
  <1>4. Cardinality(results \cup {lane[l].n}) = completed + 1
    BY <1>1, <1>3, FS_AddElement DEF IndInv, CompletedAreCounted
  <1>5. Cardinality(results \cup {lane[l].n}) <= Questions
    BY <1>1, <1>2, FS_Subset
  <1>6. completed \in Nat
    BY PoolAssumption DEF IndInv, TypeOK
  <1> QED BY <1>1, <1>4, <1>5, <1>6

----------------------------------------------------------------------------
LEMMA InitInv == Init => IndInv
  <1> SUFFICES ASSUME Init PROVE IndInv
    OBVIOUS
  <1>1. Questions \in Nat /\ 0 \in 0..Questions /\ [at |-> "free", n |-> 0] \in Lane
    BY PoolAssumption DEF Lane
  <1>2. TypeOK
    BY <1>1 DEF Init, TypeOK
  <1>3. Working = {}
    BY DEF Init, Working
  <1>4. EveryQuestionOnce
    BY <1>3 DEF Init, EveryQuestionOnce
  <1>5. ChainIsInOrder
    BY DEF Init, ChainIsInOrder
  <1>6. LanesLeaveForAReason
    BY <1>3 DEF Init, LanesLeaveForAReason
  <1>7. CompletedAreCounted
    BY FS_EmptySet DEF Init, CompletedAreCounted
  <1> QED BY <1>2, <1>4, <1>5, <1>6, <1>7 DEF IndInv

LEMMA TakeInv ==
    ASSUME IndInv, NEW l \in Lanes, Take(l)
    PROVE  IndInv'
  <1>1. /\ TypeOK /\ next \in 0..Questions /\ Questions \in Nat /\ next < Questions
        /\ next + 1 \in 0..Questions
    BY PoolAssumption DEF IndInv, TypeOK, Take
  <1>2. /\ lane' \in [Lanes -> Lane] /\ lane'[l].at = "working" /\ lane'[l].n = next
        /\ \A k \in Lanes : k # l => lane'[k] = lane[k]
        /\ lane[l].at = "free" /\ ~stopped /\ next' = next + 1
    BY <1>1, OneLane DEF Take
  <1>3. UNCHANGED <<completed, stopped, chain, calls, results, reported, threw, outcome>>
    BY DEF Take
  <1>4. Working' = Working \cup {l} /\ l \notin Working
    BY <1>2 DEF Working
  <1>5. TypeOK'
    BY <1>1, <1>2, <1>3 DEF TypeOK
  <1>6. LanesLeaveForAReason'
    <2>1. outcome = "none"
      BY <1>2 DEF IndInv, LanesLeaveForAReason, TypeOK
    <2>2. \A k \in Working : lane[k].n \in 0..Questions
      BY <1>1, LaneFields DEF Working
    <2>3. \A k \in Working' : lane'[k].n < next'
      BY <1>1, <1>2, <1>4, <2>2 DEF IndInv, LanesLeaveForAReason, Working
    <2>4. results' \subseteq 0..(next' - 1)
      BY <1>1, <1>2, <1>3 DEF IndInv, LanesLeaveForAReason
    <2>5. \A k \in Lanes : lane'[k].at = "left" => next = Questions
      BY <1>2 DEF IndInv, LanesLeaveForAReason
    <2> QED BY <1>1, <1>3, <2>1, <2>3, <2>4, <2>5 DEF LanesLeaveForAReason
  <1>7. EveryQuestionOnce'
    <2>1. \A k \in Working : lane[k].n < next /\ lane[k].n \in 0..Questions /\ lane'[k] = lane[k]
      BY <1>1, <1>2, <1>4, LaneFields DEF IndInv, LanesLeaveForAReason, Working
    <2>2. next \notin results
      BY <1>1 DEF IndInv, LanesLeaveForAReason
    <2>3. {lane'[k].n : k \in Working'} = {lane[k].n : k \in Working} \cup {next}
      BY <1>2, <1>4, <2>1
    <2>4. 0..(next' - 1) = 0..(next - 1) \cup {next}
      BY <1>1, <1>2
    <2>5. \A j, k \in Working' : j # k => lane'[j].n # lane'[k].n
      <3>1. \A j, k \in Working : j # k => lane'[j].n # lane'[k].n
        BY <2>1 DEF IndInv, EveryQuestionOnce
      <3>2. \A k \in Working : lane'[k].n # lane'[l].n
        BY <1>1, <1>2, <2>1
      <3> QED BY <1>4, <3>1, <3>2
    <2>6. \A k \in Working' : lane'[k].n \notin results'
      BY <1>2, <1>3, <1>4, <2>1, <2>2 DEF IndInv, EveryQuestionOnce
    <2>7. 0..(next - 1) = results \cup {lane[k].n : k \in Working}
      BY <1>2 DEF IndInv, EveryQuestionOnce
    <2> QED BY <1>3, <2>3, <2>4, <2>5, <2>6, <2>7 DEF EveryQuestionOnce
  <1>8. ChainIsInOrder'
    <2>1. \A c \in chain : \E k \in Lanes : lane'[k] = [at |-> "waiting", n |-> c]
      BY <1>2 DEF IndInv, ChainIsInOrder
    <2> QED BY <1>3, <2>1 DEF IndInv, ChainIsInOrder
  <1>9. CompletedAreCounted'
    BY <1>3 DEF IndInv, CompletedAreCounted
  <1> QED BY <1>5, <1>6, <1>7, <1>8, <1>9 DEF IndInv

\* A step that takes and answers no question leaves the questions in order.
LEMMA QuestionsFrame ==
    ASSUME IndInv, UNCHANGED <<next, results, completed>>, Working' \subseteq Working,
           \A k \in Working' : lane'[k] = lane[k],
           ~stopped' => ~stopped /\ Working' = Working
    PROVE  EveryQuestionOnce' /\ CompletedAreCounted'
  <1>1. EveryQuestionOnce'
    <2>1. ~stopped' => {lane'[k].n : k \in Working'} = {lane[k].n : k \in Working}
      OBVIOUS
    <2> QED BY <2>1 DEF IndInv, EveryQuestionOnce
  <1>2. CompletedAreCounted'
    BY DEF IndInv, CompletedAreCounted
  <1> QED BY <1>1, <1>2

LEMMA LeaveInv ==
    ASSUME IndInv, NEW l \in Lanes, Leave(l) \/ WorkerThrows(l)
    PROVE  IndInv'
  <1>1. /\ TypeOK /\ Questions \in Nat /\ 0 \in 0..Questions
        /\ UNCHANGED <<next, completed, chain, calls, results, reported, threw, outcome>>
        /\ Moves(l, "left", 0)
        /\ lane[l].at \in {"free", "working"}
        /\ stopped' \in BOOLEAN /\ (stopped => stopped')
        /\ stopped' \/ (next = Questions /\ lane[l].at = "free" /\ ~stopped)
    <2>1. TypeOK /\ Questions \in Nat /\ 0 \in 0..Questions
      BY PoolAssumption DEF IndInv
    <2>2. CASE Leave(l)
      <3>1. stopped' = stopped /\ lane[l].at = "free" /\ (stopped \/ next = Questions)
        BY <2>2 DEF Leave
      <3> QED BY <2>1, <2>2, <3>1 DEF Leave, TypeOK
    <2>3. CASE WorkerThrows(l)
      <3>1. stopped' = TRUE /\ lane[l].at = "working"
        BY <2>3 DEF WorkerThrows
      <3> QED BY <2>1, <2>3, <3>1 DEF WorkerThrows
    <2> QED BY <2>2, <2>3
  <1>2. /\ lane' \in [Lanes -> Lane] /\ lane'[l].at = "left"
        /\ \A k \in Lanes : k # l => lane'[k] = lane[k]
    BY <1>1, OneLane
  <1>3. /\ Working' \subseteq Working /\ \A k \in Working' : lane'[k] = lane[k]
        /\ ~stopped' => ~stopped /\ Working' = Working
    BY <1>1, <1>2 DEF Working
  <1>4. TypeOK'
    BY <1>1, <1>2 DEF TypeOK
  <1>5. EveryQuestionOnce' /\ CompletedAreCounted'
    BY <1>1, <1>3, QuestionsFrame
  <1>6. LanesLeaveForAReason'
    <2>1. \A k \in Working' : lane'[k].n < next'
      BY <1>1, <1>3 DEF IndInv, LanesLeaveForAReason
    <2>2. \A k \in Lanes : lane'[k].at = "left" => stopped' \/ next' = Questions
      BY <1>1, <1>2 DEF IndInv, LanesLeaveForAReason
    <2>3. outcome = "none"
      BY <1>1 DEF IndInv, LanesLeaveForAReason
    <2>4. results' \subseteq 0..(next' - 1)
      BY <1>1 DEF IndInv, LanesLeaveForAReason
    <2> QED BY <1>1, <2>1, <2>2, <2>3, <2>4 DEF LanesLeaveForAReason
  <1>7. ChainIsInOrder'
    <2>1. \A c \in chain : \E k \in Lanes : lane'[k] = [at |-> "waiting", n |-> c]
      BY <1>1, <1>2 DEF IndInv, ChainIsInOrder
    <2> QED BY <1>1, <2>1 DEF IndInv, ChainIsInOrder
  <1> QED BY <1>4, <1>5, <1>6, <1>7 DEF IndInv

LEMMA AnswerInv ==
    ASSUME IndInv, NEW l \in Lanes, Answer(l)
    PROVE  IndInv'
  <1>1. /\ TypeOK /\ Questions \in Nat /\ completed \in Nat /\ l \in Working
        /\ UNCHANGED <<next, stopped, calls, reported, threw, outcome>>
        /\ results' = results \cup {lane[l].n} /\ completed' = completed + 1
        /\ chain' = chain \cup {completed + 1}
        /\ lane[l].at = "working"
    BY PoolAssumption DEF IndInv, TypeOK, Answer, Working
  <1>2. /\ completed + 1 \in 0..Questions /\ completed + 1 \in 1..Questions
        /\ Cardinality(results \cup {lane[l].n}) = completed + 1
        /\ lane[l].n \in 0..(Questions - 1)
    BY <1>1, RoomForOne
  <1>3. /\ lane' \in [Lanes -> Lane] /\ lane'[l] = [at |-> "waiting", n |-> completed + 1]
        /\ lane'[l].at = "waiting"
        /\ \A k \in Lanes : k # l => lane'[k] = lane[k]
    BY <1>1, <1>2, OneLane DEF Answer
  <1>4. Working' = Working \ {l}
    BY <1>3 DEF Working
  <1>5. TypeOK'
    BY <1>1, <1>2, <1>3 DEF TypeOK
  <1>6. EveryQuestionOnce'
    <2>1. \A k \in Working' : k \in Working /\ k # l /\ lane'[k] = lane[k]
      BY <1>3, <1>4 DEF Working
    <2>2. {lane[k].n : k \in Working} = {lane'[k].n : k \in Working'} \cup {lane[l].n}
      BY <1>1, <1>4, <2>1
    <2>3. ~stopped => 0..(next - 1) = results \cup {lane[k].n : k \in Working}
      BY DEF IndInv, EveryQuestionOnce
    <2>4. \A k \in Working' : lane'[k].n \notin results'
      BY <1>1, <2>1 DEF IndInv, EveryQuestionOnce
    <2>5. \A j, k \in Working' : j # k => lane'[j].n # lane'[k].n
      BY <2>1 DEF IndInv, EveryQuestionOnce
    <2> QED BY <1>1, <2>2, <2>3, <2>4, <2>5 DEF EveryQuestionOnce
  <1>7. LanesLeaveForAReason'
    <2>1. \A k \in Working' : lane'[k].n < next'
      <3>1. \A k \in Working' : k \in Working /\ lane'[k] = lane[k]
        BY <1>3, <1>4 DEF Working
      <3>2. \A k \in Working : lane[k].n < next
        BY DEF IndInv, LanesLeaveForAReason
      <3> QED BY <1>1, <3>1, <3>2
    <2>2. \A k \in Lanes : lane'[k].at = "left" => stopped' \/ next' = Questions
      BY <1>1, <1>3 DEF IndInv, LanesLeaveForAReason
    <2>3. outcome = "none"
      BY <1>1 DEF IndInv, LanesLeaveForAReason
    <2>4. results' \subseteq 0..(next' - 1)
      <3>1. lane[l].n < next /\ next \in 0..Questions
        BY <1>1 DEF IndInv, LanesLeaveForAReason, TypeOK
      <3>2. lane[l].n \in 0..(next - 1)
        BY <1>1, <1>2, <3>1
      <3>3. results \subseteq 0..(next - 1)
        BY DEF IndInv, LanesLeaveForAReason
      <3> QED BY <1>1, <3>2, <3>3
    <2> QED BY <1>1, <2>1, <2>2, <2>3, <2>4 DEF LanesLeaveForAReason
  <1>8. ChainIsInOrder'
    <2>1. \A c \in chain' : \E k \in Lanes : lane'[k] = [at |-> "waiting", n |-> c]
      BY <1>1, <1>3 DEF IndInv, ChainIsInOrder
    <2>2. ~stopped => chain' = (reported + 1)..completed' /\ reported <= completed'
      <3>1. reported \in Nat
        BY <1>1 DEF TypeOK
      <3> QED BY <1>1, <3>1 DEF IndInv, ChainIsInOrder
    <2> QED BY <1>1, <2>1, <2>2 DEF IndInv, ChainIsInOrder
  <1>9. CompletedAreCounted'
    BY <1>1, <1>2 DEF CompletedAreCounted
  <1> QED BY <1>5, <1>6, <1>7, <1>8, <1>9 DEF IndInv

LEMMA CallInv ==
    ASSUME IndInv, NEW c \in 1..Questions, Call(c)
    PROVE  IndInv'
  <1>1. /\ TypeOK /\ Questions \in Nat /\ reported \in Nat /\ completed \in Nat
        /\ UNCHANGED <<next, completed, stopped, lane, chain, results, reported, threw, outcome>>
        /\ c \in chain /\ (\A d \in chain : c <= d) /\ ~stopped
        /\ calls' = calls \cup {c}
    BY PoolAssumption DEF IndInv, TypeOK, Call, Turn
  <1>2. c = reported + 1
    <2>1. chain = (reported + 1)..completed
      BY <1>1 DEF IndInv, ChainIsInOrder
    <2>2. reported + 1 \in chain /\ c >= reported + 1
      BY <1>1, <2>1
    <2> QED BY <1>1, <2>2
  <1>3. TypeOK'
    BY <1>1 DEF TypeOK
  <1>4. Working' = Working
    BY <1>1 DEF Working
  <1>5. EveryQuestionOnce' /\ CompletedAreCounted'
    BY <1>1, <1>4, QuestionsFrame
  <1>6. LanesLeaveForAReason'
    BY <1>1, <1>4 DEF IndInv, LanesLeaveForAReason
  <1>7. ChainIsInOrder'
    BY <1>1, <1>2 DEF IndInv, ChainIsInOrder
  <1> QED BY <1>3, <1>5, <1>6, <1>7 DEF IndInv

LEMMA SettleInv ==
    ASSUME IndInv, NEW c \in 1..Questions, Skip(c) \/ Return(c) \/ Throw(c)
    PROVE  IndInv'
  <1>0. TypeOK /\ calls \subseteq chain
    BY DEF IndInv, TypeOK
  <1>a. Questions \in Nat /\ 0 \in 0..Questions /\ reported \in Nat /\ completed \in Nat
    BY <1>0, PoolAssumption DEF TypeOK
  <1>b. c \in chain /\ Settle(c) /\ UNCHANGED <<next, completed, results, outcome>>
    BY <1>0 DEF Skip, Return, Throw, Turn
  <1>c. stopped' \in BOOLEAN /\ threw' \in BOOLEAN /\ (stopped => stopped')
    BY <1>0 DEF TypeOK, Skip, Return, Throw
  <1>1. /\ TypeOK /\ Questions \in Nat /\ 0 \in 0..Questions /\ reported \in Nat
        /\ completed \in Nat
        /\ UNCHANGED <<next, completed, results, outcome>>
        /\ c \in chain /\ Settle(c)
        /\ stopped' \in BOOLEAN /\ threw' \in BOOLEAN /\ (stopped => stopped')
    BY <1>0, <1>a, <1>b, <1>c
  <1>2. \/ Skip(c) /\ stopped /\ c \notin calls /\ reported' = reported /\ threw' = threw
        \/ Return(c) /\ c \in calls /\ c = reported + 1 /\ reported' = c /\ threw' = threw
             /\ stopped' = stopped /\ ~threw
        \/ Throw(c) /\ c \in calls /\ c = reported + 1 /\ reported' = reported /\ stopped' /\ threw'
    BY <1>1 DEF IndInv, ChainIsInOrder, Skip, Return, Throw, Turn
  <1>3. /\ \A k \in Lanes : \/ lane'[k] = lane[k] /\ lane[k] # [at |-> "waiting", n |-> c]
                            \/ /\ lane[k] = [at |-> "waiting", n |-> c]
                               /\ lane'[k] = [at |-> "free", n |-> 0]
        /\ lane' \in [Lanes -> Lane]
    BY <1>1 DEF Settle, TypeOK, Lane
  <1>4. \A k \in Lanes : /\ lane'[k].at = "left" => lane[k].at = "left"
                         /\ lane'[k].at = "working" => lane[k].at = "working" /\ lane'[k] = lane[k]
                         /\ lane[k].at = "working" => lane'[k] = lane[k]
    BY <1>3
  <1>5. Working' = Working /\ \A k \in Working : lane'[k] = lane[k]
    BY <1>4 DEF Working
  <1>6. TypeOK'
    <2>1. reported' \in 0..Questions
      BY <1>1, <1>2 DEF TypeOK
    <2>2. chain' = chain \ {c} /\ calls' = calls \ {c}
      BY <1>1 DEF Settle
    <2> QED BY <1>1, <1>3, <2>1, <2>2 DEF TypeOK
  <1>7. EveryQuestionOnce' /\ CompletedAreCounted'
    BY <1>1, <1>5, QuestionsFrame
  <1>8. outcome = "none"
    <2>1. PICK k \in Lanes : lane[k] = [at |-> "waiting", n |-> c]
      BY <1>1 DEF IndInv, ChainIsInOrder
    <2> QED BY <2>1 DEF IndInv, LanesLeaveForAReason
  <1>9. LanesLeaveForAReason'
    BY <1>1, <1>4, <1>5, <1>8 DEF IndInv, LanesLeaveForAReason
  <1>10. ChainIsInOrder'
    <2>1. chain' = chain \ {c} /\ calls' = calls \ {c}
      BY <1>1 DEF Settle
    <2>2. \A d \in chain' : \E k \in Lanes : lane'[k] = [at |-> "waiting", n |-> d]
      <3> SUFFICES ASSUME NEW d \in chain'
                   PROVE  \E k \in Lanes : lane'[k] = [at |-> "waiting", n |-> d]
        OBVIOUS
      <3>1. PICK k \in Lanes : lane[k] = [at |-> "waiting", n |-> d]
        BY <2>1 DEF IndInv, ChainIsInOrder
      <3>2. d # c
        BY <2>1
      <3>3. lane'[k] = lane[k]
        BY <1>3, <3>1, <3>2
      <3> QED BY <3>1, <3>3
    <2>3. calls' \subseteq {reported' + 1} /\ (threw' => stopped' /\ calls' = {})
      BY <1>1, <1>2, <2>1 DEF IndInv, ChainIsInOrder
    <2>4. ~stopped' => chain' = (reported' + 1)..completed' /\ reported' <= completed'
      <3> SUFFICES ASSUME ~stopped'
                   PROVE  chain' = (reported' + 1)..completed' /\ reported' <= completed'
        OBVIOUS
      <3>1. c = reported + 1 /\ reported' = c /\ chain = (reported + 1)..completed
        BY <1>1, <1>2 DEF IndInv, ChainIsInOrder
      <3> QED BY <1>1, <2>1, <3>1
    <2> QED BY <2>2, <2>3, <2>4 DEF ChainIsInOrder
  <1> QED BY <1>6, <1>7, <1>9, <1>10 DEF IndInv

LEMMA EndInv ==
    ASSUME IndInv, End
    PROVE  IndInv'
  <1>1. /\ UNCHANGED <<next, completed, stopped, lane, chain, calls, results, reported, threw>>
        /\ \A l \in Lanes : lane[l].at = "left"
        /\ outcome' = IF stopped THEN "rejected" ELSE "resolved"
    BY DEF End
  <1>2. TypeOK'
    BY <1>1 DEF IndInv, TypeOK
  <1>3. Working' = Working
    BY <1>1 DEF Working
  <1>4. EveryQuestionOnce' /\ CompletedAreCounted'
    BY <1>1, <1>3, QuestionsFrame
  <1>5. ChainIsInOrder'
    BY <1>1 DEF IndInv, ChainIsInOrder
  <1>6. LanesLeaveForAReason'
    BY <1>1, <1>3 DEF IndInv, LanesLeaveForAReason
  <1> QED BY <1>2, <1>4, <1>5, <1>6 DEF IndInv

LEMMA NextInv == IndInv /\ [Next]_vars => IndInv'
  <1> SUFFICES ASSUME IndInv, [Next]_vars PROVE IndInv'
    OBVIOUS
  <1>1. ASSUME NEW l \in Lanes, LaneStep(l) PROVE IndInv'
    BY <1>1, TakeInv, LeaveInv, AnswerInv DEF LaneStep
  <1>2. ASSUME NEW c \in 1..Questions, ChainStep(c) PROVE IndInv'
    BY <1>2, CallInv, SettleInv DEF ChainStep
  <1>3. CASE End
    BY <1>3, EndInv
  <1>4. CASE UNCHANGED vars
    BY <1>4 DEF vars, IndInv, TypeOK, EveryQuestionOnce, ChainIsInOrder, LanesLeaveForAReason,
                CompletedAreCounted, Working
  <1> QED BY <1>1, <1>2, <1>3, <1>4 DEF Next

\* The invariant that carries the others: questions, lanes and the promise chain
\* agree after every step of the event loop.
THEOREM Invariance == Spec => []IndInv
  BY InitInv, NextInv, PTL DEF Spec

\* When every lane has left a pool that did not stop, all is answered and reported.
LEMMA AllDone ==
    ASSUME IndInv, ~stopped, \A l \in Lanes : lane[l].at = "left"
    PROVE  results = 0..(Questions - 1) /\ reported = Questions
  <1>1. /\ Questions \in Nat /\ reported \in Nat /\ completed \in Nat /\ Working = {}
        /\ next = Questions
    BY PoolAssumption DEF IndInv, TypeOK, Working, LanesLeaveForAReason
  <1>2. results = 0..(Questions - 1)
    BY <1>1 DEF IndInv, EveryQuestionOnce
  <1>3. completed = Questions
    <2>1. 0 \in Int /\ Questions - 1 \in Int
      BY <1>1
    <2>2. Cardinality(0..(Questions - 1)) =
            IF 0 > Questions - 1 THEN 0 ELSE (Questions - 1) - 0 + 1
      BY <2>1, FS_Interval
    <2>3. Cardinality(0..(Questions - 1)) = Questions
      BY <1>1, <2>2
    <2> QED BY <1>2, <2>3 DEF IndInv, CompletedAreCounted
  <1>4. chain = {}
    <2>1. ASSUME NEW c \in chain PROVE FALSE
      <3>1. PICK l \in Lanes : lane[l] = [at |-> "waiting", n |-> c]
        BY <2>1 DEF IndInv, ChainIsInOrder
      <3>2. lane[l].at = "waiting"
        BY <3>1
      <3> QED BY <3>2
    <2> QED BY <2>1
  <1>5. reported <= completed /\ (reported + 1)..completed = {}
    BY <1>4 DEF IndInv, ChainIsInOrder
  <1>6. ~(reported < completed)
    <2>1. reported < completed => completed \in (reported + 1)..completed
      BY <1>1
    <2> QED BY <1>5, <2>1
  <1> QED BY <1>1, <1>2, <1>3, <1>5, <1>6

\* A pool that resolves answered and reported every question, whatever the order
\* in which its lanes finished.
THEOREM ResolvedAlwaysComplete == Spec => []ResolvedIsComplete
  <1>1. IndInv => ResolvedIsComplete
    BY AllDone DEF IndInv, ResolvedIsComplete, LanesLeaveForAReason, ChainIsInOrder
  <1> QED BY <1>1, Invariance, PTL

\* No question is answered twice or lost between two lanes.
THEOREM EveryQuestionAlwaysOnce == Spec => []EveryQuestionOnce
  <1>1. IndInv => EveryQuestionOnce
    BY DEF IndInv
  <1> QED BY <1>1, Invariance, PTL

\* Every step of the pool is a step of the promise it makes to the handler of a
\* run, or none: the reports come one by one, and none after one has thrown.
THEOREM PoolKeepsPromise == Spec => KeepsPromise
  <1>1. Init => Promise!Init
    BY DEF Init, Promise!Init
  <1>2. ASSUME IndInv, [Next]_vars PROVE [Promise!Next]_Promise!reportVars
    <2> USE DEF Promise!Next, Promise!reportVars
    <2>1. ASSUME NEW l \in Lanes, LaneStep(l) PROVE UNCHANGED <<reported, threw, outcome>>
      BY <2>1 DEF LaneStep, Take, Leave, Answer, WorkerThrows
    <2>2. ASSUME NEW c \in 1..Questions, Call(c) \/ Skip(c)
          PROVE  UNCHANGED <<reported, threw, outcome>>
      BY <2>2 DEF Call, Skip
    <2>3. ASSUME NEW c \in 1..Questions, c \in calls PROVE outcome = "none" /\ ~threw
                                                          /\ c = reported + 1
      <3>1. c \in chain /\ ~threw /\ c = reported + 1
        BY <1>2, <2>3 DEF IndInv, TypeOK, ChainIsInOrder
      <3>2. PICK l \in Lanes : lane[l] = [at |-> "waiting", n |-> c]
        BY <1>2, <3>1 DEF IndInv, ChainIsInOrder
      <3> QED BY <1>2, <3>1, <3>2 DEF IndInv, LanesLeaveForAReason
    <2>4. ASSUME NEW c \in 1..Questions, Return(c) PROVE Promise!Report
      <3>1. reported + 1 \in 1..Questions /\ reported \in Nat /\ Questions \in Nat
        BY <1>2, <2>3, <2>4, PoolAssumption DEF Return, IndInv, TypeOK
      <3> QED BY <2>3, <2>4, <3>1 DEF Return, Promise!Report
    <2>5. ASSUME NEW c \in 1..Questions, Throw(c) PROVE Promise!Throw
      BY <2>3, <2>5 DEF Throw, Promise!Throw
    <2>6. CASE End
      <3>1. CASE stopped
        BY <2>6, <3>1 DEF End, Promise!Reject
      <3>2. CASE ~stopped
        <4>1. reported = Questions /\ ~threw
          BY <1>2, <2>6, <3>2, AllDone DEF End, IndInv, ChainIsInOrder
        <4> QED BY <2>6, <3>2, <4>1 DEF End, Promise!Resolve
      <3> QED BY <3>1, <3>2
    <2>7. CASE UNCHANGED vars
      BY <2>7 DEF vars
    <2> QED BY <1>2, <2>1, <2>2, <2>4, <2>5, <2>6, <2>7 DEF Next, ChainStep
  <1> QED BY <1>1, <1>2, Invariance, PTL DEF Spec, KeepsPromise, Promise!Spec
=============================================================================
