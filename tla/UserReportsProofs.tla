-------------------------- MODULE UserReportsProofs --------------------------
(***************************************************************************)
(* What users report: that a line is disturbed (ReportHandler), and where  *)
(* they are (Activity, under Gateway).                                     *)
(*                                                                         *)
(* For any lines, voters, goroutines and connections: the evaluations keep *)
(* their types, their recursion is bounded by the votes, and no vote stays *)
(* for a line while its operator says that there is a disturbance.         *)
(*                                                                         *)
(* For any users, stations and reporters: reports of a user that overlap   *)
(* leave him in one station.                                               *)
(***************************************************************************)
EXTENDS ReportHandler, Gateway, FiniteSetTheorems, TLAPS

\* Only a loop that is about to end is past the last line.
InLoop ==
    \A g \in Evaluators : \A i \in DOMAIN stack[g] :
        stack[g][i].does # "look" => stack[g][i].at <= Len(LineOrder)

CastBefore == \A k \in DOMAIN votes : votes[k].cast <= changes[k[1]]

(***************************************************************************)
(* A vote cast since the operator said that there is a disturbance is one  *)
(* that some evaluation, also one suspended by those nested in it, still   *)
(* has to look at or has in hand to delete.                                *)
(***************************************************************************)
Since(k) == k \in Valid /\ phase[k[1]] = "official" /\ votes[k].cast = changes[k[1]]

Ahead(frame, l) ==
    \E i \in DOMAIN LineOrder :
        /\ LineOrder[i] = l
        /\ frame.at < i \/ (frame.at = i /\ frame.does \in {"begin", "look"})

WillDelete(frame, k) ==
    \/ frame.does # "command" /\ Ahead(frame, k[1])
    \/ frame.does = "clear" /\ k \in frame.keys

Attended ==
    \A k \in Keys : Since(k) =>
        \E g \in Evaluators : \E i \in DOMAIN stack[g] : WillDelete(stack[g][i], k)

IInv == TypeOK /\ InLoop /\ CastBefore /\ Attended

CInv == IsFiniteSet(Nested) /\ RecursionBounded

-----------------------------------------------------------------------------
LEMMA EvaluationFacts ==
    /\ Len(LineOrder) \in Nat /\ Len(LineOrder) > 0
    /\ DOMAIN LineOrder = 1..Len(LineOrder)
    /\ \A i \in DOMAIN LineOrder : LineOrder[i] \in Lines
    /\ Evaluation \in Frame /\ Evaluation.at = 1 /\ Evaluation.does = "begin"
    /\ Evaluation.keys = {}
BY ReportHandlerAssumption DEF Evaluation, Frame, Lines

LEMMA TopFacts ==
    ASSUME IInv, NEW g \in Evaluators, ~Idle(g)
    PROVE  /\ Top(g) \in Frame
           /\ Top(g).at \in Nat /\ 1 <= Top(g).at /\ Top(g).at <= Len(LineOrder) + 1
           /\ Top(g).does # "look" => Top(g).at <= Len(LineOrder)
<1>1. stack[g] \in Seq(Frame) /\ stack[g] # <<>>
  BY DEF IInv, TypeOK, Idle
<1>2. Top(g) = stack[g][1] /\ 1 \in DOMAIN stack[g] /\ Top(g) \in Frame
  BY <1>1 DEF Top
<1>3. Top(g).at \in 1..(Len(LineOrder) + 1)
  BY <1>2 DEF Frame
<1>. QED
  BY <1>2, <1>3, EvaluationFacts DEF IInv, InLoop

LEMMA IInvInit == Init => IInv
<1>. SUFFICES ASSUME Init
              PROVE  IInv
  OBVIOUS
<1>1. votes = <<>> /\ DOMAIN votes = {} /\ IsFiniteSet(DOMAIN votes)
  BY FS_EmptySet DEF Init
<1>2. stack \in [Evaluators -> Seq(Frame)] /\ \A g \in Evaluators : DOMAIN stack[g] = {}
  BY DEF Init
<1>3. TypeOK
  BY <1>1, <1>2, ReportHandlerAssumption DEF Init, TypeOK, Phases
<1>4. InLoop /\ CastBefore /\ Attended
  BY <1>1, <1>2 DEF InLoop, CastBefore, Attended, Since, Valid
<1>. QED
  BY <1>3, <1>4 DEF IInv

\* A new evaluation comes to every line.
LEMMA EvaluationDeletes ==
    ASSUME NEW k \in Keys
    PROVE  WillDelete(Evaluation, k)
<1>1. PICK i \in DOMAIN LineOrder : LineOrder[i] = k[1]
  BY DEF Keys, Lines
<1>2. i >= 1
  BY EvaluationFacts
<1>. QED
  BY <1>1, <1>2, EvaluationFacts DEF WillDelete, Ahead

(***************************************************************************)
(* A step of the goroutine g, which leaves frames in place of its own. If  *)
(* no vote is one of Since by it but one that a new frame deletes, and the *)
(* frames that replace its own have in hand what those had, the votes stay *)
(* attended.                                                               *)
(***************************************************************************)
LEMMA AttendedStep ==
    ASSUME IInv, NEW g \in Evaluators, NEW frames \in Seq(Frame),
           stack' = [stack EXCEPT ![g] = frames],
           \A k \in Keys : Since(k)' =>
               \/ \E j \in DOMAIN frames : WillDelete(frames[j], k)
               \/ /\ Since(k)
                  /\ \A i \in DOMAIN stack[g] : ~WillDelete(stack[g][i], k)
    PROVE  Attended'
<1>1. stack \in [Evaluators -> Seq(Frame)]
  BY DEF IInv, TypeOK
<1>2. stack'[g] = frames /\ \A h \in Evaluators \ {g} : stack'[h] = stack[h]
  BY <1>1
<1>. SUFFICES ASSUME NEW k \in Keys, Since(k)'
              PROVE  \E h \in Evaluators : \E i \in DOMAIN stack'[h] : WillDelete(stack'[h][i], k)
  BY DEF Attended, WillDelete, Ahead
<1>4. CASE \E j \in DOMAIN frames : WillDelete(frames[j], k)
  BY <1>2, <1>4
<1>5. CASE Since(k) /\ \A i \in DOMAIN stack[g] : ~WillDelete(stack[g][i], k)
  <2>1. PICK h \in Evaluators : \E i \in DOMAIN stack[h] : WillDelete(stack[h][i], k)
    BY <1>5 DEF IInv, Attended
  <2>2. h # g
    BY <1>5, <2>1
  <2>. QED
    BY <1>2, <2>1, <2>2
<1>. QED
  BY <1>4, <1>5

\* An evaluation that goes on, with another frame at the top and the votes,
\* phases and changes as they are but for the lines' own.
LEMMA SetTopStep ==
    ASSUME IInv, NEW g \in Evaluators, ~Idle(g), NEW frame \in Frame, SetTop(g, frame),
           frame.does # "look" => frame.at <= Len(LineOrder),
           UNCHANGED <<changes, votes, cast, evictions>>,
           phase' \in [Lines -> Phases], had' \subseteq Lines,
           \A l \in Lines : phase'[l] = "official" => phase[l] = "official",
           \A k \in Keys : Since(k) /\ WillDelete(Top(g), k) => WillDelete(frame, k)
    PROVE  IInv'
<1>. DEFINE rest == Tail(stack[g])
            frames == <<frame>> \o rest
<1>1. /\ stack \in [Evaluators -> Seq(Frame)] /\ stack[g] \in Seq(Frame) /\ stack[g] # <<>>
      /\ stack' = [stack EXCEPT ![g] = frames]
  BY DEF IInv, TypeOK, Idle, SetTop
<1>2. /\ rest \in Seq(Frame) /\ Len(rest) = Len(stack[g]) - 1
      /\ \A i \in 1..Len(rest) : rest[i] = stack[g][i + 1]
      /\ Len(stack[g]) \in Nat /\ Len(stack[g]) > 0 /\ DOMAIN stack[g] = 1..Len(stack[g])
      /\ Top(g) = stack[g][1]
  BY <1>1 DEF Top
<1>3. /\ frames \in Seq(Frame) /\ DOMAIN frames = DOMAIN stack[g] /\ frames[1] = frame
      /\ \A i \in DOMAIN stack[g] : i # 1 => frames[i] = stack[g][i]
  <2>1. frames \in Seq(Frame) /\ Len(frames) = Len(rest) + 1 /\ frames[1] = frame
    BY <1>2
  <2>2. \A i \in 2..Len(frames) : frames[i] = rest[i - 1]
    BY <1>2
  <2>3. ASSUME NEW i \in DOMAIN stack[g], i # 1
        PROVE  frames[i] = stack[g][i]
    <3>1. i \in 2..Len(frames) /\ i - 1 \in 1..Len(rest) /\ (i - 1) + 1 = i
      BY <1>2, <2>1, <2>3
    <3>. QED
      BY <1>2, <2>2, <3>1
  <2>. QED
    BY <1>2, <2>1, <2>3
<1>. HIDE DEF frames
<1>4. TypeOK'
  BY <1>1, <1>3 DEF IInv, TypeOK
<1>5. InLoop'
  BY <1>1, <1>3 DEF IInv, InLoop
<1>6. CastBefore'
  BY DEF IInv, CastBefore
<1>7. Attended'
  <2>1. \A k \in Keys : Since(k)' => Since(k)
    BY DEF Since, Valid, Keys
  <2>2. \A k \in Keys : Since(k) =>
            \/ \E j \in DOMAIN frames : WillDelete(frames[j], k)
            \/ \A i \in DOMAIN stack[g] : ~WillDelete(stack[g][i], k)
    BY <1>2, <1>3
  <2>. QED
    BY <1>1, <1>3, <2>1, <2>2, AttendedStep
<1>. QED
  BY <1>4, <1>5, <1>6, <1>7 DEF IInv

\* The phases that a report of the community makes.
LEMMA CommunityPhase ==
    ASSUME NEW p \in Phases, NEW isDowntime
    PROVE  /\ AfterCommunity(p, isDowntime) \in Phases
           /\ AfterCommunity(p, isDowntime) = "official" => p = "official"
BY DEF AfterCommunity, Phases

LEMMA AddReportStep ==
    ASSUME IInv, NEW g \in Goroutines, NEW k \in Keys, NEW weight \in Weights,
           AddReport(g, k, weight)
    PROVE  IInv'
<1>. DEFINE new == [weight |-> weight, left |-> Lifetime, cast |-> changes[k[1]]]
<1>1. /\ Idle(g) /\ cast < MaxVotes /\ k \notin Valid
      /\ votes' = [x \in DOMAIN votes \cup {k} |-> IF x = k THEN new ELSE votes[x]]
      /\ cast' = cast + 1
      /\ stack' = [stack EXCEPT ![g] = <<Evaluation>>]
      /\ UNCHANGED <<phase, had, changes, evictions>>
  BY DEF AddReport, Go
<1>2. k[1] \in Lines /\ changes[k[1]] \in 0..MaxChanges /\ new \in Vote
  BY ReportHandlerAssumption DEF IInv, TypeOK, Keys, Vote
<1>. HIDE DEF new
<1>3. /\ DOMAIN votes' = DOMAIN votes \cup {k}
      /\ votes'[k] = new
      /\ \A x \in DOMAIN votes \ {k} : votes'[x] = votes[x]
  BY <1>1
<1>4. /\ stack \in [Evaluators -> Seq(Frame)] /\ g \in Evaluators /\ stack[g] = <<>> /\ DOMAIN stack[g] = {}
      /\ <<Evaluation>> \in Seq(Frame) /\ DOMAIN <<Evaluation>> = {1}
  BY <1>1, EvaluationFacts DEF IInv, TypeOK, Evaluators, Idle
<1>5. TypeOK'
  <2>1. IsFiniteSet(DOMAIN votes')
    <3>1. IsFiniteSet(DOMAIN votes)
      BY DEF IInv, TypeOK
    <3>. QED
      BY <1>3, <3>1, FS_AddElement
  <2>2. DOMAIN votes' \subseteq Keys /\ \A x \in DOMAIN votes' : votes'[x] \in Vote
    BY <1>2, <1>3 DEF IInv, TypeOK
  <2>3. cast' \in 0..MaxVotes
    BY <1>1, ReportHandlerAssumption DEF IInv, TypeOK
  <2>. QED
    BY <1>1, <1>4, <2>1, <2>2, <2>3 DEF IInv, TypeOK
<1>6. InLoop'
  BY <1>1, <1>4, EvaluationFacts DEF IInv, InLoop
<1>7. CastBefore'
  <2>1. new.cast = changes[k[1]] /\ changes[k[1]] \in Int
    BY <1>2 DEF new
  <2>. QED
    BY <1>1, <1>3, <2>1 DEF IInv, CastBefore
<1>8. Attended'
  <2>1. \A x \in Keys : WillDelete(<<Evaluation>>[1], x)
    BY EvaluationDeletes
  <2>. QED
    BY <1>1, <1>4, <2>1, AttendedStep
<1>. QED
  BY <1>5, <1>6, <1>7, <1>8 DEF IInv

LEMMA ClearCommandStep ==
    ASSUME IInv, NEW g \in Goroutines, NEW l \in Lines, ClearCommand(g, l)
    PROVE  IInv'
<1>. DEFINE frame == [at |-> 1, does |-> "command", keys |-> VotesFor(l)]
<1>1. /\ Idle(g) /\ stack' = [stack EXCEPT ![g] = <<frame>>]
      /\ UNCHANGED <<phase, had, changes, votes, cast, evictions>>
  BY DEF ClearCommand
<1>2. VotesFor(l) \subseteq Keys
  BY DEF VotesFor, Valid, IInv, TypeOK
<1>3. frame \in Frame /\ frame.does = "command" /\ frame.at <= Len(LineOrder)
  <2>. HIDE DEF VotesFor
  <2>1. 1 \in 1..(Len(LineOrder) + 1) /\ 1 <= Len(LineOrder)
    BY EvaluationFacts
  <2>. QED
    BY <1>2, <2>1 DEF Frame
<1>. HIDE DEF frame
<1>4. /\ stack \in [Evaluators -> Seq(Frame)] /\ g \in Evaluators /\ stack[g] = <<>> /\ DOMAIN stack[g] = {}
      /\ <<frame>> \in Seq(Frame) /\ DOMAIN <<frame>> = {1}
  BY <1>1, <1>3 DEF IInv, TypeOK, Evaluators, Idle
<1>5. TypeOK'
  BY <1>1, <1>4 DEF IInv, TypeOK
<1>6. InLoop' /\ CastBefore'
  BY <1>1, <1>3, <1>4 DEF IInv, InLoop, CastBefore
<1>7. Attended'
  <2>1. \A k \in Keys : Since(k)' => Since(k)
    BY <1>1 DEF Since, Valid
  <2>. QED
    BY <1>1, <1>4, <2>1, AttendedStep
<1>. QED
  BY <1>5, <1>6, <1>7 DEF IInv

\* An evaluation goes from a line to the next with the line seen to: not
\* official, or cleared.
LEMMA NextLineStep ==
    ASSUME IInv, NEW g \in Evaluators, ~Idle(g), NextLine(g),
           Top(g).does \notin {"begin", "look", "command"},
           Top(g).does = "clear" => Top(g).keys = {},
           UNCHANGED <<changes, votes, cast, evictions>>,
           phase' \in [Lines -> Phases], had' \subseteq Lines,
           \A l \in Lines : phase'[l] = "official" => phase[l] = "official"
    PROVE  IInv'
<1>. DEFINE frame == [at |-> Top(g).at + 1, does |-> "look", keys |-> {}]
<1>1. Top(g) \in Frame /\ Top(g).at \in 1..Len(LineOrder)
  BY TopFacts, EvaluationFacts
<1>2. frame \in Frame /\ frame.does = "look"
  <2>1. Top(g).at + 1 \in 1..(Len(LineOrder) + 1)
    BY <1>1, EvaluationFacts
  <2>. QED
    BY <2>1 DEF Frame
<1>3. ASSUME NEW k \in Keys, WillDelete(Top(g), k)
      PROVE  WillDelete(frame, k)
  <2>1. PICK i \in DOMAIN LineOrder : LineOrder[i] = k[1] /\ Top(g).at < i
    BY <1>3 DEF WillDelete, Ahead
  <2>2. frame.at < i \/ frame.at = i
    BY <1>1, <2>1, EvaluationFacts
  <2>. QED
    BY <1>2, <2>1, <2>2 DEF WillDelete, Ahead
<1>. QED
  BY <1>2, <1>3, SetTopStep DEF NextLine

\* An evaluation stays at its line, to do something else there.
LEMMA DoStep ==
    ASSUME IInv, NEW g \in Evaluators, ~Idle(g),
           NEW what \in {"look", "count to start", "count to keep", "start", "end"},
           Do(g, what), Top(g).at <= Len(LineOrder),
           UNCHANGED <<phase, had, changes, votes, cast, evictions>>,
           Top(g).does \notin {"command", "clear"},
           Top(g).does \in {"begin", "look"} /\ what # "look" => phase[At(g)] # "official"
    PROVE  IInv'
<1>. DEFINE frame == [Top(g) EXCEPT !.does = what]
<1>1. Top(g) \in Frame
  BY TopFacts
<1>2. frame \in Frame /\ frame.does = what /\ frame.at = Top(g).at
  BY <1>1 DEF Frame
<1>3. \A k \in Keys : Since(k) /\ WillDelete(Top(g), k) => WillDelete(frame, k)
  <2>. SUFFICES ASSUME NEW k \in Keys, Since(k), WillDelete(Top(g), k)
                PROVE  WillDelete(frame, k)
    OBVIOUS
  <2>1. PICK i \in DOMAIN LineOrder :
              /\ LineOrder[i] = k[1]
              /\ Top(g).at < i \/ (Top(g).at = i /\ Top(g).does \in {"begin", "look"})
    BY DEF WillDelete, Ahead
  <2>2. CASE Top(g).at < i
    BY <1>2, <2>1, <2>2 DEF WillDelete, Ahead
  <2>3. CASE Top(g).at = i /\ what = "look"
    BY <1>2, <2>1, <2>3 DEF WillDelete, Ahead
  <2>4. CASE Top(g).at = i /\ what # "look" /\ Top(g).does \in {"begin", "look"}
    BY <2>1, <2>4 DEF Since, At
  <2>. QED
    BY <2>1, <2>2, <2>3, <2>4
<1>4. phase \in [Lines -> Phases] /\ had \subseteq Lines
  BY DEF IInv, TypeOK
<1>. HIDE DEF frame
<1>. QED
  BY <1>2, <1>3, <1>4, SetTopStep DEF Do, frame

LEMMA EvaluateStep ==
    ASSUME IInv, NEW g \in Evaluators,
           \/ BeginEvaluation(g) \/ Look(g) \/ Count(g) \/ StartDisturbance(g)
           \/ EndDisturbance(g) \/ Cleared(g)
    PROVE  IInv'
<1>1. /\ ~Idle(g) /\ Top(g) \in Frame
      /\ Top(g).at \in Nat /\ 1 <= Top(g).at
      /\ Top(g).does # "look" => Top(g).at <= Len(LineOrder)
  <2>1. ~Idle(g)
    BY DEF BeginEvaluation, Look, Count, StartDisturbance, EndDisturbance, Cleared, Does
  <2>. QED
    BY <2>1, TopFacts
<1>2. phase \in [Lines -> Phases] /\ had \subseteq Lines
  BY DEF IInv, TypeOK
<1>3. CASE BeginEvaluation(g)
  BY <1>1, <1>3, DoStep DEF BeginEvaluation, Does
<1>4. CASE Look(g)
  <2>1. /\ Top(g).does = "look" /\ Top(g).at <= Len(LineOrder)
        /\ UNCHANGED <<phase, had, changes, votes, cast, evictions>>
    BY <1>4 DEF Look, Does
  <2>2. CASE phase[At(g)] = "normal" /\ Do(g, "count to start")
    BY <1>1, <2>1, <2>2, DoStep
  <2>3. CASE phase[At(g)] = "community" /\ Do(g, "count to keep")
    BY <1>1, <2>1, <2>3, DoStep
  <2>4. ASSUME SetTop(g, [Top(g) EXCEPT !.does = "clear", !.keys = VotesFor(At(g))])
        PROVE  IInv'
    <3>. DEFINE frame == [Top(g) EXCEPT !.does = "clear", !.keys = VotesFor(At(g))]
    <3>1. VotesFor(At(g)) \subseteq Keys
      BY DEF VotesFor, Valid, IInv, TypeOK
    <3>2. /\ frame \in Frame /\ frame.does = "clear" /\ frame.at = Top(g).at
          /\ frame.keys = VotesFor(At(g))
      BY <1>1, <3>1 DEF Frame
    <3>. HIDE DEF frame
    <3>3. ASSUME NEW k \in Keys, Since(k), WillDelete(Top(g), k)
          PROVE  WillDelete(frame, k)
      <4>1. PICK i \in DOMAIN LineOrder : LineOrder[i] = k[1] /\ Top(g).at <= i
        <5>1. PICK i \in DOMAIN LineOrder :
                    LineOrder[i] = k[1] /\ (Top(g).at < i \/ Top(g).at = i)
          BY <2>1, <3>3 DEF WillDelete, Ahead
        <5>2. Top(g).at <= i
          BY <1>1, <5>1, EvaluationFacts
        <5>. QED
          BY <5>1, <5>2
      <4>2. CASE Top(g).at < i
        BY <3>2, <4>1, <4>2 DEF WillDelete, Ahead
      <4>3. CASE Top(g).at = i
        <5>1. k \in VotesFor(At(g))
          BY <3>3, <4>1, <4>3 DEF VotesFor, At, Since
        <5>. QED
          BY <3>2, <5>1 DEF WillDelete
      <4>. QED
        BY <1>1, <4>1, <4>2, <4>3, EvaluationFacts
    <3>4. SetTop(g, frame)
      BY <2>4 DEF frame
    <3>. QED
      BY <1>1, <1>2, <2>1, <3>2, <3>3, <3>4, SetTopStep
  <2>. QED
    BY <1>4, <2>2, <2>3, <2>4 DEF Look
<1>5. CASE Count(g)
  <2>1. /\ Top(g).does \in {"count to start", "count to keep"}
        /\ NextLine(g) \/ Do(g, "start") \/ Do(g, "end")
        /\ UNCHANGED <<phase, had, changes, votes, cast, evictions>>
    BY <1>5 DEF Count, Does
  <2>2. CASE NextLine(g)
    BY <1>1, <1>2, <2>1, <2>2, NextLineStep
  <2>3. ASSUME NEW what \in {"start", "end"}, Do(g, what)
        PROVE  IInv'
    BY <1>1, <2>1, <2>3, DoStep
  <2>. QED
    BY <2>1, <2>2, <2>3
<1>6. CASE StartDisturbance(g) \/ EndDisturbance(g)
  <2>1. /\ Top(g).does \in {"start", "end"} /\ NextLine(g)
        /\ UNCHANGED <<changes, votes, cast, evictions>>
    BY <1>6 DEF StartDisturbance, EndDisturbance, Does
  <2>2. At(g) \in Lines
    <3>1. Top(g).at \in DOMAIN LineOrder
      BY <1>1, <2>1, EvaluationFacts
    <3>. QED
      BY <3>1, EvaluationFacts DEF At
  <2>3. ASSUME NEW isDowntime \in BOOLEAN, ReportStatus(At(g), isDowntime)
        PROVE  /\ phase' \in [Lines -> Phases] /\ had' \subseteq Lines
               /\ \A l \in Lines : phase'[l] = "official" => phase[l] = "official"
    BY <1>2, <2>2, <2>3, CommunityPhase DEF ReportStatus
  <2>4. /\ phase' \in [Lines -> Phases] /\ had' \subseteq Lines
        /\ \A l \in Lines : phase'[l] = "official" => phase[l] = "official"
    BY <1>2, <1>6, <2>3 DEF StartDisturbance, EndDisturbance
  <2>. QED
    BY <1>1, <2>1, <2>4, NextLineStep
<1>7. CASE Cleared(g)
  BY <1>1, <1>2, <1>7, NextLineStep DEF Cleared, Does
<1>. QED
  BY <1>3, <1>4, <1>5, <1>6, <1>7

\* A vote that is no longer in the cache, or has less time, is not one of Since
\* that was not.
LEMMA FewerVotes ==
    ASSUME IInv, NEW keys,
           votes' = Without(keys), UNCHANGED <<phase, had, changes, cast>>
    PROVE  /\ DOMAIN votes' = DOMAIN votes \ keys
           /\ DOMAIN votes' \subseteq Keys /\ IsFiniteSet(DOMAIN votes')
           /\ \A k \in DOMAIN votes' : votes'[k] \in Vote
           /\ CastBefore'
           /\ \A k \in Keys : Since(k)' => Since(k) /\ k \notin keys
<1>1. /\ DOMAIN votes' = DOMAIN votes \ keys
      /\ \A k \in DOMAIN votes' : votes'[k] = votes[k]
  BY DEF Without
<1>2. /\ DOMAIN votes \subseteq Keys /\ IsFiniteSet(DOMAIN votes)
      /\ \A k \in DOMAIN votes : votes[k] \in Vote
      /\ \A k \in DOMAIN votes : votes[k].cast <= changes[k[1]]
  BY DEF IInv, TypeOK, CastBefore
<1>3. IsFiniteSet(DOMAIN votes')
  BY <1>1, <1>2, FS_Subset
<1>4. \A k \in Keys : Since(k)' => Since(k) /\ k \notin keys
  BY <1>1 DEF Since, Valid
<1>. QED
  BY <1>1, <1>2, <1>3, <1>4 DEF CastBefore

\* What is left of a stack without its top.
LEMMA TailFacts ==
    ASSUME NEW s \in Seq(Frame), s # <<>>
    PROVE  /\ Tail(s) \in Seq(Frame)
           /\ Len(s) \in Nat /\ Len(s) > 0 /\ DOMAIN s = 1..Len(s)
           /\ Len(Tail(s)) = Len(s) - 1 /\ DOMAIN Tail(s) = 1..(Len(s) - 1)
           /\ \A i \in DOMAIN Tail(s) : i + 1 \in DOMAIN s /\ Tail(s)[i] = s[i + 1]
OBVIOUS

\* A vote is deleted; if it was in the cache, its evaluation comes before the
\* deletion of the next.
LEMMA ClearVoteStep ==
    ASSUME IInv, NEW g \in Evaluators, NEW k \in Keys, ClearVote(g, k)
    PROVE  IInv'
<1>. DEFINE rest == [Top(g) EXCEPT !.keys = @ \ {k}]
            tail == Tail(stack[g])
            more == <<Evaluation, rest>> \o tail
            same == <<rest>> \o tail
            frames == IF Evicted(k) THEN more ELSE same
<1>1. /\ ~Idle(g) /\ Top(g).does \in {"clear", "command"}
      /\ votes' = Without({k})
      /\ stack' = [stack EXCEPT ![g] = (IF Evicted(k) THEN <<Evaluation, rest>> ELSE <<rest>>) \o tail]
      /\ UNCHANGED <<phase, had, changes, cast, evictions>>
  BY DEF ClearVote, Does
<1>2. stack' = [stack EXCEPT ![g] = frames]
  BY <1>1
<1>3. /\ Top(g) \in Frame /\ Top(g).at <= Len(LineOrder)
      /\ stack \in [Evaluators -> Seq(Frame)] /\ stack[g] \in Seq(Frame) /\ stack[g] # <<>>
      /\ Top(g) = stack[g][1]
  BY <1>1, TopFacts DEF IInv, TypeOK, Idle, Top
<1>4. /\ rest \in Frame /\ rest.does = Top(g).does /\ rest.at = Top(g).at
      /\ rest.keys = Top(g).keys \ {k}
  BY <1>3 DEF Frame
<1>5. /\ tail \in Seq(Frame) /\ Len(tail) \in Nat /\ DOMAIN stack[g] = 1..(Len(tail) + 1)
      /\ \A i \in 2..(Len(tail) + 1) : stack[g][i] = tail[i - 1]
  BY <1>3, TailFacts
<1>. HIDE DEF rest, tail
<1>6. /\ more \in Seq(Frame) /\ DOMAIN more = 1..(Len(tail) + 2)
      /\ more[1] = Evaluation /\ more[2] = rest
      /\ \A i \in 2..(Len(tail) + 1) : more[i + 1] = tail[i - 1]
  BY <1>4, <1>5, EvaluationFacts
<1>7. /\ same \in Seq(Frame) /\ DOMAIN same = 1..(Len(tail) + 1) /\ same[1] = rest
      /\ \A i \in 2..(Len(tail) + 1) : same[i] = tail[i - 1]
  BY <1>4, <1>5
<1>. HIDE DEF more, same
<1>8. /\ frames \in Seq(Frame)
      /\ \E j \in DOMAIN frames : frames[j] = rest
      /\ \A i \in 2..(Len(tail) + 1) : \E j \in DOMAIN frames : frames[j] = stack[g][i]
      /\ \A j \in DOMAIN frames :
             frames[j] \in {Evaluation, rest} \cup {stack[g][i] : i \in DOMAIN stack[g]}
  <2>1. CASE Evicted(k)
    <3>1. \A i \in 2..(Len(tail) + 1) : i + 1 \in DOMAIN more /\ more[i + 1] = stack[g][i]
      BY <1>5, <1>6
    <3>2. \A j \in DOMAIN more : j \in {1, 2} \/ (j - 1 \in 2..(Len(tail) + 1) /\ (j - 1) + 1 = j)
      BY <1>5, <1>6
    <3>3. \A j \in DOMAIN more :
             more[j] \in {Evaluation, rest} \cup {stack[g][i] : i \in DOMAIN stack[g]}
      <4>. TAKE j \in DOMAIN more
      <4>1. CASE j \in {1, 2}
        BY <1>6, <4>1
      <4>2. CASE j - 1 \in 2..(Len(tail) + 1) /\ (j - 1) + 1 = j
        <5>1. more[j] = stack[g][j - 1] /\ j - 1 \in DOMAIN stack[g]
          BY <1>5, <3>1, <4>2
        <5>. QED
          BY <5>1
      <4>. QED
        BY <3>2, <4>1, <4>2
    <3>4. 2 \in DOMAIN more /\ frames = more
      BY <1>5, <1>6, <2>1
    <3>5. frames \in Seq(Frame) /\ \E j \in DOMAIN frames : frames[j] = rest
      BY <1>6, <3>4
    <3>6. \A i \in 2..(Len(tail) + 1) : \E j \in DOMAIN frames : frames[j] = stack[g][i]
      BY <3>1, <3>4
    <3>. QED
      BY <3>3, <3>4, <3>5, <3>6
  <2>2. CASE ~Evicted(k)
    BY <1>5, <1>7, <2>2
  <2>. QED
    BY <2>1, <2>2
<1>. HIDE DEF frames
<1>9. TypeOK'
  <2>1. stack' \in [Evaluators -> Seq(Frame)]
    BY <1>2, <1>3, <1>8
  <2>2. /\ DOMAIN votes' \subseteq Keys /\ IsFiniteSet(DOMAIN votes')
        /\ \A x \in DOMAIN votes' : votes'[x] \in Vote
    BY <1>1, FewerVotes
  <2>. QED
    BY <1>1, <2>1, <2>2 DEF IInv, TypeOK
<1>10. InLoop'
  <2>1. \A j \in DOMAIN frames : frames[j].does # "look" => frames[j].at <= Len(LineOrder)
    BY <1>3, <1>4, <1>8, EvaluationFacts DEF IInv, InLoop
  <2>. QED
    BY <1>2, <1>3, <2>1 DEF IInv, InLoop
<1>11. CastBefore'
  BY <1>1, FewerVotes
<1>12. Attended'
  <2>1. ASSUME NEW x \in Keys, Since(x)', NEW i \in DOMAIN stack[g], WillDelete(stack[g][i], x)
        PROVE  \E j \in DOMAIN frames : WillDelete(frames[j], x)
    <3>1. x # k
      BY <1>1, <2>1, FewerVotes
    <3>2. CASE i = 1
      BY <1>3, <1>4, <1>8, <2>1, <3>1, <3>2 DEF WillDelete, Ahead
    <3>3. CASE i # 1
      BY <1>5, <1>8, <2>1, <3>3
    <3>. QED
      BY <3>2, <3>3
  <2>2. \A x \in Keys : Since(x)' => Since(x)
    BY <1>1, FewerVotes
  <2>. QED
    BY <1>2, <1>8, <2>1, <2>2, AttendedStep
<1>. QED
  BY <1>9, <1>10, <1>11, <1>12 DEF IInv

\* An evaluation that returns has passed every line.
LEMMA ReturnStep ==
    ASSUME IInv, NEW g \in Evaluators, Return(g)
    PROVE  IInv'
<1>. DEFINE frames == Tail(stack[g])
<1>1. /\ ~Idle(g) /\ stack' = [stack EXCEPT ![g] = frames]
      /\ \/ Top(g).does = "look" /\ Top(g).at > Len(LineOrder)
         \/ Top(g).does = "command"
      /\ UNCHANGED <<phase, had, changes, votes, cast, evictions>>
  BY DEF Return, Does
<1>2. /\ stack \in [Evaluators -> Seq(Frame)] /\ stack[g] \in Seq(Frame) /\ stack[g] # <<>>
      /\ Top(g) = stack[g][1]
  BY <1>1 DEF IInv, TypeOK, Idle, Top
<1>3. /\ frames \in Seq(Frame)
      /\ \A j \in DOMAIN frames : j + 1 \in DOMAIN stack[g] /\ frames[j] = stack[g][j + 1]
      /\ \A i \in DOMAIN stack[g] : i = 1 \/ (i - 1 \in DOMAIN frames /\ frames[i - 1] = stack[g][i])
  BY <1>2, TailFacts
<1>. HIDE DEF frames
<1>4. TypeOK' /\ InLoop' /\ CastBefore'
  BY <1>1, <1>2, <1>3 DEF IInv, TypeOK, InLoop, CastBefore
<1>5. \A k \in Keys : ~WillDelete(Top(g), k)
  BY <1>1, TopFacts, EvaluationFacts DEF WillDelete, Ahead
<1>6. \A k \in Keys : Since(k)' => Since(k)
  BY <1>1 DEF Since, Valid
<1>7. \A k \in Keys : (\A j \in DOMAIN frames : ~WillDelete(frames[j], k)) =>
          \A i \in DOMAIN stack[g] : ~WillDelete(stack[g][i], k)
  BY <1>2, <1>3, <1>5
<1>8. Attended'
  BY <1>1, <1>3, <1>6, <1>7, AttendedStep
<1>. QED
  BY <1>4, <1>8 DEF IInv

\* Steps that leave every evaluation where it is, and no new vote of Since.
LEMMA AttendedSame ==
    ASSUME IInv, UNCHANGED stack, \A k \in Keys : Since(k)' => Since(k)
    PROVE  Attended'
BY DEF IInv, Attended, WillDelete, Ahead

LEMMA JanitorStep ==
    ASSUME IInv, DeleteExpired \/ OnEvicted \/ Tick
    PROVE  IInv'
<1>1. CASE DeleteExpired
  <2>. DEFINE keys == DOMAIN votes \ Valid
  <2>1. /\ evictions' = Cardinality(keys) /\ votes' = Without(keys)
        /\ UNCHANGED <<phase, had, changes, cast, stack>>
    BY <1>1 DEF DeleteExpired
  <2>2. evictions' \in Nat
    <3>1. IsFiniteSet(DOMAIN votes)
      BY DEF IInv, TypeOK
    <3>2. IsFiniteSet(keys)
      BY <3>1, FS_Subset
    <3>. QED
      BY <2>1, <3>2, FS_CardinalityType
  <2>. HIDE DEF keys
  <2>3. TypeOK'
    BY <2>1, <2>2, FewerVotes DEF IInv, TypeOK
  <2>4. InLoop' /\ CastBefore'
    BY <2>1, FewerVotes DEF IInv, InLoop
  <2>5. Attended'
    BY <2>1, FewerVotes, AttendedSame
  <2>. QED
    BY <2>3, <2>4, <2>5 DEF IInv
<1>2. CASE OnEvicted
  <2>1. /\ stack[janitor] = <<>> /\ evictions > 0 /\ evictions' = evictions - 1
        /\ stack' = [stack EXCEPT ![janitor] = <<Evaluation>>]
        /\ UNCHANGED <<phase, had, changes, votes, cast>>
    BY <1>2 DEF OnEvicted, Idle
  <2>2. /\ stack \in [Evaluators -> Seq(Frame)] /\ janitor \in Evaluators
        /\ DOMAIN stack[janitor] = {}
        /\ <<Evaluation>> \in Seq(Frame) /\ DOMAIN <<Evaluation>> = {1}
    BY <2>1, EvaluationFacts DEF IInv, TypeOK, Evaluators
  <2>3. TypeOK'
    BY <2>1, <2>2 DEF IInv, TypeOK
  <2>4. InLoop' /\ CastBefore'
    BY <2>1, <2>2, EvaluationFacts DEF IInv, InLoop, CastBefore
  <2>5. \A k \in Keys : Since(k)' => Since(k)
    BY <2>1 DEF Since, Valid
  <2>6. Attended'
    BY <2>1, <2>2, <2>5, AttendedStep
  <2>. QED
    BY <2>3, <2>4, <2>6 DEF IInv
<1>3. CASE Tick
  <2>1. /\ Valid = DOMAIN votes
        /\ votes' = [k \in DOMAIN votes |-> [votes[k] EXCEPT !.left = @ - 1]]
        /\ UNCHANGED <<phase, had, changes, cast, stack, evictions>>
    BY <1>3 DEF Tick
  <2>2. /\ DOMAIN votes' = DOMAIN votes
        /\ \A k \in DOMAIN votes : /\ votes'[k] \in Vote /\ votes'[k].cast = votes[k].cast
                                   /\ votes[k].left > 0
    <3>1. \A k \in DOMAIN votes : votes[k] \in Vote /\ votes[k].left > 0
      BY <2>1 DEF IInv, TypeOK, Valid
    <3>. QED
      BY <2>1, <3>1, ReportHandlerAssumption DEF Vote
  <2>3. TypeOK'
    BY <2>1, <2>2 DEF IInv, TypeOK
  <2>4. InLoop' /\ CastBefore'
    BY <2>1, <2>2 DEF IInv, InLoop, CastBefore
  <2>5. \A k \in Keys : Since(k)' => Since(k)
    BY <2>1, <2>2 DEF Since, Valid
  <2>. QED
    BY <2>1, <2>3, <2>4, <2>5, AttendedSame DEF IInv
<1>. QED
  BY <1>1, <1>2, <1>3

\* The operator's change of mind leaves every earlier vote behind it.
LEMMA ReportsStep ==
    ASSUME IInv, NEW l \in Lines,
           OperatorReports(l) \/ \E isDowntime \in BOOLEAN : BotReports(l, isDowntime)
    PROVE  IInv'
<1>1. /\ phase \in [Lines -> Phases] /\ changes \in [Lines -> 0..MaxChanges]
      /\ \A k \in DOMAIN votes : k \in Keys /\ k[1] \in Lines /\ votes[k] \in Vote
                                 /\ votes[k].cast \in Int
      /\ \A m \in Lines : changes[m] \in Int
  BY ReportHandlerAssumption DEF IInv, TypeOK, Keys, Vote
<1>2. CASE OperatorReports(l)
  <2>1. /\ phase' = [phase EXCEPT ![l] = AfterOperator(@, @ # "official")]
        /\ had' = had \cup {l} /\ changes[l] < MaxChanges
        /\ changes' = [changes EXCEPT ![l] = @ + 1]
        /\ UNCHANGED <<votes, cast, stack, evictions>>
    BY <1>2 DEF OperatorReports
  <2>2. AfterOperator(phase[l], phase[l] # "official") \in Phases
    BY <1>1 DEF AfterOperator, Phases
  <2>3. /\ phase' \in [Lines -> Phases] /\ changes' \in [Lines -> 0..MaxChanges]
        /\ changes'[l] = changes[l] + 1
        /\ \A m \in Lines \ {l} : phase'[m] = phase[m] /\ changes'[m] = changes[m]
    BY <1>1, <2>1, <2>2, ReportHandlerAssumption
  <2>4. TypeOK'
    BY <2>1, <2>3 DEF IInv, TypeOK
  <2>5. InLoop' /\ CastBefore'
    BY <1>1, <2>1, <2>3 DEF IInv, InLoop, CastBefore
  <2>6. \A k \in Keys : Since(k)' => Since(k)
    BY <1>1, <2>1, <2>3 DEF Since, Valid, IInv, CastBefore
  <2>. QED
    BY <2>1, <2>4, <2>5, <2>6, AttendedSame DEF IInv
<1>3. ASSUME NEW isDowntime \in BOOLEAN, BotReports(l, isDowntime)
      PROVE  IInv'
  <2>1. /\ phase' = [phase EXCEPT ![l] = AfterCommunity(@, isDowntime)]
        /\ had' = had \cup {l}
        /\ UNCHANGED <<changes, votes, cast, stack, evictions>>
    BY <1>3 DEF BotReports
  <2>2. /\ phase' \in [Lines -> Phases]
        /\ \A m \in Lines : phase'[m] = "official" => phase[m] = "official"
    BY <1>1, <2>1, CommunityPhase
  <2>3. TypeOK' /\ InLoop' /\ CastBefore'
    BY <2>1, <2>2 DEF IInv, TypeOK, InLoop, CastBefore
  <2>4. \A k \in Keys : Since(k)' => Since(k)
    BY <1>1, <2>1, <2>2 DEF Since, Valid
  <2>. QED
    BY <2>1, <2>3, <2>4, AttendedSame DEF IInv
<1>. QED
  BY <1>2, <1>3

LEMMA IInvStep ==
    ASSUME IInv, [Next]_vars
    PROVE  IInv'
<1>1. CASE UNCHANGED vars
  <2>1. \A k \in Keys : Since(k)' => Since(k)
    BY <1>1 DEF vars, Since, Valid
  <2>2. UNCHANGED stack /\ TypeOK' /\ InLoop' /\ CastBefore'
    BY <1>1 DEF vars, IInv, TypeOK, InLoop, CastBefore
  <2>. QED
    BY <2>1, <2>2, AttendedSame DEF IInv
<1>. QED
  BY <1>1, AddReportStep, ClearCommandStep, EvaluateStep, ClearVoteStep, ReturnStep,
     JanitorStep, ReportsStep
  DEF Next, Evaluate

\* The inductive invariant of the evaluations.
THEOREM Invariant == Spec => []IInv
BY IInvInit, IInvStep, PTL DEF Spec

\* The cache holds votes, and the goroutines evaluations and commands, of the
\* kinds that compute/reports.go has.
THEOREM Typing == Spec => []TypeOK
<1>1. IInv => TypeOK
  BY DEF IInv
<1>. QED
  BY <1>1, Invariant, PTL

\* evaluateSituation clears the votes of a line while its disturbance is
\* official: a vote cast since then is gone once all evaluations returned,
\* however the goroutines that evaluate interleave.
THEOREM VotesCleared == Spec => []NoVotesWhileOfficial
<1>1. IInv => NoVotesWhileOfficial
  <2>. SUFFICES ASSUME IInv, Quiet, NEW k \in Valid, phase[k[1]] = "official",
                       votes[k].cast = changes[k[1]]
                PROVE  FALSE
    BY DEF NoVotesWhileOfficial
  <2>1. k \in Keys /\ Since(k)
    BY DEF Since, Valid, IInv, TypeOK
  <2>2. \A g \in Evaluators : DOMAIN stack[g] = {}
    BY DEF Quiet, Idle
  <2>. QED
    BY <2>1, <2>2 DEF IInv, Attended
<1>. QED
  BY <1>1, Invariant, PTL

-----------------------------------------------------------------------------
(***************************************************************************)
(* Counting.                                                               *)
(***************************************************************************)
\* An element more counts for one, if it is new.
LEMMA OneMore ==
    ASSUME NEW S, IsFiniteSet(S), NEW x
    PROVE  /\ IsFiniteSet(S \cup {x}) /\ Cardinality(S \cup {x}) \in Nat
           /\ Cardinality(S \cup {x}) <= Cardinality(S) + 1
<1>1. Cardinality(S) \in Nat /\ IsFiniteSet(S \cup {x})
  BY FS_CardinalityType, FS_AddElement
<1>2. Cardinality(S \cup {x}) = IF x \in S THEN Cardinality(S) ELSE Cardinality(S) + 1
  BY FS_AddElement
<1>. QED
  BY <1>1, <1>2

\* The nested evaluations are the places of the stacks above the first.
LEMMA NestedElements ==
    /\ Nested \subseteq Evaluators \X Int
    /\ \A g \in Evaluators, i \in Int : <<g, i>> \in Nested <=> i \in 2..Len(stack[g])
BY DEF Nested

LEMMA NestedSame ==
    ASSUME \A g \in Evaluators : 2..Len(stack'[g]) = 2..Len(stack[g])
    PROVE  Nested' = Nested
BY DEF Nested

LEMMA CInvInit == Init => CInv
<1>. SUFFICES ASSUME Init
              PROVE  CInv
  OBVIOUS
<1>1. \A g \in Evaluators : 2..Len(stack[g]) = {}
  BY DEF Init
<1>2. Nested = {} /\ DOMAIN votes = {}
  BY <1>1 DEF Init, Nested
<1>. QED
  BY <1>2, FS_EmptySet DEF Init, CInv, RecursionBounded

LEMMA CountFacts ==
    ASSUME IInv, CInv
    PROVE  /\ IsFiniteSet(Nested) /\ Cardinality(Nested) \in Nat
           /\ IsFiniteSet(DOMAIN votes) /\ Cardinality(DOMAIN votes) \in Nat
           /\ evictions \in Nat /\ cast \in Int
           /\ Cardinality(Nested) + evictions + Cardinality(DOMAIN votes) <= cast
           /\ stack \in [Evaluators -> Seq(Frame)]
           /\ \A g \in Evaluators : Len(stack[g]) \in Nat
BY FS_CardinalityType DEF IInv, TypeOK, CInv, RecursionBounded

\* A step of an evaluation that nests none.
LEMMA CountSetTop ==
    ASSUME IInv, CInv, NEW g \in Evaluators, ~Idle(g), NEW frame,
           SetTop(g, frame), UNCHANGED <<votes, cast, evictions>>
    PROVE  CInv'
<1>. DEFINE frames == <<frame>> \o Tail(stack[g])
<1>1. stack[g] \in Seq(Frame) /\ stack[g] # <<>>
  BY CountFacts DEF Idle
<1>2. Len(frames) = Len(stack[g])
  BY <1>1, TailFacts
<1>3. \A h \in Evaluators : 2..Len(stack'[h]) = 2..Len(stack[h])
  BY <1>2, CountFacts DEF SetTop
<1>4. Nested' = Nested
  BY <1>3, NestedSame
<1>. QED
  BY <1>4 DEF CInv, RecursionBounded

LEMMA CInvEvaluate ==
    ASSUME IInv, CInv, NEW g \in Evaluators, Evaluate(g)
    PROVE  CInv'
<1>1. CASE BeginEvaluation(g) \/ Look(g) \/ Count(g) \/ StartDisturbance(g)
           \/ EndDisturbance(g) \/ Cleared(g)
  <2>1. ~Idle(g) /\ UNCHANGED <<votes, cast, evictions>>
    BY <1>1 DEF BeginEvaluation, Look, Count, StartDisturbance, EndDisturbance, Cleared, Does
  <2>2. \E frame : SetTop(g, frame)
    BY <1>1 DEF BeginEvaluation, Look, Count, StartDisturbance, EndDisturbance, Cleared,
                NextLine, Do
  <2>. QED
    BY <2>1, <2>2, CountSetTop
<1>2. ASSUME NEW k \in Keys, ClearVote(g, k)
      PROVE  CInv'
  <2>. DEFINE rest == [Top(g) EXCEPT !.keys = @ \ {k}]
              n == Len(stack[g])
  <2>1. /\ ~Idle(g) /\ votes' = Without({k}) /\ UNCHANGED <<cast, evictions>>
        /\ stack[g] \in Seq(Frame) /\ stack[g] # <<>> /\ n \in Nat
        /\ Tail(stack[g]) \in Seq(Frame) /\ Len(Tail(stack[g])) = n - 1
    BY <1>2, CountFacts, TailFacts DEF ClearVote, Does, Idle
  <2>2. DOMAIN votes' = DOMAIN votes \ {k}
    BY <2>1 DEF Without
  <2>3. CASE Evicted(k)
    <3>. DEFINE frames == <<Evaluation, rest>> \o Tail(stack[g])
    <3>1. stack' = [stack EXCEPT ![g] = frames]
      BY <1>2, <2>3 DEF ClearVote
    <3>. HIDE DEF rest
    <3>2. Len(frames) = n + 1
      BY <2>1
    <3>. HIDE DEF frames
    <3>3. \A h \in Evaluators : Len(stack'[h]) = IF h = g THEN n + 1 ELSE Len(stack[h])
      BY <3>1, <3>2, CountFacts
    <3>4. Nested' \subseteq Nested \cup {<<g, n + 1>>}
      BY <2>1, <3>3, NestedElements, CountFacts DEF Nested
    <3>5. IsFiniteSet(Nested') /\ Cardinality(Nested') <= Cardinality(Nested) + 1
      <4>1. IsFiniteSet(Nested)
        BY CountFacts
      <4>2. /\ IsFiniteSet(Nested \cup {<<g, n + 1>>})
            /\ Cardinality(Nested \cup {<<g, n + 1>>}) \in Nat
            /\ Cardinality(Nested \cup {<<g, n + 1>>}) <= Cardinality(Nested) + 1
        BY <4>1, OneMore
      <4>3. /\ IsFiniteSet(Nested') /\ Cardinality(Nested') \in Nat
            /\ Cardinality(Nested') <= Cardinality(Nested \cup {<<g, n + 1>>})
        BY <3>4, <4>2, FS_Subset, FS_CardinalityType
      <4>. QED
        BY <4>2, <4>3, CountFacts
    <3>6. Cardinality(DOMAIN votes') = Cardinality(DOMAIN votes) - 1
      BY <2>2, <2>3, CountFacts, FS_RemoveElement DEF Evicted
    <3>7. Cardinality(Nested') \in Nat
      BY <3>5, FS_CardinalityType
    <3>. QED
      BY <2>1, <3>5, <3>6, <3>7, CountFacts DEF CInv, RecursionBounded
  <2>4. CASE ~Evicted(k)
    <3>. DEFINE frames == <<rest>> \o Tail(stack[g])
    <3>1. stack' = [stack EXCEPT ![g] = frames]
      BY <1>2, <2>4 DEF ClearVote
    <3>. HIDE DEF rest
    <3>2. Len(frames) = n
      BY <2>1
    <3>. HIDE DEF frames
    <3>3. \A h \in Evaluators : 2..Len(stack'[h]) = 2..Len(stack[h])
      BY <3>1, <3>2, CountFacts
    <3>4. Nested' = Nested /\ DOMAIN votes' = DOMAIN votes
      BY <2>2, <2>4, <3>3, NestedSame DEF Evicted
    <3>. QED
      BY <2>1, <3>4 DEF CInv, RecursionBounded
  <2>. QED
    BY <2>3, <2>4
<1>3. CASE Return(g)
  <2>1. /\ ~Idle(g) /\ UNCHANGED <<votes, cast, evictions>>
        /\ stack' = [stack EXCEPT ![g] = Tail(stack[g])]
    BY <1>3 DEF Return, Does
  <2>2. stack[g] \in Seq(Frame) /\ stack[g] # <<>> /\ Len(Tail(stack[g])) = Len(stack[g]) - 1
    BY <2>1, CountFacts, TailFacts DEF Idle
  <2>3. \A h \in Evaluators : 2..Len(stack'[h]) \subseteq 2..Len(stack[h])
    BY <2>1, <2>2, CountFacts
  <2>4. Nested' \subseteq Nested
    BY <2>3 DEF Nested
  <2>5. /\ IsFiniteSet(Nested') /\ Cardinality(Nested') \in Nat
        /\ Cardinality(Nested') <= Cardinality(Nested)
    BY <2>4, CountFacts, FS_Subset, FS_CardinalityType
  <2>. QED
    BY <2>1, <2>5, CountFacts DEF CInv, RecursionBounded
<1>. QED
  BY <1>1, <1>2, <1>3 DEF Evaluate

LEMMA CInvStep ==
    ASSUME IInv, CInv, [Next]_vars
    PROVE  CInv'
<1>1. ASSUME NEW g \in Goroutines, NEW k \in Keys, NEW weight \in Weights,
             AddReport(g, k, weight)
      PROVE  CInv'
  <2>1. /\ g \in Evaluators /\ stack[g] = <<>> /\ stack' = [stack EXCEPT ![g] = <<Evaluation>>]
        /\ cast' = cast + 1 /\ UNCHANGED evictions
        /\ DOMAIN votes' = DOMAIN votes \cup {k}
    BY <1>1 DEF AddReport, Go, Idle, Evaluators
  <2>2. \A h \in Evaluators : 2..Len(stack'[h]) = 2..Len(stack[h])
    BY <2>1, CountFacts
  <2>3. Nested' = Nested
    BY <2>2, NestedSame
  <2>4. /\ Cardinality(DOMAIN votes') <= Cardinality(DOMAIN votes) + 1
        /\ Cardinality(DOMAIN votes') \in Nat
    <3>1. IsFiniteSet(DOMAIN votes)
      BY CountFacts
    <3>. QED
      BY <2>1, <3>1, OneMore
  <2>. QED
    BY <2>1, <2>3, <2>4, CountFacts DEF CInv, RecursionBounded
<1>2. ASSUME NEW g \in Goroutines, NEW l \in Lines, ClearCommand(g, l)
      PROVE  CInv'
  <2>. DEFINE frame == [at |-> 1, does |-> "command", keys |-> VotesFor(l)]
  <2>1. /\ g \in Evaluators /\ stack[g] = <<>> /\ stack' = [stack EXCEPT ![g] = <<frame>>]
        /\ UNCHANGED <<votes, cast, evictions>>
    BY <1>2 DEF ClearCommand, Idle, Evaluators
  <2>. HIDE DEF frame
  <2>2. \A h \in Evaluators : 2..Len(stack'[h]) = 2..Len(stack[h])
    BY <2>1, CountFacts
  <2>3. Nested' = Nested
    BY <2>2, NestedSame
  <2>. QED
    BY <2>1, <2>3 DEF CInv, RecursionBounded
<1>3. CASE DeleteExpired
  <2>. DEFINE keys == DOMAIN votes \ Valid
  <2>1. /\ evictions = 0 /\ evictions' = Cardinality(keys)
        /\ DOMAIN votes' = DOMAIN votes \ keys
        /\ UNCHANGED <<cast, stack>>
    BY <1>3 DEF DeleteExpired, Without
  <2>2. /\ Cardinality(DOMAIN votes') = Cardinality(DOMAIN votes) - Cardinality(keys)
        /\ Cardinality(keys) \in Nat
    <3>1. (DOMAIN votes) \cap keys = keys
      OBVIOUS
    <3>2. IsFiniteSet(keys)
      BY CountFacts, FS_Subset
    <3>. HIDE DEF keys
    <3>. QED
      BY <2>1, <3>1, <3>2, CountFacts, FS_Difference, FS_CardinalityType
  <2>3. Nested' = Nested
    BY <2>1, NestedSame
  <2>. HIDE DEF keys
  <2>. QED
    BY <2>1, <2>2, <2>3, CountFacts DEF CInv, RecursionBounded
<1>4. CASE OnEvicted
  <2>1. /\ stack[janitor] = <<>> /\ evictions > 0 /\ evictions' = evictions - 1
        /\ stack' = [stack EXCEPT ![janitor] = <<Evaluation>>]
        /\ UNCHANGED <<votes, cast>>
    BY <1>4 DEF OnEvicted, Idle
  <2>2. \A h \in Evaluators : 2..Len(stack'[h]) = 2..Len(stack[h])
    BY <2>1, CountFacts
  <2>3. Nested' = Nested
    BY <2>2, NestedSame
  <2>. QED
    BY <2>1, <2>3, CountFacts DEF CInv, RecursionBounded
<1>5. CASE \/ Tick \/ \E l \in Lines : OperatorReports(l)
           \/ \E l \in Lines, isDowntime \in BOOLEAN : BotReports(l, isDowntime)
           \/ UNCHANGED vars
  <2>1. DOMAIN votes' = DOMAIN votes /\ UNCHANGED <<cast, stack, evictions>>
    BY <1>5 DEF Tick, OperatorReports, BotReports, vars
  <2>2. Nested' = Nested
    BY <2>1, NestedSame
  <2>. QED
    BY <2>1, <2>2 DEF CInv, RecursionBounded
<1>. QED
  BY <1>1, <1>2, <1>3, <1>4, <1>5, CInvEvaluate DEF Next

\* evaluateSituation, ClearVotesForLine and OnEvicted call each other no deeper
\* than there were votes cast, whatever the goroutines that do so.
THEOREM RecursionIsBounded == Spec => []RecursionBounded
<1>1. CInv => RecursionBounded
  BY DEF CInv
<1>2. IInv /\ CInv /\ [Next]_vars => CInv'
  BY CInvStep
<1>. QED
  BY <1>1, <1>2, CInvInit, Invariant, PTL DEF Spec

-----------------------------------------------------------------------------
(***************************************************************************)
(* Where users are.                                                        *)
(***************************************************************************)
ActivityTypeOK ==
    /\ activityPerNetwork \in [Users -> Nat]
    /\ activityPerLine \in [ServedLines -> [Users -> Nat]]
    /\ DOMAIN report = Reporters

\* A report deletes nothing before it has set all.
SetsFirst ==
    \A r \in Reporters :
        \/ report[r] = NoReport
        \/ /\ DOMAIN report[r] = {"user", "at", "stay", "sets", "deletes"}
           /\ report[r].user \in Users /\ report[r].at \in Stations /\ report[r].stay \in Nat
           /\ report[r].deletes \subseteq ServedLines
           /\ report[r].sets # <<>> => report[r].deletes = ServedLines \ Range(report[r].at)

Sets(u) == \E r \in Reporters : report[r].user = u /\ report[r].sets # <<>>

\* A report of u at s will delete him from l.
Deletes(u, s, l) ==
    \E r \in Reporters : report[r].user = u /\ report[r].at = s /\ l \in report[r].deletes

(***************************************************************************)
(* Once no report of a user has anything to set, one of them was the last  *)
(* to set: what is not in its station it will delete.                      *)
(***************************************************************************)
LastSetter(u) ==
    Sets(u) \/ \E s \in Stations : \A l \in ServedLines :
                   UserInLine(l, u) => l \in Range(s) \/ Deletes(u, s, l)

ActivityInv == ActivityTypeOK /\ SetsFirst /\ \A u \in Users : LastSetter(u)

-----------------------------------------------------------------------------
\* A reporter that has nothing to do for a user changes nothing for him.
LEMMA NotHisReport ==
    ASSUME NEW u \in Users, LastSetter(u), NEW r \in Reporters,
           report[r].user # u \/ (report[r].sets = <<>> /\ report[r].deletes = {}),
           \A q \in Reporters : q # r => report'[q] = report[q],
           \A l \in ServedLines : UserInLine(l, u)' => UserInLine(l, u)
    PROVE  LastSetter(u)'
<1>1. CASE Sets(u)
  BY <1>1 DEF Sets, LastSetter
<1>2. CASE \E s \in Stations : \A l \in ServedLines :
               UserInLine(l, u) => l \in Range(s) \/ Deletes(u, s, l)
  <2>1. PICK s \in Stations : \A l \in ServedLines :
               UserInLine(l, u) => l \in Range(s) \/ Deletes(u, s, l)
    BY <1>2
  <2>2. \A l \in ServedLines : Deletes(u, s, l) => Deletes(u, s, l)'
    BY DEF Deletes
  <2>. QED
    BY <2>1, <2>2 DEF LastSetter
<1>. QED
  BY <1>1, <1>2 DEF LastSetter

LEMMA NoReportFields ==
    NoReport.sets = <<>> /\ NoReport.deletes = {}
BY DEF NoReport

\* What is left of a report is that of the same user at the same station, or
\* nothing.
LEMMA RemainingFacts ==
    ASSUME NEW rest
    PROVE  /\ Remaining(rest).sets = rest.sets /\ Remaining(rest).deletes = rest.deletes
           /\ rest.sets # <<>> \/ rest.deletes # {} => Remaining(rest) = rest
           /\ Remaining(rest) \in {rest, NoReport}
BY NoReportFields DEF Remaining

LEMMA ActivityInvInit == GatewayInit => ActivityInv
<1>. SUFFICES ASSUME GatewayInit
              PROVE  ActivityInv
  OBVIOUS
<1>1. ActivityTypeOK /\ SetsFirst
  BY DEF GatewayInit, ActivityInit, ActivityTypeOK, SetsFirst
<1>2. \A u \in Users, l \in ServedLines : ~UserInLine(l, u)
  BY DEF GatewayInit, ActivityInit, UserInLine
<1>. QED
  BY <1>1, <1>2, ActivityAssumption DEF ActivityInv, LastSetter

LEMMA ActivityInvBegin ==
    ASSUME ActivityInv, NEW r \in Reporters, NEW v \in Users, NEW s \in Stations, NEW entered \in BOOLEAN,
           BeginReport(r, v, s, entered)
    PROVE  ActivityInv'
<1>. DEFINE doing == [user |-> v, at |-> s, stay |-> ExpectedDuration(s, entered),
                      sets |-> FlattenSeq([i \in DOMAIN s |-> <<s[i], "network">>]),
                      deletes |-> ServedLines \ Range(s)]
<1>1. /\ report[r] = NoReport /\ report' = [report EXCEPT ![r] = doing]
      /\ UNCHANGED <<activityPerNetwork, activityPerLine>> /\ DOMAIN report = Reporters
  BY DEF BeginReport, ActivityInv, ActivityTypeOK
<1>2. /\ DOMAIN doing = {"user", "at", "stay", "sets", "deletes"}
      /\ doing.user = v /\ doing.at = s /\ doing.stay \in Nat
      /\ doing.deletes = ServedLines \ Range(s)
  BY ActivityAssumption DEF ExpectedDuration
<1>. HIDE DEF doing
<1>3. /\ DOMAIN report' = Reporters /\ report'[r] = doing
      /\ \A q \in Reporters : q # r => report'[q] = report[q]
  BY <1>1
<1>4. ActivityTypeOK'
  BY <1>1, <1>3 DEF ActivityInv, ActivityTypeOK
<1>5. SetsFirst'
  BY <1>2, <1>3 DEF ActivityInv, SetsFirst
<1>6. ASSUME NEW u \in Users
      PROVE  LastSetter(u)'
  BY <1>1, <1>3, NoReportFields, NotHisReport DEF ActivityInv, UserInLine
<1>. QED
  BY <1>4, <1>5, <1>6 DEF ActivityInv

LEMMA ActivityInvSet ==
    ASSUME ActivityInv, NEW r \in Reporters, SetActivity(r)
    PROVE  ActivityInv'
<1>1. PICK doing : doing = report[r]
  OBVIOUS
<1>2. /\ doing.sets # <<>>
      /\ DOMAIN doing = {"user", "at", "stay", "sets", "deletes"}
      /\ doing.user \in Users /\ doing.at \in Stations /\ doing.stay \in Nat
      /\ doing.deletes = ServedLines \ Range(doing.at)
  BY <1>1, NoReportFields DEF SetActivity, ActivityInv, SetsFirst
<1>3. PICK rest : rest = [report[r] EXCEPT !.sets = Tail(@)]
  OBVIOUS
<1>4. /\ DOMAIN rest = {"user", "at", "stay", "sets", "deletes"}
      /\ rest.user = doing.user /\ rest.at = doing.at /\ rest.stay = doing.stay
      /\ rest.deletes = doing.deletes
  BY <1>1, <1>2, <1>3
<1>5. /\ report' = [report EXCEPT ![r] = Remaining(rest)] /\ DOMAIN report = Reporters
      /\ activityPerNetwork \in [Users -> Nat] /\ activityPerLine \in [ServedLines -> [Users -> Nat]]
  <2>1. report' = [report EXCEPT ![r] = Remaining([report[r] EXCEPT !.sets = Tail(@)])]
    BY DEF SetActivity
  <2>. QED
    BY <1>3, <2>1 DEF ActivityInv, ActivityTypeOK
<1>6. /\ DOMAIN report' = Reporters /\ report'[r] = Remaining(rest)
      /\ \A q \in Reporters : q # r => report'[q] = report[q]
  BY <1>5
<1>7. \/ UNCHANGED activityPerLine
         /\ activityPerNetwork' = [activityPerNetwork EXCEPT ![doing.user] = doing.stay]
      \/ \E into : activityPerLine' = [activityPerLine EXCEPT ![into][doing.user] = doing.stay]
                   /\ UNCHANGED activityPerNetwork
  BY <1>1 DEF SetActivity
<1>8. /\ activityPerNetwork' \in [Users -> Nat] /\ activityPerLine' \in [ServedLines -> [Users -> Nat]]
      /\ \A l \in ServedLines, u \in Users : u # doing.user => activityPerLine'[l][u] = activityPerLine[l][u]
  <2>1. CASE UNCHANGED activityPerLine
             /\ activityPerNetwork' = [activityPerNetwork EXCEPT ![doing.user] = doing.stay]
    BY <1>2, <1>5, <2>1
  <2>2. ASSUME NEW into, UNCHANGED activityPerNetwork,
               activityPerLine' = [activityPerLine EXCEPT ![into][doing.user] = doing.stay]
        PROVE  /\ activityPerNetwork' \in [Users -> Nat] /\ activityPerLine' \in [ServedLines -> [Users -> Nat]]
               /\ \A l \in ServedLines, u \in Users :
                      u # doing.user => activityPerLine'[l][u] = activityPerLine[l][u]
    BY <1>2, <1>5, <2>2
  <2>. QED
    BY <1>7, <2>1, <2>2
<1>9. ActivityTypeOK'
  BY <1>6, <1>8 DEF ActivityTypeOK
<1>10. SetsFirst'
  BY <1>2, <1>4, <1>6, RemainingFacts DEF ActivityInv, SetsFirst
<1>11. ASSUME NEW u \in Users
       PROVE  LastSetter(u)'
  <2>1. CASE u # doing.user
    BY <1>1, <1>6, <1>8, <2>1, NotHisReport DEF ActivityInv, UserInLine
  <2>2. CASE u = doing.user /\ rest.sets # <<>>
    BY <1>4, <1>6, <2>2, RemainingFacts DEF LastSetter, Sets
  <2>3. CASE u = doing.user /\ rest.sets = <<>>
    <3>1. ASSUME NEW l \in ServedLines, l \notin Range(doing.at)
          PROVE  Deletes(u, doing.at, l)'
      <4>1. l \in rest.deletes
        BY <1>2, <1>4, <3>1
      <4>2. report'[r] = rest
        BY <1>6, <4>1, RemainingFacts
      <4>. QED
        BY <1>4, <2>3, <4>1, <4>2 DEF Deletes
    <3>. QED
      BY <1>2, <3>1 DEF LastSetter
  <2>. QED
    BY <2>1, <2>2, <2>3
<1>. QED
  BY <1>9, <1>10, <1>11 DEF ActivityInv

LEMMA ActivityInvDelete ==
    ASSUME ActivityInv, NEW r \in Reporters, DeleteActivity(r)
    PROVE  ActivityInv'
<1>1. PICK doing : doing = report[r]
  OBVIOUS
<1>2. PICK l \in doing.deletes :
          /\ activityPerLine' = [activityPerLine EXCEPT ![l][doing.user] = 0]
          /\ report' = [report EXCEPT ![r] = Remaining([report[r] EXCEPT !.deletes = @ \ {l}])]
  <2>1. \E l \in report[r].deletes :
            /\ activityPerLine' = [activityPerLine EXCEPT ![l][report[r].user] = 0]
            /\ report' = [report EXCEPT ![r] = Remaining([report[r] EXCEPT !.deletes = @ \ {l}])]
    BY DEF DeleteActivity
  <2>. QED
    BY <1>1, <2>1
<1>3. /\ doing.sets = <<>> /\ UNCHANGED activityPerNetwork
      /\ DOMAIN doing = {"user", "at", "stay", "sets", "deletes"}
      /\ doing.user \in Users /\ doing.at \in Stations /\ doing.stay \in Nat
      /\ doing.deletes \subseteq ServedLines
  BY <1>1, <1>2, NoReportFields DEF DeleteActivity, ActivityInv, SetsFirst
<1>4. PICK rest : rest = [report[r] EXCEPT !.deletes = @ \ {l}]
  OBVIOUS
<1>5. /\ DOMAIN rest = {"user", "at", "stay", "sets", "deletes"}
      /\ rest.user = doing.user /\ rest.at = doing.at /\ rest.stay = doing.stay
      /\ rest.sets = <<>> /\ rest.deletes = doing.deletes \ {l}
  BY <1>1, <1>3, <1>4
<1>6. /\ DOMAIN report = Reporters /\ activityPerNetwork \in [Users -> Nat]
      /\ activityPerLine \in [ServedLines -> [Users -> Nat]] /\ l \in ServedLines
  BY <1>2, <1>3 DEF ActivityInv, ActivityTypeOK
<1>7. /\ DOMAIN report' = Reporters /\ report'[r] = Remaining(rest)
      /\ \A q \in Reporters : q # r => report'[q] = report[q]
  BY <1>2, <1>4, <1>6
<1>8. /\ activityPerLine' \in [ServedLines -> [Users -> Nat]] /\ activityPerLine'[l][doing.user] = 0
      /\ \A k \in ServedLines, u \in Users :
             k # l \/ u # doing.user => activityPerLine'[k][u] = activityPerLine[k][u]
  BY <1>2, <1>3, <1>6
<1>9. ActivityTypeOK'
  BY <1>3, <1>6, <1>7, <1>8 DEF ActivityTypeOK
<1>10. SetsFirst'
  BY <1>3, <1>5, <1>7, RemainingFacts DEF ActivityInv, SetsFirst
<1>11. ASSUME NEW u \in Users
       PROVE  LastSetter(u)'
  <2>1. CASE u # doing.user
    BY <1>1, <1>7, <1>8, <2>1, NotHisReport DEF ActivityInv, UserInLine
  <2>2. CASE u = doing.user /\ Sets(u)
    <3>1. PICK q \in Reporters : report[q].user = u /\ report[q].sets # <<>>
      BY <2>2 DEF Sets
    <3>. QED
      BY <1>1, <1>3, <1>7, <3>1 DEF LastSetter, Sets
  <2>3. CASE u = doing.user /\ ~Sets(u)
    <3>1. PICK s \in Stations : \A k \in ServedLines :
              UserInLine(k, u) => k \in Range(s) \/ Deletes(u, s, k)
      BY <2>3 DEF ActivityInv, LastSetter
    <3>2. ASSUME NEW k \in ServedLines, UserInLine(k, u)', k \notin Range(s)
          PROVE  Deletes(u, s, k)'
      <4>1. k # l /\ UserInLine(k, u)
        BY <1>8, <2>3, <3>2 DEF UserInLine
      <4>2. PICK q \in Reporters : report[q].user = u /\ report[q].at = s /\ k \in report[q].deletes
        BY <3>1, <3>2, <4>1 DEF Deletes
      <4>3. CASE q # r
        BY <1>7, <4>2, <4>3 DEF Deletes
      <4>4. CASE q = r
        <5>1. k \in rest.deletes /\ rest.user = u /\ rest.at = s
          BY <1>1, <1>5, <4>1, <4>2, <4>4
        <5>2. report'[r] = rest
          BY <1>7, <5>1, RemainingFacts
        <5>. QED
          BY <5>1, <5>2 DEF Deletes
      <4>. QED
        BY <4>3, <4>4
    <3>. QED
      BY <3>2 DEF LastSetter
  <2>. QED
    BY <2>1, <2>2, <2>3
<1>. QED
  BY <1>9, <1>10, <1>11 DEF ActivityInv

LEMMA ActivityInvTick ==
    ASSUME ActivityInv, ActivityTick
    PROVE  ActivityInv'
<1>1. /\ activityPerNetwork' = [u \in Users |-> LessTime(activityPerNetwork[u])]
      /\ activityPerLine' = [l \in ServedLines |-> [u \in Users |-> LessTime(activityPerLine[l][u])]]
      /\ UNCHANGED report
      /\ activityPerNetwork \in [Users -> Nat] /\ activityPerLine \in [ServedLines -> [Users -> Nat]]
  BY DEF ActivityTick, ActivityInv, ActivityTypeOK
<1>2. \A left \in Nat : LessTime(left) \in Nat /\ (LessTime(left) > 0 => left > 0)
  BY DEF LessTime
<1>3. ActivityTypeOK' /\ SetsFirst'
  BY <1>1, <1>2 DEF ActivityInv, ActivityTypeOK, SetsFirst
<1>4. \A l \in ServedLines, u \in Users : UserInLine(l, u)' => UserInLine(l, u)
  BY <1>1, <1>2 DEF UserInLine
<1>5. ASSUME NEW u \in Users
      PROVE  LastSetter(u)'
  <2>1. /\ Sets(u)' <=> Sets(u)
        /\ \A s \in Stations, l \in ServedLines : Deletes(u, s, l)' <=> Deletes(u, s, l)
    BY <1>1 DEF Sets, Deletes
  <2>. QED
    BY <1>4, <2>1 DEF ActivityInv, LastSetter
<1>. QED
  BY <1>3, <1>5 DEF ActivityInv

\* The broker's clients, the loop and the arrivals do not touch activity.
LEMMA ActivityInvStill ==
    ASSUME ActivityInv, UNCHANGED activityVars
    PROVE  ActivityInv'
BY DEF ActivityInv, ActivityTypeOK, SetsFirst, LastSetter, Sets, Deletes, UserInLine, activityVars

LEMMA ActivityInvRestart ==
    ASSUME ActivityRestart
    PROVE  ActivityInv'
<1>1. ActivityTypeOK' /\ SetsFirst'
  BY DEF ActivityRestart, ActivityTypeOK, SetsFirst
<1>2. \A u \in Users, l \in ServedLines : ~UserInLine(l, u)'
  BY DEF ActivityRestart, UserInLine
<1>3. \A u \in Users : LastSetter(u)'
  BY <1>2, ActivityAssumption DEF LastSetter
<1>. QED
  BY <1>1, <1>3 DEF ActivityInv

LEMMA ActivityInvNext == ActivityInv /\ [GatewayNext]_allVars => ActivityInv'
<1>. SUFFICES ASSUME ActivityInv, [GatewayNext]_allVars
              PROVE  ActivityInv'
  OBVIOUS
<1>1. ASSUME NEW c \in Clients,
             \/ OnConnect(c) \/ ClientGoesAway(c) \/ OnClose(c)
             \/ OnPublishElsewhere(c)
             \/ \E t \in Topics : OnSubscribe(c, t)
      PROVE  ActivityInv'
  BY <1>1, ActivityInvStill DEF OnConnect, ClientGoesAway, OnClose, OnPublishElsewhere, OnSubscribe
<1>2. ASSUME NEW c \in Clients, NEW s \in Stations, NEW entered \in BOOLEAN, OnPublish(c, s, entered)
      PROVE  ActivityInv'
  <2>1. CASE Kind[c] = "pair"
    BY <1>2, <2>1, ActivityInvBegin, GatewayAssumption DEF OnPublish
  <2>2. CASE Kind[c] # "pair"
    BY <1>2, <2>2, ActivityInvStill DEF OnPublish
  <2>. QED
    BY <2>1, <2>2
<1>3. ASSUME NEW r \in Web, NEW u \in Users, NEW s \in Stations, NEW entered \in BOOLEAN,
             PostLocation(r, u, s, entered)
      PROVE  ActivityInv'
  BY <1>3, ActivityInvBegin, GatewayAssumption DEF PostLocation
<1>4. ASSUME NEW r \in Reporters, Report(r)
      PROVE  ActivityInv'
  BY <1>4, ActivityInvSet, ActivityInvDelete DEF Report, RegisterActivity
<1>5. ASSUME NEW a \in Availabilities, SetETAAvailability(a)
      PROVE  ActivityInv'
  BY <1>5, ActivityInvStill DEF SetETAAvailability
<1>6. CASE LoopTick \/ CheckClient
  BY <1>6, ActivityInvStill, ActivityInvRestart DEF LoopTick, CheckClient, GatewayRestart
<1>7. CASE GatewayTick
  BY <1>7, ActivityInvTick DEF GatewayTick
<1>8. CASE UNCHANGED allVars
  BY <1>8, ActivityInvStill DEF allVars
<1>. QED
  BY <1>1, <1>2, <1>3, <1>4, <1>5, <1>6, <1>7, <1>8 DEF GatewayNext

\* What reports that overlap still have to do, in every reachable state.
THEOREM ActivityInvariant == GatewaySpec => []ActivityInv
BY ActivityInvInit, ActivityInvNext, PTL DEF GatewaySpec

\* A user none of whose reports is under way is in lines of one station only,
\* however many of his reports overlapped and whatever order they deleted in.
THEOREM OneStation == GatewaySpec => []InOneStation
<1>1. ASSUME ActivityInv, NEW u \in Users, Unreported(u)
      PROVE  \E s \in Stations : \A l \in ServedLines : UserInLine(l, u) => l \in Range(s)
  BY <1>1 DEF ActivityInv, LastSetter, Sets, Deletes, Unreported
<1>2. ActivityInv => InOneStation
  BY <1>1 DEF InOneStation
<1>. QED
  BY <1>2, ActivityInvariant, PTL

=============================================================================
