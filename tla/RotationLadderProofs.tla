------------------------ MODULE RotationLadderProofs ------------------------
(***************************************************************************)
(* What the rotation ladder guarantees for every fleet, every request and  *)
(* every retry budget: where a request may be sent, that an account it     *)
(* gave up on stays behind, and that the answers about an unreachable      *)
(* upstream are true.                                                      *)
(*                                                                         *)
(* The invariant ties the benched set to why each account is in it.  Three *)
(* operations take accounts out of `tried` again, and each is safe only    *)
(* because of what the others put in: the hold benched accounts the scope  *)
(* had not, a park is never an account given up on, and while history      *)
(* holds the request nothing but the bound account is ever parked.         *)
(***************************************************************************)
EXTENDS RotationLadder, FiniteSetTheorems, TLAPS

(* Why each account is benched, and where the next attempt may go.         *)
Walls ==
    /\ Accounts \ req.scope \subseteq tried
    /\ boundTo # NoAccount => Accounts \ {boundTo} \subseteq tried
    /\ boundTo # NoAccount => parked \subseteq {boundTo}
    /\ heldOut \subseteq (req.scope \cap tried) \ (parked \cup gaveUp)
    /\ heldOut # {} => boundTo # NoAccount
    /\ parked \subseteq (req.scope \cap tried) \ gaveUp
    /\ gaveUp \subseteq tried

(* A named next account, and the account of the attempt, are permitted,    *)
(* not benched, and the bound account while there is one.                  *)
Aimed(a) ==
    /\ a \in Permitted \ tried
    /\ boundTo # NoAccount => a = boundTo

Aims ==
    /\ nextIdx # NoAccount => pc \in {"select", "done"} /\ Aimed(nextIdx)
    /\ pc = "send" => Aimed(idx)
    /\ pc = "start" =>
          boundTo = NoAccount /\ parked = {} /\ gaveUp = {} /\ heldOut = {}

(* The tally is true to what happened, and an answer ends the request.     *)
Truths ==
    /\ tally.unknown <=> "midflight" \in fates
    /\ tally.answers # {} <=> "answered" \in fates
    /\ pc # "done" => answer = "none"
    /\ CarryIsTheOnlyCopy
    /\ UnreachableIsTrue
    /\ answer = "borrowed" =>
          req.members = Accounts /\ req.lock = NoAccount /\ boundTo = NoAccount

IndInv == TypeOK /\ Walls /\ Aims /\ Truths

LEMMA BudgetType == MaxAttempts \in Nat
<1>1. Cardinality(Accounts) \in Nat
  BY FleetAssumption, FS_CardinalityType
<1>2. MaxSendsPerAccount \in Nat
  BY BudgetAssumption DEF MaxSendsPerAccount
<1> QED BY <1>1, <1>2, BudgetAssumption DEF MaxAttempts

(* The fields of a request.                                                *)
LEMMA RequestType ==
    ASSUME TypeOK
    PROVE  /\ req.scope \subseteq Accounts /\ req.members \subseteq Accounts
           /\ req.lock \in Accounts \cup {NoAccount}
           /\ req.history \in Accounts \cup {NoAccount}
           /\ req.strict \in BOOLEAN
           /\ ~req.strict => req.members = Accounts
BY RequestAssumption DEF TypeOK, RequestShapes

(* Whatever selection returns is permitted and not benched.                *)
LEMMA SelectableIsPermitted ==
    ASSUME TypeOK, NEW benched, Accounts \ req.scope \subseteq benched,
           NEW a \in Selectable(benched)
    PROVE  a \in Permitted \ benched
<1>1. req.members \subseteq Accounts
  BY RequestType
<1>2. a \in req.members \ benched /\ (req.lock = a \/ req.lock = NoAccount)
  BY DEF Selectable
<1> QED BY <1>1, <1>2 DEF Permitted

LEMMA VerdictType == Verdict \in Verdicts \cup {"none"}
BY DEF Verdict, Verdicts, BadGateway

(* An unreachable verdict is told only of an empty tally.                  *)
LEMMA VerdictIsTrue ==
    /\ Verdict \in {"bad502", "safe503"} => tally.answers = {}
    /\ Verdict = "safe503" => ~tally.unknown
    /\ Verdict \notin {"borrowed", "carried", "carryLost"}
BY DEF Verdict, BadGateway, EveryAttemptTransportFailed

LEMMA InitInv == Init => IndInv
<1> SUFFICES ASSUME Init PROVE IndInv
  OBVIOUS
<1>1. TypeOK
  <2>1. spent \in SpentTypes
    BY BudgetAssumption DEF Init, NothingSpent, SpentTypes
  <2>2. tally \in TallyTypes
    BY DEF Init, TallyTypes
  <2>3. gate \in [Accounts -> Gates]
    BY RequestAssumption DEF Init
  <2> QED BY <2>1, <2>2, <2>3, BudgetType, BudgetAssumption DEF Init, TypeOK, Answers
<1>2. Walls /\ Aims /\ Truths
  BY DEF Init, Walls, Aims, Truths, CarryIsTheOnlyCopy, UnreachableIsTrue
<1> QED BY <1>1, <1>2 DEF IndInv

(***************************************************************************)
(* The type invariant.                                                     *)
(***************************************************************************)
(* Spending any budget within its bound keeps the budgets' type.           *)
LEMMA SpentType ==
    ASSUME TypeOK, NEW a \in Accounts
    PROVE  /\ [spent EXCEPT !.softWait = TRUE] \in SpentTypes
           /\ [spent EXCEPT !.peerEgress = TRUE] \in SpentTypes
           /\ [spent EXCEPT !.forced401 = @ \cup {a}] \in SpentTypes
           /\ spent.r429[a] < Retries429 => [spent EXCEPT !.r429[a] = @ + 1] \in SpentTypes
           /\ spent.r529[a] < Retries529 => [spent EXCEPT !.r529[a] = @ + 1] \in SpentTypes
           /\ spent.transport[a] < TransportRetries =>
                 [spent EXCEPT !.transport[a] = @ + 1] \in SpentTypes
           /\ spent.failovers < Failovers => [spent EXCEPT !.failovers = @ + 1] \in SpentTypes
<1> USE BudgetAssumption DEF TypeOK, SpentTypes
<1>1. [spent EXCEPT !.softWait = TRUE] \in SpentTypes
  OBVIOUS
<1>2. [spent EXCEPT !.peerEgress = TRUE] \in SpentTypes
  OBVIOUS
<1>3. [spent EXCEPT !.forced401 = @ \cup {a}] \in SpentTypes
  OBVIOUS
<1>4. spent.r429[a] < Retries429 => [spent EXCEPT !.r429[a] = @ + 1] \in SpentTypes
  OBVIOUS
<1>5. spent.r529[a] < Retries529 => [spent EXCEPT !.r529[a] = @ + 1] \in SpentTypes
  OBVIOUS
<1>6. spent.transport[a] < TransportRetries =>
         [spent EXCEPT !.transport[a] = @ + 1] \in SpentTypes
  OBVIOUS
<1>7. spent.failovers < Failovers => [spent EXCEPT !.failovers = @ + 1] \in SpentTypes
  OBVIOUS
<1> QED BY <1>1, <1>2, <1>3, <1>4, <1>5, <1>6, <1>7

LEMMA CarryType ==
    ASSUME TypeOK, NEW kind
    PROVE  /\ AfterCarry(kind) \in SpentTypes
           /\ spent.offline < OfflineWaits =>
                 [AfterCarry(kind) EXCEPT !.offline = @ + 1] \in SpentTypes
<1>1. AfterCarry(kind) \in SpentTypes /\ AfterCarry(kind).offline = spent.offline
  BY DEF TypeOK, SpentTypes, AfterCarry
<1> QED BY <1>1, BudgetAssumption DEF SpentTypes

LEMMA TallyType ==
    ASSUME TypeOK, NEW kind \in AnswerKinds
    PROVE  /\ [tally EXCEPT !.failed = TRUE] \in TallyTypes
           /\ [tally EXCEPT !.failed = TRUE, !.offline = TRUE] \in TallyTypes
           /\ [tally EXCEPT !.failed = TRUE, !.unknown = TRUE] \in TallyTypes
           /\ [tally EXCEPT !.answers = @ \cup {kind}] \in TallyTypes
BY DEF TypeOK, TallyTypes

LEMMA GateType ==
    ASSUME TypeOK, NEW a \in Accounts
    PROVE  /\ Refreshed(a) \subseteq [Accounts -> Gates]
           /\ \A g \in Gates : Armed(a, g) \subseteq [Accounts -> Gates]
           /\ \A g \in Gates : [gate EXCEPT ![a] = g] \in [Accounts -> Gates]
BY DEF TypeOK, Refreshed, Armed, Gates

LEMMA SelectableType ==
    ASSUME TypeOK, NEW benched
    PROVE  Selectable(benched) \subseteq Accounts
BY RequestType DEF Selectable

LEMMA ServeType ==
    ASSUME TypeOK, Looping, NEW a \in Accounts, Serve(a), nextIdx' \in {nextIdx, NoAccount}
    PROVE  TypeOK'
BY BudgetType DEF TypeOK, Looping, Serve, history

LEMMA BeginType == ASSUME TypeOK, Begin PROVE TypeOK'
<1>1. CASE StartFree
  BY <1>1 DEF StartFree, TypeOK, ladder, history
<1>2. CASE StartHeld
  BY <1>2, RequestType DEF StartHeld, TypeOK, history
<1>3. CASE StartReleased
  BY <1>3 DEF StartReleased, TypeOK, history
<1>4. CASE StartWarned
  BY <1>4 DEF StartWarned, Reply, TypeOK, Answers, ladder, history
<1> QED BY <1>1, <1>2, <1>3, <1>4 DEF Begin

LEMMA ChooseType == ASSUME TypeOK, Choose PROVE TypeOK'
<1>1. CASE TakeNext
  BY <1>1, ServeType DEF TakeNext, TypeOK
<1>2. CASE Select
  BY <1>2, ServeType, SelectableType DEF Select
<1>3. CASE AnswerVerdict
  BY <1>3, VerdictType DEF AnswerVerdict, Reply, TypeOK, Answers, ladder, history
<1>4. CASE SoftWait
  <2>1. spent' \in SpentTypes
    BY <1>4, BudgetAssumption DEF SoftWait, TypeOK, SpentTypes
  <2> QED BY <1>4, <2>1, BudgetType DEF SoftWait, NothingSelectable, Looping, TypeOK, history
<1>5. CASE Wake
  <2>1. gate' \in [Accounts -> Gates]
    BY <1>5 DEF Wake, TypeOK, Gates
  <2> QED BY <1>5, <2>1 DEF Wake, ReadmitExpiredParks, TypeOK, history
<1>6. CASE WarnMidRequest
  BY <1>6 DEF WarnMidRequest, Reply, TypeOK, Answers, ladder, history
<1>7. CASE ReleaseMidRequest
  BY <1>7, BudgetType DEF ReleaseMidRequest, BoundWentOut, LastResort, NothingSelectable,
     Looping, ReleaseHold, TypeOK, history
<1>8. CASE ServeBound
  BY <1>8, ServeType, RequestType DEF ServeBound, SelectBound, LastResort, NothingSelectable
<1>9. CASE Revalidate
  BY <1>9, ServeType DEF Revalidate, Revalidatable, LastResort, NothingSelectable
<1>10. CASE Exhausted
  BY <1>10 DEF Exhausted, Reply, TypeOK, Answers, ladder, history
<1>11. CASE BudgetSpent
  BY <1>11, VerdictType DEF BudgetSpent, Reply, TypeOK, Answers, ladder, history
<1> QED BY <1>1, <1>2, <1>3, <1>4, <1>5, <1>6, <1>7, <1>8, <1>9, <1>10, <1>11 DEF Choose

(* The effect of a move of the ladder on the types.                        *)
LEMMA MoveType ==
    ASSUME TypeOK, pc = "send",
           gate' \in [Accounts -> Gates], spent' \in SpentTypes, tally' \in TallyTypes,
           fates' \subseteq {"midflight", "answered"}, Steady,
           \/ Bench(idx) /\ UNCHANGED answer
           \/ Park(idx) /\ UNCHANGED answer
           \/ RetrySame(idx) /\ UNCHANGED answer
           \/ (\E other \in Accounts : FailOver529(idx, other)) /\ UNCHANGED answer
           \/ (\E a \in Answers : Reply(a)) /\ StayOnLadder
    PROVE  TypeOK'
BY DEF TypeOK, Steady, Bench, Park, RetrySame, FailOver529, Reply, StayOnLadder, NextIteration

LEMMA TransportType == ASSUME TypeOK, TransportStep PROVE TypeOK'
<1>0. pc = "send" /\ idx \in Accounts
  BY DEF TransportStep, Unusable, PinnedExit, FailOffline, FailConnect, FailMidflight, Carry,
     Attempting, TypeOK
<1>1. /\ gate \in [Accounts -> Gates] /\ spent \in SpentTypes /\ tally \in TallyTypes
      /\ fates \subseteq {"midflight", "answered"}
  BY DEF TypeOK
<1>2. CASE Unusable
  BY <1>0, <1>1, <1>2, GateType, MoveType DEF Unusable, Gates
<1>3. CASE PinnedExit
  BY <1>0, <1>1, <1>3, MoveType DEF PinnedExit, Answers
<1>4. CASE FailOffline
  <2>1. spent' \in SpentTypes
    BY <1>4, CarryType DEF FailOffline
  <2>2. tally' \in TallyTypes
    BY <1>4, TallyType DEF FailOffline, AnswerKinds
  <2> QED BY <1>0, <1>1, <1>4, <2>1, <2>2, MoveType DEF FailOffline, Answers, Verdicts
<1>5. CASE FailConnect
  <2>1. spent' \in SpentTypes
    BY <1>5, CarryType DEF FailConnect
  <2>2. tally' \in TallyTypes
    BY <1>5, TallyType DEF FailConnect, AnswerKinds
  <2> QED BY <1>0, <1>1, <1>5, <2>1, <2>2, MoveType DEF FailConnect
<1>6. CASE FailMidflight
  <2>1. spent' \in SpentTypes
    BY <1>0, <1>1, <1>6, SpentType DEF FailMidflight, TransportRetryLeft
  <2>2. tally' \in TallyTypes
    BY <1>6, TallyType DEF FailMidflight, AnswerKinds
  <2> QED BY <1>0, <1>1, <1>6, <2>1, <2>2, MoveType DEF FailMidflight
<1>7. ASSUME NEW kind \in {"connect", "offline"}, Carry(kind) PROVE TypeOK'
  <2>1. spent' \in SpentTypes
    BY <1>0, <1>7, SpentType DEF Carry
  <2>2. tally' \in TallyTypes
    BY <1>7, TallyType DEF Carry, AnswerKinds
  <2> QED BY <1>0, <1>1, <1>7, <2>1, <2>2, MoveType DEF Carry, Answers
<1> QED BY <1>2, <1>3, <1>4, <1>5, <1>6, <1>7 DEF TransportStep

LEMMA AnsweredType ==
    ASSUME TypeOK, NEW kind \in AnswerKinds, Answered(kind)
    PROVE  tally' \in TallyTypes /\ fates' \subseteq {"midflight", "answered"}
BY TallyType DEF Answered, TypeOK

LEMMA AnswerType == ASSUME TypeOK, AnswerStep PROVE TypeOK'
<1>0. pc = "send" /\ idx \in Accounts
  BY DEF AnswerStep, Answer401, Answer403, Forward403, QuotaRejected429, Transient429,
     RequestScoped429, Overloaded529, ModelRefused, Forward, Attempting, TypeOK
<1>1. /\ gate \in [Accounts -> Gates] /\ spent \in SpentTypes
      /\ {"other", "refused", "blocked", "unread", "model"} \subseteq AnswerKinds
      /\ {"hold", "refused", "long", "out"} \subseteq Gates
      /\ "forwarded" \in Answers
  BY DEF TypeOK, AnswerKinds, Gates, Answers
<1>2. CASE Answer401
  BY <1>0, <1>1, <1>2, AnsweredType, GateType, SpentType, MoveType DEF Answer401
<1>3. CASE Answer403
  BY <1>0, <1>1, <1>3, AnsweredType, GateType, MoveType DEF Answer403
<1>4. CASE Forward403
  BY <1>0, <1>1, <1>4, AnsweredType, GateType, MoveType DEF Forward403
<1>5. CASE QuotaRejected429
  BY <1>0, <1>1, <1>5, AnsweredType, GateType, MoveType DEF QuotaRejected429
<1>6. CASE Transient429
  BY <1>0, <1>1, <1>6, AnsweredType, GateType, SpentType, MoveType DEF Transient429
<1>7. CASE RequestScoped429
  BY <1>0, <1>1, <1>7, AnsweredType, MoveType DEF RequestScoped429
<1>8. CASE Overloaded529
  BY <1>0, <1>1, <1>8, AnsweredType, GateType, SpentType, SelectableType, MoveType
     DEF Overloaded529
<1>9. CASE ModelRefused
  BY <1>0, <1>1, <1>9, AnsweredType, GateType, MoveType DEF ModelRefused
<1>10. CASE Forward
  BY <1>0, <1>1, <1>10, AnsweredType, GateType, MoveType DEF Forward
<1> QED BY <1>2, <1>3, <1>4, <1>5, <1>6, <1>7, <1>8, <1>9, <1>10 DEF AnswerStep

(* Every variable keeps its type and every counter its budget.             *)
LEMMA TypeStep == ASSUME TypeOK, [Next]_vars PROVE TypeOK'
<1>1. CASE GateMoves
  <2>1. gate' \in [Accounts -> Gates] /\ env' \in 0 .. EnvBound
    BY <1>1, BudgetAssumption DEF GateMoves, TypeOK
  <2> QED BY <1>1, <2>1 DEF GateMoves, TypeOK, ladder, history
<1>2. CASE UNCHANGED vars
  BY <1>2 DEF TypeOK, vars, ladder, history
<1> QED BY <1>1, <1>2, BeginType, ChooseType, TransportType, AnswerType DEF Next, Done

(***************************************************************************)
(* The ladder: Walls and Aims.                                             *)
(***************************************************************************)
Ladder == Walls /\ Aims

(* A step that moves nothing of the ladder keeps it, once the attempt and  *)
(* the start are over.                                                     *)
LEMMA StillLadder ==
    ASSUME TypeOK, Ladder,
           UNCHANGED <<req, boundTo, tried, heldOut, parked, nextIdx, gaveUp>>,
           \/ UNCHANGED <<pc, idx>>
           \/ pc' \in {"done", "wait"} /\ nextIdx = NoAccount
           \/ pc = "start" /\ pc' = "select"
    PROVE  Ladder'
BY DEF Ladder, Walls, Aims, Aimed, Permitted

(* At an attempt nothing else is named for the next one.                   *)
LEMMA NothingNamed ==
    ASSUME TypeOK, Ladder, pc \notin {"select", "done"}
    PROVE  nextIdx = NoAccount
BY DEF Ladder, Aims

LEMMA ServeLadder ==
    ASSUME TypeOK, Ladder, NEW a, Aimed(a), Serve(a), nextIdx' = NoAccount
    PROVE  Ladder'
BY DEF Ladder, Walls, Aims, Aimed, Permitted, Serve, history

(* The moves that end an attempt: what they bench is the account they      *)
(* attempted, and nothing else.                                            *)
LEMMA MoveLadder ==
    ASSUME TypeOK, Ladder, pc = "send", Steady, UNCHANGED <<heldOut>>,
           \/ Bench(idx)
           \/ Park(idx)
           \/ RetrySame(idx)
           \/ \E other \in Selectable(tried \cup {idx}) : FailOver529(idx, other)
           \/ (\E a \in Answers : Reply(a)) /\ StayOnLadder
    PROVE  Ladder'
<1>0. nextIdx = NoAccount /\ Aimed(idx) /\ idx \in Accounts
  BY NothingNamed DEF Ladder, Aims, TypeOK
<1>1. CASE Bench(idx)
  BY <1>0, <1>1 DEF Bench, NextIteration, Steady, Ladder, Walls, Aims, Aimed, Permitted
<1>2. CASE Park(idx)
  BY <1>0, <1>2 DEF Park, NextIteration, Steady, Ladder, Walls, Aims, Aimed, Permitted
<1>3. CASE RetrySame(idx)
  BY <1>0, <1>3 DEF RetrySame, NextIteration, Steady, Ladder, Walls, Aims, Aimed, Permitted
<1>4. ASSUME NEW other \in Selectable(tried \cup {idx}), FailOver529(idx, other)
      PROVE  Ladder'
  <2>1. other \in Permitted \ (tried \cup {idx})
    BY SelectableIsPermitted DEF Ladder, Walls
  <2>2. boundTo = NoAccount
    BY <1>0, <2>1, RequestType DEF Aimed, Ladder, Walls, Permitted
  <2> QED BY <1>0, <1>4, <2>1, <2>2
          DEF FailOver529, NextIteration, Steady, Ladder, Walls, Aims, Aimed, Permitted
<1>5. CASE (\E a \in Answers : Reply(a)) /\ StayOnLadder
  BY <1>0, <1>5, StillLadder DEF Reply, StayOnLadder, Steady
<1> QED BY <1>1, <1>2, <1>3, <1>4, <1>5

(* A release to a sibling names a permitted account or none.               *)
LEMMA SiblingIsAimed ==
    ASSUME TypeOK, NEW bound, NEW benched, Accounts \ req.scope \subseteq benched,
           NEW sibling, SameOrgRelease(bound, benched, sibling), sibling # NoAccount
    PROVE  sibling \in Permitted \ benched
<1>1. sibling \in Selectable(benched \cup {bound})
  BY DEF SameOrgRelease
<1>2. Accounts \ req.scope \subseteq benched \cup {bound}
  OBVIOUS
<1> QED BY <1>1, <1>2, SelectableIsPermitted

LEMMA BeginLadder == ASSUME TypeOK, Ladder, Begin PROVE Ladder'
<1>0. pc = "start" /\ nextIdx = NoAccount
  BY NothingNamed DEF Begin, StartFree, StartHeld, StartReleased, StartWarned
<1>1. CASE StartFree
  BY <1>0, <1>1, StillLadder DEF StartFree, ladder, history
<1>2. CASE StartHeld
  BY <1>0, <1>2, RequestType DEF StartHeld, Ladder, Walls, Aims, Aimed, Permitted, history
<1>3. CASE StartReleased
  <2>1. PICK sibling \in Accounts \cup {NoAccount} :
           SameOrgRelease(req.history, tried, sibling) /\ nextIdx' = sibling
    BY <1>3 DEF StartReleased
  <2>2. sibling # NoAccount => sibling \in Permitted \ tried
    BY <2>1, SiblingIsAimed DEF Ladder, Walls
  <2> QED BY <1>0, <1>3, <2>1, <2>2
          DEF StartReleased, Ladder, Walls, Aims, Aimed, Permitted, history
<1>4. CASE StartWarned
  BY <1>0, <1>4, StillLadder DEF StartWarned, Reply, ladder, history
<1> QED BY <1>1, <1>2, <1>3, <1>4 DEF Begin

LEMMA ChooseLadder == ASSUME TypeOK, Ladder, Choose PROVE Ladder'
<1>1. CASE TakeNext
  BY <1>1, ServeLadder DEF TakeNext, Ladder, Aims
<1>2. CASE Select
  <2>1. PICK a \in Selectable(tried) : Serve(a)
    BY <1>2 DEF Select
  <2>2. a \in Permitted \ tried
    BY SelectableIsPermitted DEF Ladder, Walls
  <2>3. Aimed(a)
    BY <2>2, RequestType DEF Aimed, Permitted, Ladder, Walls
  <2> QED BY <1>2, <2>1, <2>3, ServeLadder DEF Select
<1>3. CASE AnswerVerdict
  BY <1>3, StillLadder DEF AnswerVerdict, NothingSelectable, Reply, ladder, history
<1>4. CASE SoftWait
  BY <1>4, StillLadder DEF SoftWait, NothingSelectable, history
<1>5. CASE Wake
  <2>1. PICK freed \in SUBSET parked : ReadmitExpiredParks(freed)
    BY <1>5 DEF Wake
  <2>2. nextIdx = NoAccount
    BY <1>5, NothingNamed DEF Wake
  <2> QED BY <1>5, <2>1, <2>2
          DEF Wake, ReadmitExpiredParks, Ladder, Walls, Aims, Aimed, Permitted, history
<1>6. CASE WarnMidRequest
  BY <1>6, StillLadder DEF WarnMidRequest, BoundWentOut, LastResort, NothingSelectable, Reply,
     ladder, history
<1>7. CASE ReleaseMidRequest
  <2>1. PICK sibling \in Accounts \cup {NoAccount} :
           SameOrgRelease(boundTo, tried', sibling) /\ nextIdx' = sibling
    BY <1>7 DEF ReleaseMidRequest
  <2>2. Accounts \ req.scope \subseteq tried'
    BY <1>7 DEF ReleaseMidRequest, ReleaseHold, Ladder, Walls
  <2>3. sibling # NoAccount => sibling \in Permitted \ tried'
    BY <2>1, <2>2, SiblingIsAimed
  <2>4. Walls'
    BY <1>7, <2>2 DEF ReleaseMidRequest, ReleaseHold, Ladder, Walls, history
  <2> QED BY <1>7, <2>1, <2>3, <2>4
          DEF ReleaseMidRequest, BoundWentOut, LastResort, NothingSelectable, Looping,
              ReleaseHold, Ladder, Aims, Aimed, Permitted, history
<1>8. CASE ServeBound
  <2>1. PICK a \in SelectBound : Serve(a)
    BY <1>8 DEF ServeBound
  <2>2. a = boundTo /\ a \in req.members \ tried /\ req.lock = NoAccount
    BY <1>8, <2>1 DEF ServeBound, SelectBound
  <2>3. Aimed(a)
    BY <2>2, RequestType DEF Aimed, Permitted, Ladder, Walls
  <2> QED BY <1>8, <2>1, <2>3, ServeLadder DEF ServeBound, LastResort, NothingSelectable
<1>9. CASE Revalidate
  <2>1. PICK a \in Revalidatable : Serve(a)
    BY <1>9 DEF Revalidate
  <2>2. a \in Accounts \ tried /\ ~req.strict /\ req.lock = NoAccount /\ boundTo = NoAccount
    BY <1>9, <2>1 DEF Revalidate, Revalidatable
  <2>3. Aimed(a)
    BY <2>2, RequestType DEF Aimed, Permitted, Ladder, Walls
  <2> QED BY <1>9, <2>1, <2>3, ServeLadder DEF Revalidate, LastResort, NothingSelectable
<1>10. CASE Exhausted
  BY <1>10, StillLadder DEF Exhausted, LastResort, NothingSelectable, Reply, ladder, history
<1>11. CASE BudgetSpent
  BY <1>11 DEF BudgetSpent, Reply, Ladder, Walls, Aims, Aimed, Permitted, ladder, history
<1> QED BY <1>1, <1>2, <1>3, <1>4, <1>5, <1>6, <1>7, <1>8, <1>9, <1>10, <1>11 DEF Choose

LEMMA TransportLadder == ASSUME TypeOK, Ladder, TransportStep PROVE Ladder'
<1>0. pc = "send"
  BY DEF TransportStep, Unusable, PinnedExit, FailOffline, FailConnect, FailMidflight, Carry,
     Attempting
<1>1. CASE Unusable
  BY <1>0, <1>1, MoveLadder DEF Unusable, Bench
<1>2. CASE PinnedExit
  BY <1>0, <1>2, MoveLadder DEF PinnedExit, StayOnLadder, Answers
<1>3. CASE FailOffline
  BY <1>0, <1>3, MoveLadder DEF FailOffline, RetrySame, StayOnLadder, Answers, Verdicts
<1>4. CASE FailConnect
  BY <1>0, <1>4, MoveLadder DEF FailConnect, Bench
<1>5. CASE FailMidflight
  BY <1>0, <1>5, MoveLadder DEF FailMidflight, RetrySame, Bench
<1>6. ASSUME NEW kind \in {"connect", "offline"}, Carry(kind) PROVE Ladder'
  BY <1>0, <1>6, MoveLadder DEF Carry, StayOnLadder, Answers
<1> QED BY <1>1, <1>2, <1>3, <1>4, <1>5, <1>6 DEF TransportStep

LEMMA AnswerLadder == ASSUME TypeOK, Ladder, AnswerStep PROVE Ladder'
<1>0. pc = "send" /\ "forwarded" \in Answers
  BY DEF AnswerStep, Answer401, Answer403, Forward403, QuotaRejected429, Transient429,
     RequestScoped429, Overloaded529, ModelRefused, Forward, Attempting, Answers
<1>1. CASE Answer401
  BY <1>0, <1>1, MoveLadder DEF Answer401, Bench, RetrySame
<1>2. CASE Answer403
  BY <1>0, <1>2, MoveLadder DEF Answer403, Bench
<1>3. CASE Forward403
  BY <1>0, <1>3, MoveLadder DEF Forward403, StayOnLadder
<1>4. CASE QuotaRejected429
  BY <1>0, <1>4, MoveLadder DEF QuotaRejected429, Bench
<1>5. CASE Transient429
  BY <1>0, <1>5, MoveLadder DEF Transient429, RetrySame, Park
<1>6. CASE RequestScoped429
  BY <1>0, <1>6, MoveLadder DEF RequestScoped429, StayOnLadder
<1>7. CASE Overloaded529
  BY <1>0, <1>7, MoveLadder DEF Overloaded529, RetrySame, FailOver529, StayOnLadder
<1>8. CASE ModelRefused
  BY <1>0, <1>8, MoveLadder DEF ModelRefused, Bench
<1>9. CASE Forward
  BY <1>0, <1>9, MoveLadder DEF Forward, StayOnLadder
<1> QED BY <1>1, <1>2, <1>3, <1>4, <1>5, <1>6, <1>7, <1>8, <1>9 DEF AnswerStep

LEMMA LadderStep == ASSUME TypeOK, Ladder, [Next]_vars PROVE Ladder'
<1>1. CASE GateMoves
  BY <1>1, StillLadder DEF GateMoves, ladder, history
<1>2. CASE UNCHANGED vars
  BY <1>2, StillLadder DEF vars, ladder, history
<1> QED BY <1>1, <1>2, BeginLadder, ChooseLadder, TransportLadder, AnswerLadder DEF Next, Done

(***************************************************************************)
(* The answers: Truths.                                                    *)
(***************************************************************************)
(* A step that neither answers the client nor learns of the request's fate.*)
LEMMA StillTruths ==
    ASSUME Truths, pc # "done", UNCHANGED <<tally, fates, answer>>
    PROVE  Truths'
BY DEF Truths, CarryIsTheOnlyCopy, UnreachableIsTrue

(* A step that tells the client nothing about its fate upstream.           *)
LEMMA QuietTruths ==
    ASSUME Truths, pc # "done",
           tally'.unknown <=> "midflight" \in fates',
           tally'.answers # {} <=> "answered" \in fates',
           \/ UNCHANGED answer
           \/ /\ pc' = "done"
              /\ answer' \in {"offline503", "pinned", "warning", "exhausted", "forwarded"}
    PROVE  Truths'
BY DEF Truths, CarryIsTheOnlyCopy, UnreachableIsTrue

(* The verdict of the tally is true to the request's fate.                 *)
LEMMA VerdictTruths ==
    ASSUME TypeOK, Truths, pc # "done", UNCHANGED <<tally, fates>>,
           Reply(IF Verdict = "none" THEN "exhausted" ELSE Verdict)
    PROVE  Truths'
<1>1. fates \subseteq {"midflight", "answered"}
  BY DEF TypeOK
<1>2. CASE Verdict = "none"
  BY <1>2, QuietTruths DEF Reply, Truths
<1>3. CASE Verdict # "none"
  <2>1. answer' = Verdict /\ pc' = "done"
    BY <1>3 DEF Reply
  <2>2. Verdict \in {"bad502", "safe503"} => "answered" \notin fates
    BY VerdictIsTrue DEF Truths
  <2>3. Verdict = "safe503" => fates = {}
    BY <1>1, <2>2, VerdictIsTrue DEF Truths
  <2> QED BY <2>1, <2>2, <2>3, VerdictIsTrue DEF Truths, CarryIsTheOnlyCopy, UnreachableIsTrue
<1> QED BY <1>2, <1>3

LEMMA BeginTruths == ASSUME TypeOK, Truths, Begin PROVE Truths'
<1>1. CASE StartFree \/ StartHeld \/ StartReleased
  BY <1>1, StillTruths DEF StartFree, StartHeld, StartReleased, history
<1>2. CASE StartWarned
  BY <1>2, QuietTruths DEF StartWarned, Reply, Truths, history
<1> QED BY <1>1, <1>2 DEF Begin

LEMMA ChooseTruths == ASSUME TypeOK, Truths, Choose PROVE Truths'
<1>1. CASE TakeNext \/ Select \/ ServeBound \/ Revalidate
  BY <1>1, StillTruths DEF TakeNext, Select, ServeBound, Revalidate, LastResort,
     NothingSelectable, Looping, Serve, history
<1>2. CASE SoftWait \/ Wake \/ ReleaseMidRequest
  BY <1>2, StillTruths DEF SoftWait, Wake, ReleaseMidRequest, BoundWentOut, LastResort,
     NothingSelectable, Looping, history
<1>3. CASE AnswerVerdict \/ BudgetSpent
  BY <1>3, VerdictTruths DEF AnswerVerdict, BudgetSpent, NothingSelectable, Looping, history
<1>4. CASE WarnMidRequest
  BY <1>4, QuietTruths DEF WarnMidRequest, BoundWentOut, LastResort, NothingSelectable,
     Looping, Reply, Truths, history
<1>5. CASE Exhausted
  <2>1. PICK a \in {"exhausted"} \cup (IF MayBorrow THEN {"borrowed"} ELSE {}) : Reply(a)
    BY <1>5 DEF Exhausted
  <2>2. pc # "done" /\ UNCHANGED <<req, boundTo, tally, fates>>
    BY <1>5 DEF Exhausted, LastResort, NothingSelectable, Looping, history
  <2>3. CASE a = "exhausted"
    BY <2>1, <2>2, <2>3, QuietTruths DEF Reply, Truths
  <2>4. CASE a = "borrowed" /\ MayBorrow
    BY <2>1, <2>2, <2>4, RequestType
       DEF MayBorrow, Reply, Truths, CarryIsTheOnlyCopy, UnreachableIsTrue
  <2> QED BY <2>3, <2>4
<1> QED BY <1>1, <1>2, <1>3, <1>4, <1>5 DEF Choose

LEMMA TransportTruths == ASSUME TypeOK, Truths, TransportStep PROVE Truths'
<1>0. pc = "send" /\ tally \in TallyTypes /\ fates \subseteq {"midflight", "answered"}
  BY DEF TransportStep, Unusable, PinnedExit, FailOffline, FailConnect, FailMidflight, Carry,
     Attempting, TypeOK
<1>1. CASE Unusable
  BY <1>0, <1>1, StillTruths DEF Unusable
<1>2. CASE PinnedExit
  BY <1>0, <1>2, QuietTruths DEF PinnedExit, Reply, Truths
<1>3. CASE FailOffline
  <2>1. tally'.unknown = tally.unknown /\ tally'.answers = tally.answers /\ fates' = fates
    BY <1>0, <1>3 DEF FailOffline, TallyTypes
  <2>2. UNCHANGED answer \/ (pc' = "done" /\ answer' = "offline503")
    BY <1>3 DEF FailOffline, Reply
  <2> QED BY <1>0, <2>1, <2>2, QuietTruths DEF Truths
<1>4. CASE FailConnect
  <2>1. tally'.unknown = tally.unknown /\ tally'.answers = tally.answers /\ fates' = fates
    BY <1>0, <1>4 DEF FailConnect, TallyTypes
  <2> QED BY <1>0, <1>4, <2>1, QuietTruths DEF FailConnect, Truths
<1>5. CASE FailMidflight
  <2>1. tally'.unknown /\ tally'.answers = tally.answers /\ fates' = fates \cup {"midflight"}
    BY <1>0, <1>5 DEF FailMidflight, TallyTypes
  <2> QED BY <1>0, <1>5, <2>1, QuietTruths DEF FailMidflight, Truths
<1>6. ASSUME NEW kind \in {"connect", "offline"}, Carry(kind) PROVE Truths'
  <2>1. ~tally.unknown /\ tally.answers = {}
    BY <1>6 DEF Carry, CarryOffered
  <2>2. fates = {}
    BY <1>0, <2>1 DEF Truths
  <2>3. tally'.unknown = tally.unknown /\ tally'.answers = tally.answers /\ fates' = fates
    BY <1>0, <1>6 DEF Carry, TallyTypes
  <2>4. pc' = "done" /\ answer' \in {"carried", "carryLost"}
    BY <1>6 DEF Carry, Reply
  <2> QED BY <2>1, <2>2, <2>3, <2>4 DEF Truths, CarryIsTheOnlyCopy, UnreachableIsTrue
<1> QED BY <1>1, <1>2, <1>3, <1>4, <1>5, <1>6 DEF TransportStep

(* An upstream answer is counted and remembered together.                  *)
LEMMA AnsweredTruths ==
    ASSUME TypeOK, Truths, NEW kind, Answered(kind)
    PROVE  /\ tally'.unknown <=> "midflight" \in fates'
           /\ tally'.answers # {} <=> "answered" \in fates'
<1>1. tally'.unknown = tally.unknown /\ tally'.answers = tally.answers \cup {kind}
  BY DEF Answered, TypeOK, TallyTypes
<1>2. fates' = fates \cup {"answered"}
  BY DEF Answered
<1> QED BY <1>1, <1>2 DEF Truths

LEMMA AnswerTruths == ASSUME TypeOK, Truths, AnswerStep PROVE Truths'
<1>1. pc = "send"
  BY DEF AnswerStep, Answer401, Answer403, Forward403, QuotaRejected429, Transient429,
     RequestScoped429, Overloaded529, ModelRefused, Forward, Attempting
<1>2. PICK kind \in AnswerKinds : Answered(kind)
  BY DEF AnswerStep, Answer401, Answer403, Forward403, QuotaRejected429, Transient429,
     RequestScoped429, Overloaded529, ModelRefused, Forward, AnswerKinds
<1>3. UNCHANGED answer \/ (pc' = "done" /\ answer' = "forwarded")
  BY DEF AnswerStep, Answer401, Answer403, Forward403, QuotaRejected429, Transient429,
     RequestScoped429, Overloaded529, ModelRefused, Forward, Reply
<1> QED BY <1>1, <1>2, <1>3, AnsweredTruths, QuietTruths

LEMMA TruthsStep == ASSUME TypeOK, Truths, [Next]_vars PROVE Truths'
<1>1. CASE GateMoves
  BY <1>1, StillTruths DEF GateMoves, history
<1>2. CASE UNCHANGED vars
  BY <1>2 DEF vars, history, Truths, CarryIsTheOnlyCopy, UnreachableIsTrue
<1> QED BY <1>1, <1>2, BeginTruths, ChooseTruths, TransportTruths, AnswerTruths DEF Next, Done

(***************************************************************************)
(* The theorems.                                                           *)
(***************************************************************************)

(* The inductive invariant: types and budgets, why each account is benched *)
(* (`Ladder`), and a tally true to what happened (`Tally`).                *)
THEOREM LadderInvariant == Spec => []IndInv
<1>1. ASSUME IndInv, [Next]_vars PROVE IndInv'
  BY <1>1, TypeStep, LadderStep, TruthsStep DEF IndInv, Ladder
<1> QED BY InitInv, <1>1, PTL DEF Spec

(* Every attempt of a request goes where its lease, its strict group, the  *)
(* lock and its bound history all allow, whichever of `select_with_group`, *)
(* the 529 failover, a release, `select_bound` or `select_revalidation`    *)
(* chose the account; and a peer serves it only when nothing restricts it. *)
THEOREM SendsArePermitted == Spec => []OnlyPermitted
<1>1. IndInv => OnlyPermitted
  BY DEF IndInv, Aims, Aimed, Truths, OnlyPermitted
<1> QED BY LadderInvariant, <1>1, PTL

(* No re-admission (`release_hold`, `readmit_expired_parks`) brings back   *)
(* an account the request gave up on.                                      *)
THEOREM GivenUpStaysBehind == Spec => []NeverResentAfterGivingUp
<1>1. IndInv => NeverResentAfterGivingUp
  BY DEF IndInv, Walls, Aims, Aimed, NeverResentAfterGivingUp
<1> QED BY LadderInvariant, <1>1, PTL

(* A peer's carry (`retry_through_peer`) is never a second copy of the     *)
(* request.                                                                *)
THEOREM CarriesNeverDouble == Spec => []CarryIsTheOnlyCopy
<1>1. IndInv => CarryIsTheOnlyCopy
  BY DEF IndInv, Truths
<1> QED BY LadderInvariant, <1>1, PTL

(* `bad_gateway`'s two answers are true of the whole walk, not of its last *)
(* attempt.                                                                *)
THEOREM UnreachableAnswersAreTrue == Spec => []UnreachableIsTrue
<1>1. IndInv => UnreachableIsTrue
  BY DEF IndInv, Truths
<1> QED BY LadderInvariant, <1>1, PTL

(***************************************************************************)
(* How long a walk can be.                                                 *)
(*                                                                         *)
(* Every iteration of the loop uses up something the request cannot get    *)
(* back: a rung of one account's ladders, an offline wait, the soft wait,  *)
(* or the release of its history.  An account has a rung for each retry,   *)
(* one for the forced refresh, and two for the attempts that bench it: one *)
(* before and, if it was only parked, one after the soft wait.  The code's *)
(* MAX_SENDS_PER_ACCOUNT counts one of these two.                          *)
(***************************************************************************)
PermittedTo(r) == {a \in r.scope \cap r.members : r.lock \in {a, NoAccount}}

Rungs == MaxSendsPerAccount + 1

Flag(b) == IF b THEN 1 ELSE 0

(* The most iterations a request can need.                                 *)
WalkLength(r) ==
    Cardinality(PermittedTo(r)) * Rungs + OfflineWaits + 1 + Flag(r.history # NoAccount)

Woken == spent.softWait /\ pc # "wait"

Ended == gaveUp \cup parked

(* Rung i of account a is used up.                                         *)
RungSpent(a, i) ==
    \/ i \in 1 .. spent.transport[a]
    \/ i \in TransportRetries + 1 .. TransportRetries + spent.r429[a]
    \/ i \in TransportRetries + Retries429 + 1 .. TransportRetries + Retries429 + spent.r529[a]
    \/ i = Rungs - 2 /\ a \in spent.forced401
    \/ i = Rungs - 1 /\ (Woken \/ a \in Ended)
    \/ i = Rungs /\ Woken /\ a \in Ended

Ladders == Permitted \X (1 .. Rungs)

Climbed == {x \in Ladders : RungSpent(x[1], x[2])}

Released == req.history # NoAccount /\ boundTo = NoAccount

Walked == Cardinality(Climbed) + spent.offline + Flag(spent.softWait) + Flag(Released)

(* Each iteration has been paid for, the one under way not yet.            *)
WalkInv ==
    /\ boundTo \in {NoAccount, req.history}
    /\ pc = "start" => attempts = 0
    /\ pc \in {"select", "wait"} => attempts <= Walked
    /\ pc = "send" => attempts <= Walked + 1
    /\ pc = "wait" => spent.softWait
    /\ pc = "done" => attempts <= WalkLength(req)

LEMMA RungsType == Rungs \in Nat /\ Rungs = 3 + TransportRetries + Retries429 + Retries529
BY BudgetAssumption DEF Rungs, MaxSendsPerAccount

LEMMA SpentFields ==
    ASSUME TypeOK
    PROVE  /\ spent.transport \in [Accounts -> 0 .. TransportRetries]
           /\ spent.r429 \in [Accounts -> 0 .. Retries429]
           /\ spent.r529 \in [Accounts -> 0 .. Retries529]
           /\ spent.forced401 \subseteq Accounts
           /\ spent.offline \in 0 .. OfflineWaits
           /\ spent.softWait \in BOOLEAN
BY DEF TypeOK, SpentTypes

(* The ladders are finite, and the climbed part counts.                    *)
LEMMA LaddersFinite ==
    ASSUME TypeOK
    PROVE  /\ Permitted \subseteq Accounts /\ Permitted = PermittedTo(req)
           /\ Cardinality(Permitted) \in Nat
           /\ IsFiniteSet(Ladders) /\ Cardinality(Ladders) = Cardinality(Permitted) * Rungs
           /\ Cardinality(Ladders) \in Nat
           /\ IsFiniteSet(Climbed) /\ Cardinality(Climbed) \in Nat
           /\ Cardinality(Climbed) <= Cardinality(Ladders)
<1>1. Permitted \subseteq Accounts /\ Permitted = PermittedTo(req)
  BY RequestType DEF Permitted, PermittedTo
<1>2. IsFiniteSet(Permitted) /\ Cardinality(Permitted) \in Nat
  BY <1>1, FleetAssumption, FS_Subset, FS_CardinalityType
<1>3. IsFiniteSet(1 .. Rungs) /\ Cardinality(1 .. Rungs) = Rungs
  BY RungsType, BudgetAssumption, FS_Interval
<1>4. IsFiniteSet(Ladders) /\ Cardinality(Ladders) = Cardinality(Permitted) * Rungs
  BY <1>2, <1>3, FS_Product DEF Ladders
<1>5. IsFiniteSet(Climbed) /\ Cardinality(Climbed) <= Cardinality(Ladders)
  BY <1>4, FS_Subset DEF Climbed
<1>6. Cardinality(Ladders) \in Nat /\ Cardinality(Climbed) \in Nat
  BY <1>4, <1>5, FS_CardinalityType
<1> QED BY <1>1, <1>2, <1>4, <1>5, <1>6

LEMMA WalkedType ==
    ASSUME TypeOK
    PROVE  Walked \in Nat /\ WalkLength(req) \in Nat /\ Walked <= WalkLength(req)
<1>1. Cardinality(Climbed) \in Nat /\ Cardinality(PermittedTo(req)) * Rungs \in Nat
      /\ Cardinality(Climbed) <= Cardinality(PermittedTo(req)) * Rungs
  BY LaddersFinite
<1>2. spent.offline \in Nat /\ spent.offline <= OfflineWaits /\ OfflineWaits \in Nat
  BY SpentFields, BudgetAssumption
<1>3. Flag(spent.softWait) \in {0, 1} /\ Flag(Released) \in {0, 1}
      /\ Flag(req.history # NoAccount) \in {0, 1}
      /\ (Flag(Released) = 1 => Flag(req.history # NoAccount) = 1)
  BY DEF Flag, Released
<1> HIDE DEF Flag
<1> DEFINE c == Cardinality(Climbed)  l == Cardinality(PermittedTo(req)) * Rungs
           s == Flag(spent.softWait)  r == Flag(Released)  h == Flag(req.history # NoAccount)
           o == spent.offline
<1>4. c \in Nat /\ l \in Nat /\ c <= l /\ s \in {0, 1} /\ r \in {0, 1} /\ h \in {0, 1}
      /\ (r = 1 => h = 1) /\ o \in Nat /\ o <= OfflineWaits /\ OfflineWaits \in Nat
  BY <1>1, <1>2, <1>3
<1>5. Walked = c + o + s + r /\ WalkLength(req) = l + OfflineWaits + 1 + h
  BY DEF Walked, WalkLength
<1> HIDE DEF c, l, s, r, h, o
<1> QED BY <1>4, <1>5

(* While some permitted account is not benched, a rung is left.            *)
LEMMA RungLeft ==
    ASSUME IndInv, NEW a \in Permitted \ tried
    PROVE  Walked + 1 <= WalkLength(req)
<1> USE DEF IndInv
<1>1. a \notin Ended /\ a \in Accounts
  BY LaddersFinite DEF Walls, Ended
<1> DEFINE i == IF Woken THEN Rungs ELSE Rungs - 1
<1>2. i \in 1 .. Rungs
  BY RungsType, BudgetAssumption
<1>3. ~RungSpent(a, i)
  BY <1>1, SpentFields, RungsType, BudgetAssumption DEF RungSpent
<1>4. <<a, i>> \in Ladders \ Climbed
  BY <1>2, <1>3 DEF Ladders, Climbed
<1>5. Cardinality(Climbed) # Cardinality(Ladders)
  BY <1>4, LaddersFinite, FS_Subset DEF Climbed
<1>6. Cardinality(Climbed) + 1 <= Cardinality(PermittedTo(req)) * Rungs
      /\ Cardinality(Climbed) \in Nat /\ Cardinality(PermittedTo(req)) * Rungs \in Nat
  BY <1>5, LaddersFinite
<1>7. spent.offline \in Nat /\ spent.offline <= OfflineWaits /\ OfflineWaits \in Nat
  BY SpentFields, BudgetAssumption
<1>8. Flag(spent.softWait) \in {0, 1} /\ Flag(Released) \in {0, 1}
      /\ Flag(req.history # NoAccount) \in {0, 1}
      /\ (Flag(Released) = 1 => Flag(req.history # NoAccount) = 1)
  BY DEF Flag, Released
<1> DEFINE c == Cardinality(Climbed)  l == Cardinality(PermittedTo(req)) * Rungs
           s == Flag(spent.softWait)  r == Flag(Released)  h == Flag(req.history # NoAccount)
           o == spent.offline
<1>9. c \in Nat /\ l \in Nat /\ c + 1 <= l /\ s \in {0, 1} /\ r \in {0, 1} /\ h \in {0, 1}
      /\ (r = 1 => h = 1) /\ o \in Nat /\ o <= OfflineWaits /\ OfflineWaits \in Nat
  BY <1>6, <1>7, <1>8
<1>10. Walked = c + o + s + r /\ WalkLength(req) = l + OfflineWaits + 1 + h
  BY DEF Walked, WalkLength
<1> HIDE DEF c, l, s, r, h, o
<1> QED BY <1>9, <1>10

(* What an iteration never gives back.  Waking ends the parks it readmits, *)
(* and uses up the rung before the wait on every account at once.          *)
Rises ==
    /\ req' = req
    /\ \A a \in Accounts : /\ spent.transport[a] <= spent'.transport[a]
                           /\ spent.r429[a] <= spent'.r429[a]
                           /\ spent.r529[a] <= spent'.r529[a]
    /\ spent.forced401 \subseteq spent'.forced401
    /\ spent.offline <= spent'.offline
    /\ spent.softWait => spent'.softWait
    /\ Woken => Woken'
    /\ Ended \subseteq Ended' \/ (~Woken /\ Woken')
    /\ Released => Released'

(* An iteration pays: a wait, the release, or a rung of a permitted account.*)
Pays ==
    \/ spent'.offline = spent.offline + 1
    \/ spent'.softWait /\ ~spent.softWait
    \/ Released' /\ ~Released
    \/ \E a \in Permitted :
          \/ spent'.transport[a] = spent.transport[a] + 1
          \/ spent'.r429[a] = spent.r429[a] + 1
          \/ spent'.r529[a] = spent.r529[a] + 1
          \/ a \in spent'.forced401 \ spent.forced401
          \/ Woken' = Woken /\ a \in Ended' \ Ended

LEMMA ClimbedGrows ==
    ASSUME TypeOK, TypeOK', Rises
    PROVE  /\ Climbed \subseteq Climbed' /\ Ladders' = Ladders
           /\ IsFiniteSet(Climbed') /\ Cardinality(Climbed') \in Nat
           /\ Cardinality(Climbed) <= Cardinality(Climbed')
           /\ Climbed' # Climbed => Cardinality(Climbed) + 1 <= Cardinality(Climbed')
<1>1. Ladders' = Ladders
  BY DEF Rises, Ladders, Permitted, Rungs, MaxSendsPerAccount
<1>2. ASSUME NEW x \in Climbed PROVE x \in Climbed'
  <2>1. x \in Ladders /\ x[1] \in Accounts /\ x[2] \in 1 .. Rungs /\ RungSpent(x[1], x[2])
    BY LaddersFinite DEF Climbed, Ladders
  <2> DEFINE a == x[1]  i == x[2]
  <2>2. /\ spent.transport[a] \in Nat /\ spent.r429[a] \in Nat /\ spent.r529[a] \in Nat
        /\ spent'.transport[a] \in Nat /\ spent'.r429[a] \in Nat /\ spent'.r529[a] \in Nat
    BY <2>1, BudgetAssumption DEF TypeOK, SpentTypes
  <2>3. RungSpent(a, i)'
    <3> HIDE DEF a, i
    <3>1. a \in Accounts /\ i \in 1 .. Rungs /\ RungSpent(a, i) /\ Rungs' = Rungs
      BY <2>1 DEF a, i, Rungs, MaxSendsPerAccount
    <3>2. /\ spent.transport[a] <= spent'.transport[a] /\ spent.r429[a] <= spent'.r429[a]
          /\ spent.r529[a] <= spent'.r529[a]
      BY <3>1 DEF Rises
    <3>3. CASE i \in 1 .. spent.transport[a]
      BY <2>2, <3>2, <3>3 DEF RungSpent
    <3>4. CASE i \in TransportRetries + 1 .. TransportRetries + spent.r429[a]
      BY <2>2, <3>2, <3>4, BudgetAssumption DEF RungSpent
    <3>5. CASE i \in TransportRetries + Retries429 + 1
                       .. TransportRetries + Retries429 + spent.r529[a]
      BY <2>2, <3>2, <3>5, BudgetAssumption DEF RungSpent
    <3>6. CASE i = Rungs - 2 /\ a \in spent.forced401
      BY <3>6 DEF RungSpent, Rises, Rungs, MaxSendsPerAccount
    <3>7. CASE i = Rungs - 1 /\ (Woken \/ a \in Ended)
      BY <3>1, <3>7 DEF RungSpent, Rises
    <3>8. CASE i = Rungs /\ Woken /\ a \in Ended
      BY <3>1, <3>8 DEF RungSpent, Rises
    <3> QED BY <3>1, <3>3, <3>4, <3>5, <3>6, <3>7, <3>8 DEF RungSpent
  <2> QED BY <1>1, <2>1, <2>3 DEF Climbed
<1>3. Climbed' \subseteq Ladders
  BY <1>1 DEF Climbed
<1>4. IsFiniteSet(Climbed') /\ Cardinality(Climbed') \in Nat
  BY <1>3, LaddersFinite, FS_Subset, FS_CardinalityType
<1>5. /\ Cardinality(Climbed) <= Cardinality(Climbed')
      /\ Cardinality(Climbed) = Cardinality(Climbed') => Climbed' = Climbed
  BY <1>2, <1>4, FS_Subset
<1> HIDE DEF Climbed
<1> QED BY <1>1, <1>2, <1>4, <1>5, LaddersFinite

(* The rung an iteration pays with was not climbed before it.              *)
LEMMA NewRung ==
    ASSUME TypeOK, TypeOK', Rises, NEW a \in Permitted,
           \/ spent'.transport[a] = spent.transport[a] + 1
           \/ spent'.r429[a] = spent.r429[a] + 1
           \/ spent'.r529[a] = spent.r529[a] + 1
           \/ a \in spent'.forced401 \ spent.forced401
           \/ Woken' = Woken /\ a \in Ended' \ Ended
    PROVE  Climbed' # Climbed
<1>1. a \in Accounts /\ Ladders' = Ladders /\ Rungs' = Rungs
  BY LaddersFinite, ClimbedGrows DEF Rungs, MaxSendsPerAccount
<1>2. /\ spent.transport[a] \in 0 .. TransportRetries /\ spent.r429[a] \in 0 .. Retries429
      /\ spent.r529[a] \in 0 .. Retries529
      /\ spent'.transport[a] \in 0 .. TransportRetries /\ spent'.r429[a] \in 0 .. Retries429
      /\ spent'.r529[a] \in 0 .. Retries529
  BY <1>1 DEF TypeOK, SpentTypes
<1>3. \E i \in 1 .. Rungs : RungSpent(a, i)' /\ ~RungSpent(a, i)
  <2>1. CASE spent'.transport[a] = spent.transport[a] + 1
    <3>1. PICK i \in Nat : i = spent.transport[a] + 1
      BY <1>2, RungsType, BudgetAssumption
    <3>2. i \in 1 .. Rungs /\ RungSpent(a, i)' /\ ~RungSpent(a, i)
      BY <1>1, <1>2, <3>1, <2>1, RungsType, BudgetAssumption DEF RungSpent
    <3> QED BY <3>2
  <2>2. CASE spent'.r429[a] = spent.r429[a] + 1
    <3>1. PICK i \in Nat : i = TransportRetries + spent.r429[a] + 1
      BY <1>2, RungsType, BudgetAssumption
    <3>2. i \in 1 .. Rungs /\ RungSpent(a, i)' /\ ~RungSpent(a, i)
      BY <1>1, <1>2, <3>1, <2>2, RungsType, BudgetAssumption DEF RungSpent
    <3> QED BY <3>2
  <2>3. CASE spent'.r529[a] = spent.r529[a] + 1
    <3>1. PICK i \in Nat : i = TransportRetries + Retries429 + spent.r529[a] + 1
      BY <1>2, RungsType, BudgetAssumption
    <3>2. i \in 1 .. Rungs /\ RungSpent(a, i)' /\ ~RungSpent(a, i)
      BY <1>1, <1>2, <3>1, <2>3, RungsType, BudgetAssumption DEF RungSpent
    <3> QED BY <3>2
  <2>4. CASE a \in spent'.forced401 \ spent.forced401
    <3>1. PICK i \in Nat : i = Rungs - 2
      BY <1>2, RungsType, BudgetAssumption
    <3>2. i \in 1 .. Rungs /\ RungSpent(a, i)' /\ ~RungSpent(a, i)
      BY <1>1, <1>2, <3>1, <2>4, RungsType, BudgetAssumption DEF RungSpent
    <3> QED BY <3>2
  <2>5. CASE Woken' = Woken /\ a \in Ended' \ Ended
    <3>1. PICK i \in Nat : i = IF Woken THEN Rungs ELSE Rungs - 1
      BY <1>2, RungsType, BudgetAssumption
    <3>2. i \in 1 .. Rungs /\ RungSpent(a, i)' /\ ~RungSpent(a, i)
      BY <1>1, <1>2, <3>1, <2>5, RungsType, BudgetAssumption DEF RungSpent
    <3> QED BY <3>2
  <2> QED BY <2>1, <2>2, <2>3, <2>4, <2>5
<1>4. PICK i \in 1 .. Rungs : RungSpent(a, i)' /\ ~RungSpent(a, i)
  BY <1>3
<1>5. <<a, i>> \in Climbed' /\ <<a, i>> \notin Climbed
  BY <1>1, <1>4 DEF Climbed, Ladders
<1> QED BY <1>5

(* The walk never shrinks, and a paid iteration lengthens it.              *)
LEMMA WalkRises ==
    ASSUME TypeOK, TypeOK', Rises
    PROVE  /\ Walked \in Nat /\ Walked' \in Nat /\ Walked <= Walked'
           /\ Pays => Walked + 1 <= Walked'
<1>1. /\ Cardinality(Climbed) \in Nat /\ Cardinality(Climbed') \in Nat
      /\ Cardinality(Climbed) <= Cardinality(Climbed')
      /\ Climbed' # Climbed => Cardinality(Climbed) + 1 <= Cardinality(Climbed')
  BY LaddersFinite, ClimbedGrows
<1>2. spent.offline \in Nat /\ spent'.offline \in Nat /\ spent.offline <= spent'.offline
  BY BudgetAssumption DEF TypeOK, SpentTypes, Rises
<1>3. /\ Flag(spent.softWait) \in {0, 1} /\ Flag(spent'.softWait) \in {0, 1}
      /\ (Flag(spent.softWait) = 1 => Flag(spent'.softWait) = 1)
      /\ (spent'.softWait /\ ~spent.softWait =>
             Flag(spent.softWait) = 0 /\ Flag(spent'.softWait) = 1)
  BY DEF Flag, Rises
<1>4. /\ Flag(Released) \in {0, 1} /\ Flag(Released') \in {0, 1}
      /\ (Flag(Released) = 1 => Flag(Released') = 1)
      /\ (Released' /\ ~Released => Flag(Released) = 0 /\ Flag(Released') = 1)
  BY DEF Flag, Rises
<1>5. Pays => \/ spent'.offline = spent.offline + 1
              \/ spent'.softWait /\ ~spent.softWait
              \/ Released' /\ ~Released
              \/ Climbed' # Climbed
  BY NewRung DEF Pays
<1> DEFINE c == Cardinality(Climbed)  d == Cardinality(Climbed')
           o == spent.offline  p == spent'.offline
           s == Flag(spent.softWait)  t == Flag(spent'.softWait)
           r == Flag(Released)  q == Flag(Released')
<1>6. Walked = c + o + s + r /\ Walked' = d + p + t + q
  BY DEF Walked, Flag
<1>7. /\ c \in Nat /\ d \in Nat /\ c <= d /\ o \in Nat /\ p \in Nat /\ o <= p
      /\ s \in {0, 1} /\ t \in {0, 1} /\ (s = 1 => t = 1)
      /\ r \in {0, 1} /\ q \in {0, 1} /\ (r = 1 => q = 1)
      /\ (Pays => p = o + 1 \/ (s = 0 /\ t = 1) \/ (r = 0 /\ q = 1) \/ c + 1 <= d)
  BY <1>1, <1>2, <1>3, <1>4, <1>5
<1> HIDE DEF c, d, o, p, s, t, r, q
<1> QED BY <1>6, <1>7

(* The attempt's own counters only go up, and it does not touch the wait.  *)
SpentGrows ==
    /\ \A a \in Accounts : /\ spent.transport[a] <= spent'.transport[a]
                           /\ spent.r429[a] <= spent'.r429[a]
                           /\ spent.r529[a] <= spent'.r529[a]
    /\ spent.forced401 \subseteq spent'.forced401
    /\ spent.offline <= spent'.offline
    /\ spent'.softWait = spent.softWait

(* An attempt that goes back to the loop took a retry or ended its account.*)
AttemptPays ==
    /\ SpentGrows
    /\ Ended \subseteq Ended'
    /\ UNCHANGED <<req, boundTo, attempts>>
    /\ pc' \in {"select", "done"}
    /\ pc' = "select" =>
          \/ spent'.offline = spent.offline + 1
          \/ spent'.transport[idx] = spent.transport[idx] + 1
          \/ spent'.r429[idx] = spent.r429[idx] + 1
          \/ spent'.r529[idx] = spent.r529[idx] + 1
          \/ idx \in spent'.forced401 \ spent.forced401
          \/ idx \in Ended'

LEMMA SpentShapes ==
    ASSUME TypeOK, idx \in Accounts
    PROVE  /\ spent' = spent => SpentGrows
           /\ \A kind \in {"connect", "offline"} : spent' = AfterCarry(kind) => SpentGrows
           /\ spent' = [spent EXCEPT !.peerEgress = TRUE] => SpentGrows
           /\ spent' = [AfterCarry("offline") EXCEPT !.offline = @ + 1] =>
                 SpentGrows /\ spent'.offline = spent.offline + 1
           /\ spent' = [spent EXCEPT !.transport[idx] = @ + 1] =>
                 SpentGrows /\ spent'.transport[idx] = spent.transport[idx] + 1
           /\ spent' = [spent EXCEPT !.r429[idx] = @ + 1] =>
                 SpentGrows /\ spent'.r429[idx] = spent.r429[idx] + 1
           /\ spent' = [spent EXCEPT !.r529[idx] = @ + 1] =>
                 SpentGrows /\ spent'.r529[idx] = spent.r529[idx] + 1
           /\ spent' = [spent EXCEPT !.forced401 = @ \cup {idx}] =>
                 SpentGrows /\ idx \in spent'.forced401
           /\ spent' = [spent EXCEPT !.failovers = @ + 1] => SpentGrows
<1>1. /\ spent \in SpentTypes
      /\ \A a \in Accounts : /\ spent.transport[a] \in Nat /\ spent.r429[a] \in Nat
                             /\ spent.r529[a] \in Nat
      /\ spent.offline \in Nat
  BY BudgetAssumption DEF TypeOK, SpentTypes
<1>2. spent' = spent => SpentGrows
  BY <1>1 DEF SpentGrows
<1>3. spent' = [spent EXCEPT !.peerEgress = TRUE] => SpentGrows
  BY <1>1 DEF SpentGrows, SpentTypes
<1>4. \A kind \in {"connect", "offline"} : spent' = AfterCarry(kind) => SpentGrows
  BY <1>2, <1>3 DEF AfterCarry
<1>5. spent' = [AfterCarry("offline") EXCEPT !.offline = @ + 1] =>
         SpentGrows /\ spent'.offline = spent.offline + 1
  BY <1>1 DEF SpentGrows, SpentTypes, AfterCarry
<1>6. spent' = [spent EXCEPT !.transport[idx] = @ + 1] =>
         SpentGrows /\ spent'.transport[idx] = spent.transport[idx] + 1
  BY <1>1 DEF SpentGrows, SpentTypes
<1>7. spent' = [spent EXCEPT !.r429[idx] = @ + 1] =>
         SpentGrows /\ spent'.r429[idx] = spent.r429[idx] + 1
  BY <1>1 DEF SpentGrows, SpentTypes
<1>8. spent' = [spent EXCEPT !.r529[idx] = @ + 1] =>
         SpentGrows /\ spent'.r529[idx] = spent.r529[idx] + 1
  BY <1>1 DEF SpentGrows, SpentTypes
<1>9. spent' = [spent EXCEPT !.forced401 = @ \cup {idx}] =>
         SpentGrows /\ idx \in spent'.forced401
  BY <1>1 DEF SpentGrows, SpentTypes
<1>10. spent' = [spent EXCEPT !.failovers = @ + 1] => SpentGrows
  BY <1>1 DEF SpentGrows, SpentTypes
<1> QED BY <1>2, <1>3, <1>4, <1>5, <1>6, <1>7, <1>8, <1>9, <1>10

(* What the ladder's moves do to the ended accounts.                       *)
LEMMA MovesEnd ==
    /\ \A a : Bench(a) => Ended \subseteq Ended' /\ a \in Ended' /\ pc' = "select"
    /\ \A a : Park(a) => Ended \subseteq Ended' /\ a \in Ended' /\ pc' = "select"
    /\ \A a : RetrySame(a) => Ended' = Ended /\ pc' = "select"
    /\ \A a, b : FailOver529(a, b) => Ended \subseteq Ended' /\ a \in Ended' /\ pc' = "select"
    /\ \A a : StayOnLadder /\ Reply(a) => Ended' = Ended /\ pc' = "done"
BY DEF Bench, Park, RetrySame, FailOver529, StayOnLadder, Reply, NextIteration, Ended

LEMMA TransportPays == ASSUME TypeOK, TransportStep PROVE AttemptPays /\ pc = "send"
<1>0. pc = "send" /\ idx \in Accounts
  BY DEF TransportStep, Unusable, PinnedExit, FailOffline, FailConnect, FailMidflight, Carry,
     Attempting, TypeOK
<1>1. CASE Unusable
  BY <1>0, <1>1, SpentShapes, MovesEnd DEF Unusable, AttemptPays, Steady
<1>2. CASE PinnedExit
  BY <1>0, <1>2, SpentShapes, MovesEnd DEF PinnedExit, AttemptPays, Steady
<1>3. CASE FailOffline
  BY <1>0, <1>3, SpentShapes, MovesEnd DEF FailOffline, AttemptPays, Steady
<1>4. CASE FailConnect
  BY <1>0, <1>4, SpentShapes, MovesEnd DEF FailConnect, AttemptPays, Steady
<1>5. CASE FailMidflight
  BY <1>0, <1>5, SpentShapes, MovesEnd DEF FailMidflight, AttemptPays, Steady
<1>6. ASSUME NEW kind \in {"connect", "offline"}, Carry(kind) PROVE AttemptPays
  BY <1>0, <1>6, SpentShapes, MovesEnd DEF Carry, AttemptPays, Steady
<1> QED BY <1>0, <1>1, <1>2, <1>3, <1>4, <1>5, <1>6 DEF TransportStep

LEMMA AnswerPays == ASSUME TypeOK, AnswerStep PROVE AttemptPays /\ pc = "send"
<1>0. pc = "send" /\ idx \in Accounts
  BY DEF AnswerStep, Answer401, Answer403, Forward403, QuotaRejected429, Transient429,
     RequestScoped429, Overloaded529, ModelRefused, Forward, Attempting, TypeOK
<1>1. CASE Answer401
  BY <1>0, <1>1, SpentShapes, MovesEnd DEF Answer401, AttemptPays, Steady
<1>2. CASE Answer403
  BY <1>0, <1>2, SpentShapes, MovesEnd DEF Answer403, AttemptPays, Steady
<1>3. CASE Forward403
  BY <1>0, <1>3, SpentShapes, MovesEnd DEF Forward403, AttemptPays, Steady
<1>4. CASE QuotaRejected429
  BY <1>0, <1>4, SpentShapes, MovesEnd DEF QuotaRejected429, AttemptPays, Steady
<1>5. CASE Transient429
  BY <1>0, <1>5, SpentShapes, MovesEnd DEF Transient429, AttemptPays, Steady
<1>6. CASE RequestScoped429
  BY <1>0, <1>6, SpentShapes, MovesEnd DEF RequestScoped429, AttemptPays, Steady
<1>7. CASE Overloaded529
  BY <1>0, <1>7, SpentShapes, MovesEnd DEF Overloaded529, AttemptPays, Steady
<1>8. CASE ModelRefused
  BY <1>0, <1>8, SpentShapes, MovesEnd DEF ModelRefused, AttemptPays, Steady
<1>9. CASE Forward
  BY <1>0, <1>9, SpentShapes, MovesEnd DEF Forward, AttemptPays, Steady
<1> QED BY <1>0, <1>1, <1>2, <1>3, <1>4, <1>5, <1>6, <1>7, <1>8, <1>9 DEF AnswerStep

LEMMA AttemptWalk ==
    ASSUME IndInv, TypeOK', WalkInv, TransportStep \/ AnswerStep
    PROVE  WalkInv'
<1>1. TypeOK /\ AttemptPays /\ pc = "send"
  BY TransportPays, AnswerPays DEF IndInv
<1>2. idx \in Permitted \ tried /\ idx \notin Ended
  BY <1>1 DEF IndInv, Aims, Aimed, Walls, Ended
<1>3. Woken' = Woken
  BY <1>1 DEF AttemptPays, SpentGrows, Woken
<1>4. Rises
  BY <1>1, <1>3 DEF Rises, AttemptPays, SpentGrows, Released
<1>5. pc' = "select" => Pays
  BY <1>1, <1>2, <1>3 DEF AttemptPays, Pays
<1>6. Walked \in Nat /\ Walked' \in Nat /\ (pc' = "select" => Walked + 1 <= Walked')
  BY <1>1, <1>4, <1>5, WalkRises
<1>7. Walked + 1 <= WalkLength(req) /\ WalkLength(req) \in Nat
  BY <1>1, <1>2, RungLeft, WalkedType
<1>8. attempts <= Walked + 1 /\ attempts' = attempts /\ attempts \in Nat
  BY <1>1, BudgetType DEF WalkInv, AttemptPays, TypeOK
<1>9. WalkLength(req)' = WalkLength(req)
  BY <1>1 DEF AttemptPays, WalkLength, PermittedTo, Flag, Rungs, MaxSendsPerAccount
<1>10. pc' = "select" => attempts' <= Walked'
  BY <1>6, <1>8
<1>11. pc' = "done" => attempts' <= WalkLength(req)'
  BY <1>6, <1>7, <1>8, <1>9
<1>12. pc' \in {"select", "done"} /\ boundTo' \in {NoAccount, req'.history}
  BY <1>1 DEF AttemptPays, WalkInv
<1> QED BY <1>10, <1>11, <1>12 DEF WalkInv

(* An iteration of the loop: it pays now, or it serves and pays later.     *)
LEMMA ServeWalk ==
    ASSUME TypeOK, TypeOK', WalkInv, pc = "select", NEW a, Serve(a)
    PROVE  WalkInv'
<1>1. Rises
  BY BudgetAssumption DEF Serve, Rises, Woken, Ended, Released, TypeOK, SpentTypes,
     history
<1>2. Walked \in Nat /\ Walked' \in Nat /\ Walked <= Walked'
  BY <1>1, WalkRises
<1>3. attempts <= Walked /\ attempts \in Nat /\ attempts' = attempts + 1
  BY BudgetType DEF WalkInv, Serve, TypeOK
<1>4. attempts' <= Walked' + 1
  <2> DEFINE w == Walked  v == Walked'  n == attempts
  <2>1. w \in Nat /\ v \in Nat /\ w <= v /\ n \in Nat /\ n <= w
    BY <1>2, <1>3
  <2> HIDE DEF w, v, n
  <2>2. n + 1 <= v + 1
    BY <2>1
  <2> QED BY <1>3, <2>2 DEF n, v
<1> QED BY <1>4 DEF WalkInv, Serve

LEMMA ReplyWalk ==
    ASSUME TypeOK, WalkInv, pc = "select", NEW a, Reply(a), UNCHANGED <<req, attempts, boundTo>>
    PROVE  WalkInv'
<1>1. attempts <= Walked /\ attempts \in Nat
  BY BudgetType DEF WalkInv, TypeOK
<1>2. attempts <= WalkLength(req)
  BY <1>1, WalkedType
<1>3. WalkLength(req)' = WalkLength(req)
  BY DEF WalkLength, PermittedTo, Flag, Rungs, MaxSendsPerAccount
<1> QED BY <1>2, <1>3 DEF WalkInv, Reply

LEMMA SoftWaitWalk == ASSUME TypeOK, TypeOK', WalkInv, SoftWait PROVE WalkInv'
<1>1. /\ spent \in SpentTypes /\ spent' = [spent EXCEPT !.softWait = TRUE]
      /\ ~spent.softWait /\ pc = "select" /\ pc' = "wait"
      /\ UNCHANGED <<req, boundTo, gaveUp, parked>>
  BY DEF TypeOK, SoftWait, SoftWaitable, NothingSelectable, Looping, history
<1>2. /\ spent'.softWait /\ spent'.transport = spent.transport /\ spent'.r429 = spent.r429
      /\ spent'.r529 = spent.r529 /\ spent'.forced401 = spent.forced401
      /\ spent'.offline = spent.offline
  BY <1>1 DEF SpentTypes
<1>3. /\ \A a \in Accounts : /\ spent.transport[a] \in Nat /\ spent.r429[a] \in Nat
                             /\ spent.r529[a] \in Nat
      /\ spent.offline \in Nat
  BY BudgetAssumption DEF TypeOK, SpentTypes
<1>4. Rises /\ Pays
  BY <1>1, <1>2, <1>3 DEF Rises, Pays, Woken, Ended, Released
<1>5. Walked \in Nat /\ Walked' \in Nat /\ Walked + 1 <= Walked'
  BY <1>4, WalkRises
<1>6. attempts <= Walked /\ attempts \in Nat /\ attempts' = attempts + 1
  BY <1>1, BudgetType DEF WalkInv, SoftWait, TypeOK
<1>7. attempts' <= Walked'
  BY <1>5, <1>6
<1> QED BY <1>1, <1>2, <1>7 DEF WalkInv

LEMMA WakeWalk == ASSUME TypeOK, TypeOK', WalkInv, Wake PROVE WalkInv'
<1>1. /\ spent' = spent /\ spent.softWait /\ pc = "wait" /\ pc' = "select"
      /\ UNCHANGED <<req, boundTo, attempts>>
  BY DEF WalkInv, Wake
<1>2. ~Woken /\ Woken'
  BY <1>1 DEF Woken
<1>3. Rises
  BY <1>1, <1>2, BudgetAssumption DEF Rises, Released, TypeOK, SpentTypes
<1>4. Walked \in Nat /\ Walked' \in Nat /\ Walked <= Walked'
  BY <1>3, WalkRises
<1>5. attempts <= Walked /\ attempts \in Nat
  BY <1>1, BudgetType DEF WalkInv, TypeOK
<1>6. attempts' <= Walked'
  BY <1>1, <1>4, <1>5
<1> QED BY <1>1, <1>6 DEF WalkInv

LEMMA ReleaseWalk == ASSUME TypeOK, TypeOK', WalkInv, ReleaseMidRequest PROVE WalkInv'
<1>1. /\ UNCHANGED <<spent, req, pc, gaveUp, parked>> /\ boundTo' = NoAccount
      /\ boundTo # NoAccount /\ pc = "select" /\ attempts' = attempts + 1
  BY DEF ReleaseMidRequest, ReleaseHold, BoundWentOut, LastResort, NothingSelectable, Looping,
     history
<1>2. ~Released /\ Released'
  BY <1>1 DEF WalkInv, Released
<1>3. Rises /\ Pays
  BY <1>1, <1>2, BudgetAssumption DEF Rises, Pays, Woken, Ended, TypeOK, SpentTypes
<1>4. Walked \in Nat /\ Walked' \in Nat /\ Walked + 1 <= Walked'
  BY <1>3, WalkRises
<1>5. attempts <= Walked /\ attempts \in Nat
  BY <1>1, BudgetType DEF WalkInv, TypeOK
<1>6. attempts' <= Walked'
  BY <1>1, <1>4, <1>5
<1> QED BY <1>1, <1>6 DEF WalkInv

LEMMA ChooseWalk == ASSUME TypeOK, TypeOK', WalkInv, Choose PROVE WalkInv'
<1>1. CASE TakeNext \/ Select \/ ServeBound \/ Revalidate
  BY <1>1, ServeWalk DEF TakeNext, Select, ServeBound, Revalidate, LastResort,
     NothingSelectable, Looping
<1>2. CASE AnswerVerdict \/ WarnMidRequest \/ Exhausted \/ BudgetSpent
  BY <1>2, ReplyWalk DEF AnswerVerdict, WarnMidRequest, Exhausted, BudgetSpent, BoundWentOut,
     LastResort, NothingSelectable, Looping
<1> QED BY <1>1, <1>2, SoftWaitWalk, WakeWalk, ReleaseWalk DEF Choose

WalkCounts == Walked \in Nat /\ WalkLength(req) \in Nat

LEMMA WalkCountsLater == TypeOK' => WalkCounts'
<1>1. TypeOK => WalkCounts
  BY WalkedType DEF WalkCounts
<1> QED BY <1>1, PTL

LEMMA BeginWalk == ASSUME TypeOK, TypeOK', WalkInv, Begin PROVE WalkInv'
<1>1. /\ attempts = 0 /\ attempts' = 0 /\ pc' \in {"select", "done"}
      /\ boundTo' \in {NoAccount, req'.history}
  BY DEF WalkInv, Begin, StartFree, StartHeld, StartReleased, StartWarned, Reply
<1>2. attempts' <= Walked' /\ attempts' <= WalkLength(req)'
  BY <1>1, WalkCountsLater DEF WalkCounts
<1> QED BY <1>1, <1>2 DEF WalkInv

LEMMA StillWalk ==
    ASSUME WalkInv, UNCHANGED <<req, pc, attempts, boundTo, spent, gaveUp, parked>>
    PROVE  WalkInv'
<1>1. Ladders' = Ladders /\ Woken' = Woken /\ Ended' = Ended /\ Released' = Released
      /\ Rungs' = Rungs
  BY DEF Ladders, Permitted, Rungs, MaxSendsPerAccount, Woken, Ended, Released
<1>2. Climbed' = Climbed
  BY <1>1 DEF Climbed, RungSpent
<1>3. Walked' = Walked
  BY <1>1, <1>2 DEF Walked, Flag
<1>4. WalkLength(req)' = WalkLength(req)
  BY DEF WalkLength, PermittedTo, Flag, Rungs, MaxSendsPerAccount
<1> QED BY <1>3, <1>4 DEF WalkInv

LEMMA WalkStep == ASSUME IndInv, TypeOK', WalkInv, [Next]_vars PROVE WalkInv'
<1>1. CASE GateMoves \/ UNCHANGED vars
  BY <1>1, StillWalk DEF GateMoves, vars, ladder, history
<1>2. TypeOK
  BY DEF IndInv
<1> QED BY <1>1, <1>2, BeginWalk, ChooseWalk, AttemptWalk DEF Next, Done

(* Every iteration of every request's loop has been paid for.              *)
THEOREM WalksArePaidFor == Spec => [](IndInv /\ WalkInv)
<1>1. Init => WalkInv
  BY DEF Init, WalkInv
<1>2. IndInv /\ IndInv' /\ WalkInv /\ [Next]_vars => WalkInv'
  BY WalkStep DEF IndInv
<1> QED BY <1>1, <1>2, LadderInvariant, PTL DEF Spec

(* The loop of handle_request ends by itself: whatever the accounts answer *)
(* and whatever other requests do to their gates, it makes no more than    *)
(* WalkLength iterations, however large its attempt budget.                *)
WalkEndsByItself == attempts <= WalkLength(req)

LEMMA WalkBound == ASSUME IndInv, WalkInv PROVE WalkEndsByItself
<1>1. /\ Walked \in Nat /\ WalkLength(req) \in Nat /\ Walked <= WalkLength(req)
      /\ attempts \in Nat /\ pc \in {"start", "select", "send", "wait", "done"}
  BY WalkedType, BudgetType DEF IndInv, TypeOK
<1>2. CASE pc = "start"
  BY <1>1, <1>2 DEF WalkInv, WalkEndsByItself
<1>3. CASE pc \in {"select", "wait"}
  BY <1>1, <1>3 DEF WalkInv, WalkEndsByItself
<1>4. CASE pc = "send"
  <2>1. Walked + 1 <= WalkLength(req)
    BY <1>4, RungLeft DEF IndInv, Aims, Aimed
  <2> QED BY <1>1, <1>4, <2>1 DEF WalkInv, WalkEndsByItself
<1>5. CASE pc = "done"
  BY <1>5 DEF WalkInv, WalkEndsByItself
<1> QED BY <1>1, <1>2, <1>3, <1>4, <1>5

(* handle_request's loop never runs longer than its ladders allow.         *)
THEOREM WalksEndByThemselves == Spec => []WalkEndsByItself
<1>1. IndInv /\ WalkInv => WalkEndsByItself
  BY WalkBound
<1> QED BY <1>1, WalksArePaidFor, PTL

(* The request's longest walk fits max_attempts_for, and then the budget   *)
(* does not cut it short.                                                  *)
FittingIsNotTruncated == WalkLength(req) <= MaxAttempts => NeverTruncated

(* A request whose longest walk fits the attempt budget is never cut short:*)
(* when max_attempts_for is used up, the ladder has no account left.       *)
THEOREM FittingWalksAreNotTruncated == Spec => []FittingIsNotTruncated
<1>1. ASSUME IndInv, WalkInv, WalkLength(req) <= MaxAttempts, pc = "select",
             attempts = MaxAttempts, NEW a \in Permitted \ tried
      PROVE  FALSE
  <2>1. Walked + 1 <= WalkLength(req) /\ Walked \in Nat /\ WalkLength(req) \in Nat
    BY <1>1, RungLeft, WalkedType DEF IndInv
  <2>2. MaxAttempts <= Walked /\ MaxAttempts \in Nat
    BY <1>1, BudgetType DEF WalkInv
  <2> QED BY <1>1, <2>1, <2>2
<1>2. ASSUME IndInv, WalkInv, WalkLength(req) <= MaxAttempts, pc = "select",
             attempts = MaxAttempts
      PROVE  nextIdx = NoAccount /\ Selectable(tried) = {}
  <2>1. nextIdx = NoAccount
    BY <1>1, <1>2 DEF IndInv, Aims, Aimed
  <2>2. Selectable(tried) \subseteq Permitted \ tried
    BY <1>2, SelectableIsPermitted DEF IndInv, Walls
  <2> QED BY <1>1, <1>2, <2>1, <2>2
<1>3. IndInv /\ WalkInv => FittingIsNotTruncated
  BY <1>2 DEF FittingIsNotTruncated, NeverTruncated
<1> QED BY <1>3, WalksArePaidFor, PTL

(* One spare iteration for each account and one for the soft wait, and one *)
(* more for a request with bound history, are enough for every request:    *)
(* MAX_SENDS_PER_ACCOUNT counts one of the two attempts a soft wait can    *)
(* part, so what it leaves out grows with the fleet.                       *)
THEOREM SlackPerAccountIsEnough ==
    ASSUME \A r \in Requests :
              Cardinality(Accounts) + 1 + Flag(r.history # NoAccount) <= Slack
    PROVE  Spec => []NeverTruncated
<1>1. ASSUME TypeOK PROVE WalkLength(req) <= MaxAttempts
  <2> DEFINE k == Cardinality(PermittedTo(req))  n == Cardinality(Accounts)
             m == MaxSendsPerAccount  h == Flag(req.history # NoAccount)
  <2>1. k \in Nat /\ n \in Nat /\ k <= n
    BY <1>1, LaddersFinite, FleetAssumption, FS_Subset, FS_CardinalityType
  <2>2. m \in Nat /\ OfflineWaits \in Nat /\ Slack \in Nat /\ h \in {0, 1}
    BY BudgetAssumption DEF MaxSendsPerAccount, Flag
  <2>3. WalkLength(req) = k * (m + 1) + OfflineWaits + 1 + h
        /\ MaxAttempts = n * m + Slack + OfflineWaits /\ n + 1 + h <= Slack
    BY <1>1 DEF WalkLength, MaxAttempts, Rungs, TypeOK
  <2> HIDE DEF k, n, m, h
  <2>4. k * (m + 1) = k * m + k /\ k * m <= n * m /\ k * m \in Nat /\ n * m \in Nat
    BY <2>1, <2>2
  <2> QED BY <2>1, <2>2, <2>3, <2>4
<1>2. IndInv /\ FittingIsNotTruncated => NeverTruncated
  BY <1>1 DEF IndInv, FittingIsNotTruncated
<1> QED BY <1>2, LadderInvariant, FittingWalksAreNotTruncated, PTL
=============================================================================
