------------------------ MODULE ManagedSessionProofs ------------------------
(***************************************************************************)
(* Proofs about ManagedSession and its two users in the shell, for every   *)
(* value of their constants.  The shell and a catalog load only take steps *)
(* of the session or leave it alone, so that what is proved of the session *)
(* holds of both; a load leaves the transaction state alone, and a         *)
(* connection it gave up is never used again.                              *)
(***************************************************************************)
EXTENDS ShellExecution, CatalogLoad, DataInduction, TLAPS

(***************************************************************************)
(* The inductive invariant.  A transaction the user was told of shows in   *)
(* the state; a connection is replaced only from Idle; a statement that    *)
(* the server took as the end of a transaction has closed what the user    *)
(* was told of; nothing runs on an uncertain session; and a statement      *)
(* before its execution has not reached the server.                        *)
(***************************************************************************)
ToldShows == toldOpen => state # "Idle"
ReconnectsIdle == pc = "reconnect" => state = "Idle"
EndHasClosed == pc = "succeeded" /\ Ends(stmt) => ~toldOpen
UncertainRests == state = "Uncertain" => pc \in {"ready", "prepare"}
RunsOnce ==
  /\ pc \in {"prepare", "reconnect", "execute"} => runs = 0
  /\ pc \in {"succeeded", "rejected", "capture"} => runs = 1
  /\ runs <= 1
  /\ pc = "ready" /\ reported = "refused" => runs = 0

\* What it says of the statements the classifier reads as the server does.
IInv == TypeOK /\ UncertainRests /\ RunsOnce
TInv == IInv /\ ToldShows /\ ReconnectsIdle /\ EndHasClosed

AllWellClassified == \A s \in Statements : WellClassified(s)

-----------------------------------------------------------------------------
(***************************************************************************)
(* The operators the session is built from.                                *)
(***************************************************************************)
\* Every outcome of the prompt state machine is a prompt state.
LEMMA TransitionType ==
  ASSUME NEW before \in TransactionState, NEW s
  PROVE  transition(before, classify(s)) \in TransactionState
BY DEF transition, TransactionState

\* The server's status stays a status.
LEMMA ServerTxnType ==
  ASSUME NEW t \in ServerTxn, NEW s
  PROVE  Succeeds(s, t) \in ServerTxn /\ Fails(s, t) \in ServerTxn
BY DEF Succeeds, Fails, ServerTxn

\* A statement the classifier takes for a commit or a rollback ends the
\* transaction, if it is classified as the server reads it.
LEMMA EndsWhatItSays ==
  ASSUME NEW s, WellClassified(s), classify(s) \in {"Commit", "Rollback"}
  PROVE  Ends(s)
BY DEF WellClassified, classify, Ends, ToSavepoint, Chains, Commits, Aborts, Is

\* No statement leaves Idle behind a transaction except one that ends it.
LEMMA LeavesIdleOnlyByEnd ==
  ASSUME NEW s, WellClassified(s), ~Ends(s),
         NEW before \in TransactionState, before # "Idle"
  PROVE  transition(before, classify(s)) # "Idle"
BY EndsWhatItSays DEF transition

\* Nothing but a BEGIN ends what an uncertain session says.
LEMMA FailureStateType ==
  ASSUME TypeOK
  PROVE  /\ failureState \in TransactionState
         /\ state # "Idle" => failureState # "Idle"
         /\ state = "Uncertain" => failureState = "Uncertain"
BY DEF TypeOK, failureState, TransactionState

\* The settings in force after a statement are settings.
LEMMA SettingsAfterType ==
  ASSUME TypeOK, NEW s
  PROVE  SettingsAfter(s) \subseteq Values
BY DEF TypeOK, Connection, SettingsAfter

\* A fresh connection is a connection.
LEMMA RestoredType ==
  ASSUME NEW id \in 1 .. MaxConnections, NEW v \in Values
  PROVE  Restored(id, v) \in Connection
BY DEF Restored, Connection, ServerTxn
-----------------------------------------------------------------------------
(***************************************************************************)
(* The type invariant.                                                     *)
(***************************************************************************)
LEMMA InitType == Init => TypeOK
<1> SUFFICES ASSUME Init PROVE TypeOK
  OBVIOUS
<1>1. 1 \in 1 .. MaxConnections
  BY BoundsAssumption
<1>2. conn \in Connection
  BY <1>1, RestoredType DEF Init
<1>3. /\ state \in TransactionState /\ pc \in Awaits /\ reported \in Reports
      /\ settings \in Values /\ stmt \in Statements
      /\ connected_at \in Time /\ asked \in Time /\ now \in Time
  BY DEF Init, TransactionState, Awaits, Reports
<1>4. attempt \in 0 .. MaxAttempts - 1 /\ runs \in Nat
  BY DEF Init, MaxAttempts
<1>5. /\ settings_current \in BOOLEAN /\ reconnect_required \in BOOLEAN
      /\ reconnected \in BOOLEAN /\ toldOpen \in BOOLEAN
      /\ outputFailed \in BOOLEAN
  BY DEF Init
<1> QED
  BY <1>2, <1>3, <1>4, <1>5 DEF TypeOK

LEMMA NextType == TypeOK /\ [Next]_vars => TypeOK'
<1> SUFFICES ASSUME TypeOK, [Next]_vars PROVE TypeOK'
  OBVIOUS
<1> USE DEF TypeOK, fields, history
<1>1. CASE UNCHANGED vars
  BY <1>1 DEF vars
<1>2. ASSUME NEW s \in Statements, Submit(s) PROVE TypeOK'
  BY <1>2 DEF Submit, Awaits
<1>3. CASE PrepareRefuses
  BY <1>3 DEF PrepareRefuses, Return, Awaits, Reports
<1>4. CASE PrepareReconnects
  BY <1>4 DEF PrepareReconnects, Awaits, MaxAttempts
<1>5. CASE PrepareProceeds
  BY <1>5 DEF PrepareProceeds, Awaits
<1>6. CASE ReconnectSucceeds
  <2>1. conn.id + 1 \in 1 .. MaxConnections
    BY <1>6, BoundsAssumption DEF ReconnectSucceeds, Connection
  <2>2. conn' \in Connection
    BY <1>6, <2>1, RestoredType DEF ReconnectSucceeds
  <2>3. attempt' \in 0 .. MaxAttempts - 1 /\ pc' \in Awaits
    BY <1>6 DEF ReconnectSucceeds, Awaits, MaxAttempts
  <2> QED
    BY <1>6, <2>2, <2>3 DEF ReconnectSucceeds
<1>7. CASE ReconnectFails
  BY <1>7 DEF ReconnectFails, Return, Awaits, Reports, MaxAttempts
<1>8. CASE FinalizeOk
  BY <1>8, TransitionType DEF FinalizeOk, Awaits
<1>9. ASSUME NEW r \in Reports, FinalizeError(r) PROVE TypeOK'
  BY <1>9, FailureStateType DEF FinalizeError, Return, Awaits, Lost, Connection
<1>10. CASE CaptureSucceeds
  BY <1>10 DEF CaptureSucceeds, Return, Awaits, Reports, Connection
<1>11. CASE CaptureFails
  BY <1>11 DEF CaptureFails, Return, Awaits, Reports
<1>12. CASE ServerSucceeds
  <2>1. PICK v \in SettingsAfter(stmt) :
          conn' = [conn EXCEPT
            !.txn = Succeeds(stmt, @),
            !.gucs = v,
            !.saved = IF Succeeds(stmt, conn.txn) = "none" \/ Chains(stmt) THEN v
                      ELSE IF conn.txn = "none" THEN conn.gucs ELSE @]
    BY <1>12 DEF ServerSucceeds
  <2>2. v \in Values
    BY <2>1, SettingsAfterType
  <2>3. conn' \in Connection
    BY <2>1, <2>2, ServerTxnType DEF Connection
  <2> QED
    BY <1>12, <2>3 DEF ServerSucceeds, Awaits
<1>13. CASE ServerRejects
  <2>1. conn' \in Connection
    BY <1>13, ServerTxnType DEF ServerRejects, Connection
  <2> QED
    BY <1>13, <2>1 DEF ServerRejects, Awaits
<1>14. CASE CaptureRejected
  BY <1>14 DEF CaptureRejected, Connection, ServerTxn
<1>15. CASE Environment
  BY <1>15 DEF Environment, LoseLink, DriverStops, Tick, Connection
<1>16. CASE GiveUp
  BY <1>16 DEF GiveUp, mark_uncertain, Return, Awaits, Reports, TransactionState
<1>17. CASE DropCatalogQuery
  BY <1>17 DEF DropCatalogQuery, require_reconnect, mark_uncertain, Return, Awaits,
     Reports, TransactionState
<1>18. CASE take_reconnected
  BY <1>18 DEF take_reconnected
<1>19. CASE ReturnRejected \/ ReturnLost \/ ReturnOutputFailed
  BY <1>9, <1>19 DEF ReturnRejected, ReturnLost, ReturnOutputFailed, Reports
<1> QED
  BY <1>1, <1>2, <1>3, <1>4, <1>5, <1>6, <1>7, <1>8, <1>10, <1>11, <1>12, <1>13,
     <1>14, <1>15, <1>16, <1>17, <1>18, <1>19
  DEF Next, Session, Polled, Server, Caller

\* Every variable keeps its type: in particular a statement makes no more than
\* MaxAttempts attempts to reconnect.
THEOREM TypeCorrect == Spec => []TypeOK
<1>1. Init => TypeOK
  BY InitType
<1>2. TypeOK /\ [Next]_vars => TypeOK'
  BY NextType
<1> QED
  BY <1>1, <1>2, PTL DEF Spec
-----------------------------------------------------------------------------
(***************************************************************************)
(* Nothing is replayed, and an uncertain session stays uncertain.          *)
(***************************************************************************)
LEMMA IInvInit == Init => IInv
BY InitType DEF Init, IInv, UncertainRests, RunsOnce

LEMMA IInvNext == IInv /\ [Next]_vars => IInv'
<1> SUFFICES ASSUME IInv, [Next]_vars PROVE IInv'
  OBVIOUS
<1>0. TypeOK /\ TypeOK'
  BY NextType DEF IInv
<1>a. pc \in Awaits /\ state \in TransactionState /\ runs \in Nat
  BY <1>0 DEF TypeOK
<1> SUFFICES UncertainRests' /\ RunsOnce'
  BY <1>0 DEF IInv
<1>b. UncertainRests /\ RunsOnce
  BY DEF IInv
<1> USE DEF UncertainRests, RunsOnce, fields, history
<1>1. CASE UNCHANGED vars
  BY <1>1, <1>b DEF vars
<1>2. ASSUME NEW s \in Statements, Submit(s) PROVE UncertainRests' /\ RunsOnce'
  BY <1>2, <1>b DEF Submit
<1>3. CASE PrepareRefuses
  BY <1>3, <1>b DEF PrepareRefuses, Return
<1>4. CASE PrepareReconnects
  BY <1>4, <1>b DEF PrepareReconnects, refuses
<1>5. CASE PrepareProceeds
  BY <1>5, <1>b DEF PrepareProceeds, refuses
<1>6. CASE ReconnectSucceeds
  BY <1>6, <1>b DEF ReconnectSucceeds
<1>7. CASE ReconnectFails
  BY <1>7, <1>b DEF ReconnectFails, Return
<1>8. CASE FinalizeOk
  BY <1>8, <1>a, <1>b DEF FinalizeOk, transition, classify
<1>9. ASSUME NEW r, r # "refused", FinalizeError(r)
      PROVE  UncertainRests' /\ RunsOnce'
  BY <1>9, <1>b DEF FinalizeError, Return
<1>10. CASE CaptureSucceeds
  BY <1>10, <1>b DEF CaptureSucceeds, Return
<1>11. CASE CaptureFails
  BY <1>11, <1>b DEF CaptureFails, Return
<1>12. CASE ServerSucceeds
  BY <1>12, <1>b DEF ServerSucceeds
<1>13. CASE ServerRejects
  BY <1>13, <1>b DEF ServerRejects
<1>14. CASE CaptureRejected
  BY <1>14, <1>b DEF CaptureRejected
<1>15. CASE Environment
  BY <1>15, <1>b DEF Environment, LoseLink, DriverStops, Tick
<1>16. CASE GiveUp
  BY <1>16, <1>b DEF GiveUp, mark_uncertain, Return
<1>17. CASE DropCatalogQuery
  BY <1>17, <1>b DEF DropCatalogQuery, require_reconnect, mark_uncertain, Return
<1>18. CASE take_reconnected
  BY <1>18, <1>b DEF take_reconnected
<1>19. CASE ReturnRejected \/ ReturnLost \/ ReturnOutputFailed
  BY <1>9, <1>19 DEF ReturnRejected, ReturnLost, ReturnOutputFailed
<1> QED
  BY <1>1, <1>2, <1>3, <1>4, <1>5, <1>6, <1>7, <1>8, <1>10, <1>11, <1>12, <1>13,
     <1>14, <1>15, <1>16, <1>17, <1>18, <1>19
  DEF Next, Session, Polled, Server, Caller

LEMMA Invariant == Spec => []IInv
<1>1. Init => IInv
  BY IInvInit
<1>2. IInv /\ [Next]_vars => IInv'
  BY IInvNext
<1> QED
  BY <1>1, <1>2, PTL DEF Spec

\* A statement reaches the server at most once, and never when its caller is
\* told that it was refused.
THEOREM NothingIsReplayed == Spec => []NeverReplayed
<1>1. IInv => NeverReplayed
  BY DEF IInv, RunsOnce, NeverReplayed
<1> QED
  BY <1>1, Invariant, PTL

\* The steps of a session that rests: nothing of a statement is under way.
LEMMA UncertainStep ==
  ASSUME IInv, [Next]_vars, state = "Uncertain"
  PROVE  /\ state' = "Uncertain" /\ conn'.id = conn.id
         /\ pc = "prepare" => pc' \in {"prepare", "ready"}
<1>1. pc \in {"ready", "prepare"} /\ conn \in Connection
  BY DEF IInv, UncertainRests, TypeOK
<1> USE DEF fields, history
<1>2. CASE UNCHANGED vars
  BY <1>1, <1>2 DEF vars
<1>3. CASE Session
  <2>1. PrepareRefuses
    BY <1>1, <1>3 DEF Session, Polled, PrepareReconnects, PrepareProceeds, refuses,
       ReconnectSucceeds, ReconnectFails, FinalizeOk, ReturnRejected, ReturnLost,
       ReturnOutputFailed, CaptureSucceeds, CaptureFails
  <2> QED
    BY <2>1 DEF PrepareRefuses, Return
<1>4. CASE Server
  BY <1>1, <1>4 DEF Server, ServerSucceeds, ServerRejects, CaptureRejected
<1>5. CASE Environment
  BY <1>1, <1>5 DEF Environment, LoseLink, DriverStops, Tick, Connection
<1>6. CASE Caller
  BY <1>1, <1>6 DEF Caller, Submit, GiveUp, DropCatalogQuery, mark_uncertain,
     take_reconnected, Return
<1> QED
  BY <1>2, <1>3, <1>4, <1>5, <1>6 DEF Next

\* Once the outcome of the session is uncertain it stays so: no connection is
\* opened for it and no statement passes prepare().
THEOREM UncertainStaysFinal == Spec => UncertainIsFinal
<1>1. IInv /\ [Next]_vars =>
        [state = "Uncertain" => /\ state' = "Uncertain" /\ conn'.id = conn.id
                                /\ (pc = "prepare" => pc' \in {"prepare", "ready"})]_vars
  BY UncertainStep
<1> QED
  BY <1>1, Invariant, PTL DEF Spec, UncertainIsFinal
-----------------------------------------------------------------------------
(***************************************************************************)
(* No connection is replaced across a transaction.                         *)
(***************************************************************************)
LEMMA TInvInit == Init => TInv
BY IInvInit DEF Init, TInv, ToldShows, ReconnectsIdle, EndHasClosed

LEMMA TInvNext ==
  ASSUME AllWellClassified, TInv, [Next]_vars
  PROVE  TInv'
<1>0. IInv /\ IInv'
  BY IInvNext DEF TInv
<1>a. pc \in Awaits /\ state \in TransactionState /\ toldOpen \in BOOLEAN
      /\ stmt \in Statements
  BY <1>0 DEF IInv, TypeOK
<1> SUFFICES ToldShows' /\ ReconnectsIdle' /\ EndHasClosed'
  BY <1>0 DEF TInv
<1>b. ToldShows /\ ReconnectsIdle /\ EndHasClosed
  BY DEF TInv
<1> USE DEF ToldShows, ReconnectsIdle, EndHasClosed, fields, history
<1>1. CASE UNCHANGED vars
  BY <1>1, <1>b DEF vars
<1>2. ASSUME NEW s \in Statements, Submit(s)
      PROVE  ToldShows' /\ ReconnectsIdle' /\ EndHasClosed'
  BY <1>2, <1>b DEF Submit
<1>3. CASE PrepareRefuses
  BY <1>3, <1>b DEF PrepareRefuses, Return
<1>4. CASE PrepareReconnects
  BY <1>4, <1>b DEF PrepareReconnects, refuses, wantsReconnect, boundaryCrossed
<1>5. CASE PrepareProceeds
  BY <1>5, <1>b DEF PrepareProceeds
<1>6. CASE ReconnectSucceeds
  BY <1>6, <1>b DEF ReconnectSucceeds
<1>7. CASE ReconnectFails
  BY <1>7, <1>b DEF ReconnectFails, Return
<1>8. CASE FinalizeOk
  <2>1. CASE Begins(stmt)
    BY <1>8, <2>1 DEF FinalizeOk, Begins, transition
  <2>2. CASE ~Begins(stmt) /\ toldOpen
    <3>1. WellClassified(stmt) /\ ~Ends(stmt) /\ state # "Idle"
      BY <1>8, <1>a, <1>b, <2>2 DEF AllWellClassified, FinalizeOk
    <3>2. state' # "Idle"
      BY <1>8, <1>a, <3>1, LeavesIdleOnlyByEnd DEF FinalizeOk
    <3> QED
      BY <1>8, <3>2 DEF FinalizeOk
  <2>3. CASE ~Begins(stmt) /\ ~toldOpen
    BY <1>8, <2>3 DEF FinalizeOk
  <2> QED
    BY <2>1, <2>2, <2>3
<1>9. ASSUME NEW r, FinalizeError(r)
      PROVE  ToldShows' /\ ReconnectsIdle' /\ EndHasClosed'
  BY <1>0, <1>9, <1>b, FailureStateType DEF FinalizeError, Return, IInv
<1>10. CASE CaptureSucceeds
  BY <1>10, <1>b DEF CaptureSucceeds, Return
<1>11. CASE CaptureFails
  BY <1>11, <1>b DEF CaptureFails, Return
<1>12. CASE ServerSucceeds
  BY <1>12, <1>b DEF ServerSucceeds
<1>13. CASE ServerRejects
  BY <1>13, <1>b DEF ServerRejects
<1>14. CASE CaptureRejected
  BY <1>14, <1>b DEF CaptureRejected
<1>15. CASE Environment
  BY <1>15, <1>b DEF Environment, LoseLink, DriverStops, Tick
<1>16. CASE GiveUp
  BY <1>16, <1>b DEF GiveUp, mark_uncertain, Return
<1>17. CASE DropCatalogQuery
  BY <1>17, <1>b DEF DropCatalogQuery, require_reconnect, mark_uncertain, Return
<1>18. CASE take_reconnected
  BY <1>18, <1>b DEF take_reconnected
<1>19. CASE ReturnRejected \/ ReturnLost \/ ReturnOutputFailed
  BY <1>9, <1>19 DEF ReturnRejected, ReturnLost, ReturnOutputFailed
<1> QED
  BY <1>1, <1>2, <1>3, <1>4, <1>5, <1>6, <1>7, <1>8, <1>10, <1>11, <1>12, <1>13,
     <1>14, <1>15, <1>16, <1>17, <1>18, <1>19
  DEF Next, Session, Polled, Server, Caller

LEMMA TransactionInvariant ==
  ASSUME AllWellClassified
  PROVE  Spec => []TInv
<1>1. Init => TInv
  BY TInvInit
<1>2. TInv /\ [Next]_vars => TInv'
  BY TInvNext
<1> QED
  BY <1>1, <1>2, PTL DEF Spec

\* Only one action replaces the connection.
LEMMA OnlyReconnectReplaces ==
  ASSUME IInv, [Next]_vars, conn'.id # conn.id
  PROVE  ReconnectSucceeds
<1>1. conn \in Connection
  BY DEF IInv, TypeOK
<1> USE DEF fields, history
<1>2. ~UNCHANGED vars
  BY DEF vars
<1>3. ~Server
  BY <1>1 DEF Server, ServerSucceeds, ServerRejects, CaptureRejected, Connection
<1>4. ~Environment
  BY <1>1 DEF Environment, LoseLink, DriverStops, Tick, Connection
<1>5. ~Caller
  BY DEF Caller, Submit, GiveUp, DropCatalogQuery, take_reconnected
<1>6. CASE Session
  BY <1>6 DEF Session, Polled, PrepareRefuses, PrepareReconnects, PrepareProceeds,
     ReconnectFails, FinalizeOk, FinalizeError, ReturnRejected, ReturnLost,
     ReturnOutputFailed, CaptureSucceeds, CaptureFails
<1> QED
  BY <1>2, <1>3, <1>4, <1>5, <1>6 DEF Next

\* The connection is never replaced while the user has a transaction open that
\* he was told of, provided that every statement ends a transaction when the
\* classifier says so.
THEOREM NoReconnectAcrossTransaction ==
  ASSUME AllWellClassified
  PROVE  Spec => NeverReconnectsAcrossTransaction
<1>1. TInv /\ [Next]_vars => [conn'.id # conn.id => ~toldOpen]_vars
  <2> SUFFICES ASSUME TInv, [Next]_vars, conn'.id # conn.id PROVE ~toldOpen
    OBVIOUS
  <2>1. ReconnectSucceeds
    BY OnlyReconnectReplaces DEF TInv
  <2> QED
    BY <2>1 DEF TInv, ToldShows, ReconnectsIdle, ReconnectSucceeds
<1> QED
  BY <1>1, TransactionInvariant, PTL DEF Spec, NeverReconnectsAcrossTransaction
-----------------------------------------------------------------------------
(***************************************************************************)
(* The session implements the promise of SessionRefresh.                   *)
(***************************************************************************)
LEMMA PromiseStep ==
  ASSUME TInv, [Next]_vars
  PROVE  [Promise!Next]_(Promise!vars)
<1>0. IInv /\ ToldShows /\ ReconnectsIdle /\ EndHasClosed
  BY DEF TInv
<1>a. /\ conn \in Connection /\ pc \in Awaits /\ runs \in Nat
      /\ toldOpen \in BOOLEAN /\ RunsOnce
  BY <1>0 DEF IInv, TypeOK
<1> USE DEF fields, history, callBar, Awaits
<1>s. ASSUME UNCHANGED <<conn.id, toldOpen, callBar>>
      PROVE  [Promise!Next]_(Promise!vars)
  BY <1>s DEF Promise!vars
<1>r. ASSUME callBar # "none", pc' = "ready", UNCHANGED <<conn.id, toldOpen>>
      PROVE  Promise!Next
  BY <1>r DEF Promise!Next, Promise!Return
<1>1. CASE UNCHANGED vars
  BY <1>1, <1>s DEF vars
<1>2. ASSUME NEW s \in Statements, Submit(s) PROVE Promise!Next
  BY <1>2 DEF Submit, Promise!Next, Promise!Ask
<1>3. CASE PrepareRefuses \/ CaptureSucceeds \/ CaptureFails
  BY <1>3, <1>r DEF PrepareRefuses, CaptureSucceeds, CaptureFails, Return
<1>4. CASE PrepareReconnects \/ PrepareProceeds
  BY <1>4, <1>s DEF PrepareReconnects, PrepareProceeds
<1>5. CASE ReconnectSucceeds
  <2>1. ~toldOpen /\ callBar = "asked" /\ callBar' = "asked"
    BY <1>0, <1>5, <1>a DEF ReconnectSucceeds, ToldShows, ReconnectsIdle, RunsOnce
  <2>2. conn'.id = conn.id + 1 /\ toldOpen' = toldOpen
    BY <1>5 DEF ReconnectSucceeds, Restored
  <2> QED
    BY <2>1, <2>2 DEF Promise!Next, Promise!Refresh
<1>6. CASE ReconnectFails
  <2>1. CASE attempt < MaxAttempts - 1
    BY <1>6, <2>1, <1>s DEF ReconnectFails
  <2>2. CASE ~(attempt < MaxAttempts - 1)
    BY <1>6, <2>2, <1>r DEF ReconnectFails, Return
  <2> QED
    BY <2>1, <2>2
<1>7. CASE FinalizeOk
  <2>1. pc = "succeeded" /\ pc' = "capture" /\ UNCHANGED <<conn, runs>>
        /\ toldOpen' = (toldOpen \/ Begins(stmt))
    BY <1>7 DEF FinalizeOk
  <2>2. CASE toldOpen' = toldOpen
    BY <2>1, <2>2, <1>s
  <2>3. CASE toldOpen' # toldOpen
    <3>1. runs = 1 /\ toldOpen' = TRUE
      BY <2>1, <2>3, <1>a DEF RunsOnce
    <3> QED
      BY <2>1, <3>1 DEF Promise!Next, Promise!Report
  <2> QED
    BY <2>2, <2>3
<1>8. CASE ServerSucceeds \/ ServerRejects
  <2>1. pc = "execute" /\ runs' = runs + 1 /\ pc' \in {"succeeded", "rejected"}
    BY <1>8 DEF ServerSucceeds, ServerRejects
  <2>2. runs = 0 /\ runs' = 1
    BY <2>1, <1>a DEF RunsOnce
  <2>3. conn'.id = conn.id
    BY <1>8, <1>a DEF ServerSucceeds, ServerRejects, Connection
  <2>4. toldOpen' \in {toldOpen, FALSE}
    BY <1>8, <1>a DEF ServerSucceeds, ServerRejects
  <2>5. callBar = "asked" /\ callBar' = "ran"
    BY <2>1, <2>2
  <2>6. Promise!Run
    BY <2>3, <2>4, <2>5 DEF Promise!Run
  <2> QED
    BY <2>6 DEF Promise!Next
<1>9. CASE CaptureRejected \/ Environment
  BY <1>9, <1>a, <1>s DEF CaptureRejected, Environment, LoseLink, DriverStops, Tick,
     Connection
<1>10. CASE ReturnRejected \/ ReturnLost \/ ReturnOutputFailed \/ DropCatalogQuery
  BY <1>10, <1>r DEF ReturnRejected, ReturnLost, ReturnOutputFailed,
     DropCatalogQuery, FinalizeError, Return
<1>11. CASE GiveUp
  <2>1. CASE pc = "ready"
    BY <1>11, <2>1, <1>s DEF GiveUp, Return
  <2>2. CASE pc # "ready"
    BY <1>11, <2>2, <1>r DEF GiveUp, Return
  <2> QED
    BY <2>1, <2>2
<1>12. CASE take_reconnected
  BY <1>12, <1>s DEF take_reconnected
<1> QED
  BY <1>1, <1>2, <1>3, <1>4, <1>5, <1>6, <1>7, <1>8, <1>9, <1>10, <1>11, <1>12
  DEF Next, Session, Polled, Server, Caller

\* Every behaviour of the session, with any clock, network and server, is one
\* that SessionRefresh promises.
THEOREM SessionKeepsPromise ==
  ASSUME AllWellClassified
  PROVE  Spec => KeepsPromise
<1>1. Init => Promise!Init
  BY DEF Init, Promise!Init, Restored, callBar
<1>2. TInv /\ [Next]_vars => [Promise!Next]_(Promise!vars)
  BY PromiseStep
<1> QED
  BY <1>1, <1>2, TransactionInvariant, PTL DEF Spec, KeepsPromise, Promise!Spec
-----------------------------------------------------------------------------
(***************************************************************************)
(* The prompt promises no more than the server holds, and a replacement    *)
(* restores the settings in force.  Between the server's answer and        *)
(* finalize() the prompt lags behind, so that what is invariant there is   *)
(* what finalize() and the capture will make of it.                        *)
(***************************************************************************)
\* Does a prompt state fit the server's status?  An Active one may be aborted
\* while its settings are captured.
Fits(s, t) == /\ s = "Idle" => t = "none"
              /\ s = "Active" => t # "none"

AliveWhileUp == conn.link = "up" => conn.alive

\* Settings the server returns to are those in force outside a transaction.
SavedWhenNone == conn.txn = "none" => conn.gucs = conn.saved

PromptFits ==
  conn.link = "up" /\ ~outputFailed =>
    /\ pc \in {"ready", "prepare", "reconnect", "execute"} =>
         /\ Fits(state, conn.txn)
         /\ state = "Active" /\ settings_current => conn.txn = "open"
    /\ pc = "rejected" /\ state = "Idle" => conn.txn = "none"
    /\ pc = "succeeded" => Fits(transition(state, classify(stmt)), conn.txn)
    /\ pc = "capture" => Fits(state, conn.txn)

\* A statement that sets nothing leaves the captured settings true throughout.
SettingsMatch ==
  /\ conn.link = "up" /\ ~outputFailed /\ state = "Idle" /\ settings_current
  /\ pc \in {"succeeded", "capture"} => classify(stmt) = "Other" /\ ~Sets(stmt)
  => settings = conn.gucs

\* prepare() refuses a reconnect that could not restore them.
ReconnectsCurrent == pc = "reconnect" => settings_current

PInv == TInv /\ AliveWhileUp /\ SavedWhenNone /\ PromptFits /\ SettingsMatch
          /\ ReconnectsCurrent

\* A statement the server accepts leaves it as the prompt will say.
LEMMA AcceptedFits ==
  ASSUME NEW s, WellClassified(s), NEW t \in ServerTxn, Accepts(s, t),
         NEW before \in TransactionState, before # "Uncertain", Fits(before, t)
  PROVE  Fits(transition(before, classify(s)), Succeeds(s, t))
<1>1. ~Chains(s) /\ (ToSavepoint(s) => classify(s) = "RollbackTo")
  BY DEF WellClassified, ToSavepoint, classify, Commits, Aborts, Is
<1>2. CASE Begins(s)
  <2>1. ~Commits(s) /\ ~Aborts(s)
    BY <1>2 DEF Begins, classify, Commits, Aborts, Is
  <2>2. Succeeds(s, t) = "open"
    BY <1>1, <1>2, <2>1 DEF Succeeds, Ends
  <2>3. transition(before, classify(s)) = "Active"
    BY <1>2 DEF Begins, transition
  <2> QED
    BY <2>2, <2>3 DEF Fits
<1>3. CASE classify(s) \in {"Commit", "Rollback"}
  <2>1. Ends(s)
    BY <1>3, EndsWhatItSays
  <2>2. transition(before, classify(s)) = "Idle"
    BY <1>3 DEF transition
  <2>3. Succeeds(s, t) = "none"
    BY <1>1, <1>3, <2>1 DEF Begins, Succeeds
  <2> QED
    BY <2>2, <2>3 DEF Fits
<1>4. CASE ~Begins(s) /\ classify(s) \notin {"Commit", "Rollback"}
  <2>1. transition(before, classify(s)) = before
    BY <1>4 DEF Begins, transition
  <2>2. ~Ends(s)
    BY <1>1, <1>4 DEF Ends, classify, ToSavepoint, Commits, Aborts, Is
  <2>3. Succeeds(s, t) = IF ToSavepoint(s) THEN "open" ELSE t
    BY <1>1, <1>4, <2>2 DEF Succeeds
  <2>4. ToSavepoint(s) => t # "none"
    BY DEF Accepts, NeedsTransaction
  <2> QED
    BY <2>1, <2>3, <2>4 DEF Fits
<1> QED
  BY <1>2, <1>3, <1>4

\* A statement that controls and sets nothing leaves the settings alone.
LEMMA SettingsStay ==
  ASSUME NEW s, classify(s) = "Other", ~Sets(s)
  PROVE  SettingsAfter(s) = {conn.gucs}
<1>1. ~Commits(s) /\ ~Aborts(s)
  BY DEF classify
<1> QED
  BY <1>1 DEF SettingsAfter, ToSavepoint

LEMMA PInvInit == Init => PInv
BY TInvInit DEF Init, PInv, Restored, AliveWhileUp, SavedWhenNone, PromptFits, Fits,
   SettingsMatch, ReconnectsCurrent

LEMMA PInvNext ==
  ASSUME AllWellClassified, PInv, [Next]_vars
  PROVE  PInv'
<1> DEFINE Parts == /\ AliveWhileUp /\ SavedWhenNone /\ PromptFits /\ SettingsMatch
                    /\ ReconnectsCurrent
<1>0. TInv' /\ IInv /\ Parts
  BY TInvNext DEF PInv, TInv
<1>a. /\ pc \in Awaits /\ state \in TransactionState /\ stmt \in Statements
      /\ settings_current \in BOOLEAN /\ outputFailed \in BOOLEAN /\ conn \in Connection
      /\ WellClassified(stmt)
  BY <1>0 DEF IInv, TypeOK, AllWellClassified
<1>b. conn.link \in {"up", "down"} /\ conn.txn \in ServerTxn
  BY <1>a DEF Connection
<1>c. state = "Uncertain" => pc \in {"ready", "prepare"}
  BY <1>0 DEF IInv, UncertainRests
<1> SUFFICES Parts'
  BY <1>0 DEF PInv
<1>p. AliveWhileUp /\ SavedWhenNone /\ PromptFits /\ SettingsMatch /\ ReconnectsCurrent
  BY <1>0
<1>o. classify(stmt) = "Other" => transition(state, classify(stmt)) = state
  BY DEF transition
<1> USE DEF AliveWhileUp, SavedWhenNone, PromptFits, SettingsMatch, ReconnectsCurrent, Awaits,
        fields, history
<1> HIDE <1>0
<1>1. CASE UNCHANGED vars
  BY <1>p, <1>1 DEF vars, Fits
<1>2. ASSUME NEW s \in Statements, Submit(s) PROVE Parts'
  BY <1>p, <1>2 DEF Submit
<1>3. CASE PrepareRefuses
  BY <1>p, <1>3 DEF PrepareRefuses, Return
<1>4. CASE PrepareReconnects
  BY <1>p, <1>4 DEF PrepareReconnects, refuses, unsafeReconnect
<1>5. CASE PrepareProceeds
  BY <1>p, <1>5 DEF PrepareProceeds
<1>6. CASE ReconnectSucceeds
  <2>1. state = "Idle"
    BY <1>6 DEF PInv, TInv, ReconnectsIdle, ReconnectSucceeds
  <2> QED
    BY <1>p, <1>6, <2>1 DEF ReconnectSucceeds, Restored, Fits
<1>7. CASE ReconnectFails
  BY <1>p, <1>7 DEF ReconnectFails, Return
<1>8. CASE FinalizeOk
  <2>1. /\ pc = "succeeded" /\ pc' = "capture" /\ state' = transition(state, classify(stmt))
        /\ UNCHANGED <<settings, settings_current, conn, stmt, outputFailed>>
    BY <1>8 DEF FinalizeOk
  <2>2. SettingsMatch'
    BY <1>p, <2>1, <1>o
  <2> QED
    BY <1>p, <2>1, <2>2
<1>9. ASSUME NEW r, FinalizeError(r), pc = "rejected" \/ conn.link = "down" \/ r = "output"
      PROVE  Parts'
  BY <1>p, <1>b, <1>9 DEF FinalizeError, failureState, Return, Lost, Fits
<1>10. CASE CaptureSucceeds
  BY <1>p, <1>b, <1>10 DEF CaptureSucceeds, Return, Fits, ServerTxn
<1>11. CASE CaptureFails
  BY <1>p, <1>11 DEF CaptureFails, Return, Fits
<1>12. CASE ServerSucceeds
  <2>1. /\ pc = "execute" /\ conn.link = "up" /\ Accepts(stmt, conn.txn)
        /\ pc' = "succeeded" /\ UNCHANGED <<fields, stmt, outputFailed>>
    BY <1>12 DEF ServerSucceeds
  <2>2. PICK v \in SettingsAfter(stmt) :
          conn' = [conn EXCEPT
            !.txn = Succeeds(stmt, @),
            !.gucs = v,
            !.saved = IF Succeeds(stmt, conn.txn) = "none" \/ Chains(stmt) THEN v
                      ELSE IF conn.txn = "none" THEN conn.gucs ELSE @]
    BY <1>12 DEF ServerSucceeds
  <2>3. /\ conn'.txn = Succeeds(stmt, conn.txn) /\ conn'.gucs = v
        /\ conn'.link = conn.link /\ conn'.alive = conn.alive
        /\ conn'.txn = "none" => conn'.saved = v
    BY <1>a, <2>2 DEF Connection
  <2>4. PromptFits'
    BY <1>a, <1>b, <1>c, <1>p, <2>1, <2>3, AcceptedFits
  <2>5. SettingsMatch'
    BY <1>p, <2>1, <2>2, <2>3, SettingsStay
  <2> QED
    BY <1>p, <2>1, <2>3, <2>4, <2>5
<1>13. CASE ServerRejects
  <2>1. /\ pc = "execute" /\ conn.link = "up"
        /\ pc' = "rejected" /\ UNCHANGED <<fields, stmt, outputFailed>>
        /\ conn'.txn = Fails(stmt, conn.txn) /\ conn'.gucs = conn.saved
        /\ conn'.link = conn.link /\ conn'.alive = conn.alive /\ conn'.saved = conn.saved
    BY <1>13, <1>a DEF ServerRejects, Connection
  <2>2. conn.txn = "none" => conn'.txn = "none" /\ conn'.gucs = conn.gucs
    BY <1>p, <2>1 DEF Fails
  <2> QED
    BY <1>p, <2>1, <2>2 DEF Fits
<1>14. CASE CaptureRejected
  BY <1>p, <1>a, <1>14 DEF CaptureRejected, Connection, Fits
<1>15. CASE LoseLink \/ DriverStops
  BY <1>p, <1>a, <1>15 DEF LoseLink, DriverStops, Connection, Fits
<1>16. CASE Tick
  BY <1>p, <1>16 DEF Tick
<1>17. CASE GiveUp
  BY <1>p, <1>17 DEF GiveUp, mark_uncertain, Return, Fits
<1>18. CASE DropCatalogQuery
  <2>1. /\ pc # "ready" /\ state = "Idle" /\ classify(stmt) = "Other" /\ ~Sets(stmt)
        /\ pc' = "ready" /\ state' = "Idle"
        /\ UNCHANGED <<settings, settings_current, conn, stmt, outputFailed>>
    BY <1>18 DEF DropCatalogQuery, require_reconnect, Return
  <2>2. SettingsMatch'
    BY <1>p, <2>1
  <2>3. conn.link = "up" /\ ~outputFailed => conn.txn = "none"
    BY <1>a, <1>p, <1>o, <2>1 DEF Fits
  <2> QED
    BY <1>p, <2>1, <2>2, <2>3 DEF Fits
<1>19. CASE take_reconnected
  BY <1>p, <1>19 DEF take_reconnected
<1>20. CASE ReturnRejected \/ ReturnLost \/ ReturnOutputFailed
  BY <1>9, <1>20 DEF ReturnRejected, ReturnLost, ReturnOutputFailed
<1> QED
  BY <1>1, <1>2, <1>3, <1>4, <1>5, <1>6, <1>7, <1>8, <1>10, <1>11, <1>12, <1>13,
     <1>14, <1>15, <1>16, <1>17, <1>18, <1>19, <1>20
  DEF Next, Session, Polled, Server, Environment, Caller

LEMMA PromptInvariant ==
  ASSUME AllWellClassified
  PROVE  Spec => []PInv
<1>1. Init => PInv
  BY PInvInit
<1>2. PInv /\ [Next]_vars => PInv'
  BY PInvNext
<1> QED
  BY <1>1, <1>2, PTL DEF Spec

\* At rest on a live link the prompt promises no more than the server holds, as
\* long as every statement is classified as the server reads it.
THEOREM PromptStaysSound ==
  ASSUME AllWellClassified
  PROVE  Spec => []PromptIsSound
<1>1. PInv => PromptIsSound
  <2> SUFFICES ASSUME PInv, pc = "ready", conn.link = "up", ~outputFailed
               PROVE  /\ ShellPrompt(state) = "=" => conn.txn = "none"
                      /\ ShellPrompt(state) = "=*" /\ settings_current => conn.txn = "open"
    BY DEF PromptIsSound
  <2>1. state \in TransactionState
    BY DEF PInv, TInv, IInv, TypeOK
  <2>2. /\ ShellPrompt(state) = "=" => state = "Idle"
        /\ ShellPrompt(state) = "=*" => state = "Active"
    BY <2>1 DEF ShellPrompt, TransactionState
  <2> QED
    BY <2>2 DEF PInv, PromptFits, Fits
<1> QED
  BY <1>1, PromptInvariant, PTL

\* A connection that still works is replaced only by one with the same settings.
THEOREM RefreshKeepsSettings ==
  ASSUME AllWellClassified
  PROVE  Spec => SettingsSurviveRefresh
<1>1. PInv /\ [Next]_vars =>
        [conn'.id # conn.id /\ conn.link = "up" /\ ~outputFailed
         => conn'.gucs = conn.gucs]_vars
  <2> SUFFICES ASSUME PInv, [Next]_vars, conn'.id # conn.id, conn.link = "up", ~outputFailed
               PROVE  conn'.gucs = conn.gucs
    OBVIOUS
  <2>1. ReconnectSucceeds
    BY OnlyReconnectReplaces DEF PInv, TInv
  <2>2. conn'.gucs = settings /\ pc = "reconnect"
    BY <2>1 DEF ReconnectSucceeds, Restored
  <2>3. settings = conn.gucs
    BY <2>2 DEF PInv, TInv, ReconnectsIdle, ReconnectsCurrent, SettingsMatch
  <2> QED
    BY <2>2, <2>3
<1> QED
  BY <1>1, PromptInvariant, PTL DEF Spec, SettingsSurviveRefresh
-----------------------------------------------------------------------------

(***************************************************************************)
(* The shell.  Its invariant: only statements are queued, and a failed     *)
(* cancellation is either remembered by the statement it was meant for or  *)
(* has made the session uncertain.                                         *)
(***************************************************************************)
QueueHolds == queue \in Seq(Statements)
DistrustIsRemembered ==
  distrusted => \/ state = "Uncertain"
                \/ phase = "interrupted" /\ cancellation \in {"unavailable", "failed"}
ShellInv == IInv /\ QueueHolds /\ DistrustIsRemembered

\* A step of the shell is a step of the session or none.
LEMMA ShellStep ==
  ASSUME QueueHolds, [ShellNext]_allVars
  PROVE  [Next]_vars
<1>1. CASE UNCHANGED allVars
  BY <1>1 DEF allVars
<1>2. CASE ReadSubmission \/ Interrupt \/ Cancellation
  BY <1>2 DEF ReadSubmission, Interrupt, Cancellation, CancelUnavailable,
     RequestCancel, CancelSucceeds, CancelFails
<1>3. CASE RunStatement
  <2>1. Head(queue) \in Statements /\ Submit(Head(queue))
    BY <1>3 DEF QueueHolds, RunStatement
  <2> QED
    BY <2>1 DEF Next, Caller
<1>4. CASE PollStatement
  BY <1>4 DEF PollStatement, Next, Session
<1>5. CASE Settle \/ EndShell \/ Announce
  BY <1>5 DEF Settle, EndShell, Announce, Next, Caller
<1>6. CASE ServerAnswers \/ World \/ \E c \in cancels : CancelArrives(c)
  BY <1>6 DEF ServerAnswers, World, CancelArrives, Next, Server
<1> QED
  BY <1>1, <1>2, <1>3, <1>4, <1>5, <1>6 DEF ShellNext

LEMMA ShellInvInit == ShellInit => ShellInv
BY IInvInit DEF ShellInit, ShellInv, QueueHolds, DistrustIsRemembered

LEMMA ShellInvNext == ShellInv /\ [ShellNext]_allVars => ShellInv'
<1> SUFFICES ASSUME ShellInv, [ShellNext]_allVars PROVE ShellInv'
  OBVIOUS
<1>1. [Next]_vars
  BY ShellStep DEF ShellInv
<1>2. IInv'
  BY <1>1, IInvNext DEF ShellInv
<1>3. QueueHolds'
  <2>1. CASE ReadSubmission
    <3>1. PICK n \in 1 .. MaxSubmission : queue' \in [1 .. n -> Statements]
      BY <2>1 DEF ReadSubmission
    <3>2. n \in Nat
      BY <3>1, SubmissionAssumption
    <3> QED
      BY <3>1, <3>2 DEF QueueHolds
  <2>2. CASE RunStatement
    BY <2>2 DEF ShellInv, QueueHolds, RunStatement
  <2>3. CASE queue' = queue
    BY <2>3 DEF ShellInv, QueueHolds
  <2>4. CASE queue' = <<>>
    BY <2>4 DEF QueueHolds
  <2> QED
    BY <2>1, <2>2, <2>3, <2>4 DEF ShellNext, PollStatement, Settle, Announce, Interrupt,
       Cancellation, CancelUnavailable, RequestCancel, CancelSucceeds, CancelFails,
       EndShell, CancelArrives, ServerAnswers, World, allVars, shellVars
<1>4. state = "Uncertain" => state' = "Uncertain"
  BY <1>1, UncertainStep DEF ShellInv
<1>5. DistrustIsRemembered'
  <2>1. CASE CancelUnavailable \/ CancelFails
    BY <2>1 DEF CancelUnavailable, CancelFails, DistrustIsRemembered
  <2>2. CASE Settle \/ EndShell
    BY <1>4, <2>2 DEF Settle, EndShell, GiveUp, mark_uncertain, ShellInv,
       DistrustIsRemembered
  <2>3. CASE ReadSubmission \/ RunStatement \/ Interrupt \/ RequestCancel \/ CancelSucceeds
    BY <1>4, <2>3 DEF ReadSubmission, RunStatement, Interrupt, RequestCancel,
       CancelSucceeds, ShellInv, DistrustIsRemembered
  <2>4. CASE UNCHANGED <<phase, cancellation, distrusted>>
    BY <1>4, <2>4 DEF ShellInv, DistrustIsRemembered
  <2> QED
    BY <2>1, <2>2, <2>3, <2>4 DEF ShellNext, PollStatement, Announce, Cancellation,
       CancelArrives, ServerAnswers, World, allVars, shellVars
<1> QED
  BY <1>2, <1>3, <1>5 DEF ShellInv

LEMMA ShellInvariant == ShellSpec => []ShellInv
<1>1. ShellInit => ShellInv
  BY ShellInvInit
<1>2. ShellInv /\ [ShellNext]_allVars => ShellInv'
  BY ShellInvNext
<1> QED
  BY <1>1, <1>2, PTL DEF ShellSpec

\* Whatever signals come at whatever await, the shell uses the session as
\* ManagedSession specifies: every theorem about Spec is one about the shell.
THEOREM ShellUsesSession == ShellSpec => UsesSession
<1>1. ShellInit => Init
  BY DEF ShellInit
<1>2. ShellInv /\ [ShellNext]_allVars => [Next]_vars
  BY ShellStep DEF ShellInv
<1> QED
  BY <1>1, <1>2, ShellInvariant, PTL DEF ShellSpec, UsesSession

\* After a request to cancel has failed, no later statement passes prepare().
THEOREM FailedCancellationStopsSession == ShellSpec => []DistrustedRunsNothing
<1>1. ShellInv => DistrustedRunsNothing
  BY DEF ShellInv, DistrustIsRemembered, IInv, UncertainRests, DistrustedRunsNothing
<1> QED
  BY <1>1, ShellInvariant, PTL
-----------------------------------------------------------------------------

(***************************************************************************)
(* A catalog load.  Its invariant: it runs its queries one after another   *)
(* on a session without a transaction; a connection with an abandoned      *)
(* query was replaced, or is still the current one and has to be.          *)
(***************************************************************************)
RestsBetween == stage \in {"prompt", "next"} => pc = "ready"
LoadsIdle ==
  stage \in Loading => state = "Idle" /\ (pc # "ready" => stmt = CatalogQuery)
AbandonedIsReplaced ==
  \A c \in unsettled :
    /\ c \in Nat /\ c <= conn.id
    /\ c = conn.id => /\ reconnect_required \/ state = "Uncertain"
                      /\ pc \in {"ready", "prepare", "reconnect"}
CatalogInv ==
  IInv /\ RestsBetween /\ LoadsIdle /\ AbandonedIsReplaced

\* A step of the shell or of a load is a step of the session or none.
LEMMA CatalogStep == ASSUME [CatalogNext]_catalogVars PROVE [Next]_vars
<1>1. CASE UNCHANGED catalogVars
  BY <1>1 DEF catalogVars
<1>2. CASE Poll \/ CatalogWorld \/ AnnounceReconnect
  BY <1>2 DEF Poll, CatalogWorld, AnnounceReconnect, Next, Session, Caller
<1>3. CASE CatalogServerAnswers \/ \E c \in loadCancels : LoadCancelArrives(c)
  BY <1>3 DEF CatalogServerAnswers, LoadCancelArrives, Next, Server
<1>4. CASE UserSubmits
  <2>1. PICK s \in Statements : Submit(s)
    BY <1>4 DEF UserSubmits
  <2> QED
    BY <2>1 DEF Next, Caller
<1>5. CASE BeginQuery
  BY <1>5, CatalogAssumption DEF BeginQuery, Next, Caller
<1>6. CASE DropQuery
  BY <1>6 DEF DropQuery, Next, Caller
<1>7. CASE StatementReturns \/ Refresh \/ LoadExpires \/ SkipQuery \/ QueryReturns
           \/ CancelReturns \/ Install
  BY <1>7 DEF StatementReturns, Refresh, LoadExpires, SkipQuery, QueryReturns,
     CancelReturns, Install
<1> QED
  BY <1>1, <1>2, <1>3, <1>4, <1>5, <1>6, <1>7 DEF CatalogNext, Load

\* A catalog query controls no transaction and changes neither a setting nor the
\* schema.
LEMMA CatalogReads ==
  /\ classify(CatalogQuery) = "Other"
  /\ ~Commits(CatalogQuery) /\ ~Sets(CatalogQuery)
  /\ ~is_schema_changing(CatalogQuery)
BY CatalogAssumption DEF classify, Commits, Aborts, Is, Sets, is_schema_changing

\* What the statement in progress may do to a session without a transaction.
LEMMA CatalogPollIsIdle ==
  ASSUME Polled \/ ServerSucceeds \/ ServerRejects \/ CaptureRejected \/ Environment,
         state = "Idle", stmt = CatalogQuery
  PROVE  state' = "Idle" /\ stmt' = stmt
<1>1. classify(stmt) = "Other"
  BY CatalogReads
<1>2. CASE FinalizeOk
  BY <1>1, <1>2 DEF FinalizeOk, transition
<1>3. CASE ReturnRejected \/ ReturnLost
  BY <1>1, <1>3 DEF ReturnRejected, ReturnLost, FinalizeError, failureState
<1>4. CASE ~FinalizeOk /\ ~ReturnRejected /\ ~ReturnLost
  BY <1>4 DEF Polled, PrepareRefuses, PrepareReconnects, PrepareProceeds,
     ReconnectSucceeds, ReconnectFails, CaptureSucceeds, CaptureFails, ServerSucceeds,
     ServerRejects, CaptureRejected, Environment, LoseLink, DriverStops, Tick, fields
<1> QED
  BY <1>2, <1>3, <1>4

\* Only an execution that got past prepare() moves, and none of its steps is
\* taken at `ready'.
LEMMA SessionMoves ==
  ASSUME Polled \/ ServerSucceeds \/ ServerRejects \/ CaptureRejected \/ Environment
  PROVE  pc = "ready" => pc' = "ready"
BY DEF Polled, PrepareRefuses, PrepareReconnects, PrepareProceeds, ReconnectSucceeds,
   ReconnectFails, FinalizeOk, ReturnRejected, ReturnLost, FinalizeError, Return,
   CaptureSucceeds, CaptureFails, ServerSucceeds, ServerRejects, CaptureRejected,
   Environment, LoseLink, DriverStops, Tick

\* A connection that must be replaced is, before anything runs.
LEMMA AbandonedStays ==
  ASSUME TypeOK, AbandonedIsReplaced, unsettled' = unsettled,
         Polled \/ ServerSucceeds \/ ServerRejects \/ CaptureRejected \/ Environment
  PROVE  AbandonedIsReplaced'
<1>1. conn \in Connection /\ conn.id \in Nat
  BY BoundsAssumption DEF TypeOK, Connection
<1> SUFFICES ASSUME NEW c \in unsettled
             PROVE  /\ c \in Nat /\ c <= conn'.id
                    /\ c = conn'.id =>
                         /\ reconnect_required' \/ state' = "Uncertain"
                         /\ pc' \in {"ready", "prepare", "reconnect"}
  BY DEF AbandonedIsReplaced
<1>2. /\ c \in Nat /\ c <= conn.id
      /\ c = conn.id => /\ reconnect_required \/ state = "Uncertain"
                        /\ pc \in {"ready", "prepare", "reconnect"}
  BY DEF AbandonedIsReplaced
<1>3. CASE ReconnectSucceeds
  <2>1. conn'.id = conn.id + 1
    BY <1>3 DEF ReconnectSucceeds, Restored
  <2> QED
    BY <1>1, <1>2, <2>1
<1>4. CASE PrepareRefuses \/ PrepareReconnects \/ PrepareProceeds \/ ReconnectFails
  BY <1>2, <1>4 DEF PrepareRefuses, PrepareReconnects, PrepareProceeds, ReconnectFails,
     refuses, wantsReconnect, mustReconnect, Return, fields
<1>5. CASE ServerSucceeds \/ ServerRejects \/ CaptureRejected
  BY <1>1, <1>2, <1>5 DEF ServerSucceeds, ServerRejects, CaptureRejected, Connection
<1>6. CASE FinalizeOk \/ ReturnRejected \/ ReturnLost \/ CaptureSucceeds \/ CaptureFails
  BY <1>2, <1>6 DEF FinalizeOk, ReturnRejected, ReturnLost, FinalizeError, CaptureSucceeds,
     CaptureFails
<1>7. CASE LoseLink \/ DriverStops \/ Tick
  <2>1. conn'.id = conn.id
    BY <1>1, <1>7 DEF LoseLink, DriverStops, Tick, Connection
  <2> QED
    BY <1>2, <1>7, <2>1 DEF LoseLink, DriverStops, Tick, fields
<1> QED
  BY <1>3, <1>4, <1>5, <1>6, <1>7 DEF Polled, Environment
-----------------------------------------------------------------------------
LEMMA CatalogInvInit == CatalogInit => CatalogInv
BY IInvInit DEF CatalogInit, Init, CatalogInv, RestsBetween, LoadsIdle, Loading, Stages,
   AbandonedIsReplaced

\* The steps that belong to the session: what is polled, the server, the world.
LEMMA SessionKeepsCatalogInv ==
  ASSUME CatalogInv, UNCHANGED unsettled,
         Polled \/ ServerSucceeds \/ ServerRejects \/ CaptureRejected \/ Environment,
         stage' = stage
  PROVE  RestsBetween' /\ LoadsIdle' /\ AbandonedIsReplaced'
<1>1. AbandonedIsReplaced'
  BY AbandonedStays DEF CatalogInv, IInv
<1>2. RestsBetween'
  BY SessionMoves DEF CatalogInv, RestsBetween
<1>3. LoadsIdle'
  <2> SUFFICES ASSUME stage \in Loading
               PROVE  state' = "Idle" /\ (pc' # "ready" => stmt' = CatalogQuery)
    BY DEF LoadsIdle
  <2>1. state = "Idle" /\ (pc # "ready" => stmt = CatalogQuery)
    BY DEF CatalogInv, LoadsIdle
  <2>2. CASE pc = "ready"
    BY <2>1, <2>2, SessionMoves DEF Polled, PrepareRefuses, PrepareReconnects,
       PrepareProceeds, ReconnectSucceeds, ReconnectFails, FinalizeOk, ReturnRejected,
       ReturnLost, CaptureSucceeds, CaptureFails, ServerSucceeds, ServerRejects,
       CaptureRejected, Environment, LoseLink, DriverStops, Tick, fields
  <2>3. CASE pc # "ready"
    BY <2>1, <2>3, CatalogPollIsIdle
  <2> QED
    BY <2>2, <2>3
<1> QED
  BY <1>1, <1>2, <1>3

LEMMA CatalogInvNext == CatalogInv /\ [CatalogNext]_catalogVars => CatalogInv'
<1> SUFFICES ASSUME CatalogInv, [CatalogNext]_catalogVars PROVE CatalogInv'
  OBVIOUS
<1>1. IInv'
  BY CatalogStep, IInvNext DEF CatalogInv
<1>2. conn \in Connection /\ conn.id \in Nat
  BY BoundsAssumption DEF CatalogInv, IInv, TypeOK, Connection
<1> SUFFICES RestsBetween' /\ LoadsIdle' /\ AbandonedIsReplaced'
  BY <1>1 DEF CatalogInv
<1>3. RestsBetween /\ LoadsIdle /\ AbandonedIsReplaced
  BY DEF CatalogInv
<1> USE DEF RestsBetween, LoadsIdle, AbandonedIsReplaced, Loading, Stages
<1>4. CASE UNCHANGED catalogVars
  BY <1>3, <1>4 DEF catalogVars, vars, fields, loadVars, schemaVars
<1>5. CASE Poll \/ CatalogServerAnswers \/ CatalogWorld
  BY <1>5, SessionKeepsCatalogInv DEF Poll, CatalogServerAnswers, CatalogWorld, loadVars,
     schemaVars
<1>6. ASSUME NEW c \in loadCancels, LoadCancelArrives(c)
      PROVE  RestsBetween' /\ LoadsIdle' /\ AbandonedIsReplaced'
  <2>1. CASE UNCHANGED vars
    BY <1>3, <1>6, <2>1 DEF LoadCancelArrives, vars, fields
  <2>2. CASE ServerRejects \/ CaptureRejected
    BY <1>6, <2>2, SessionKeepsCatalogInv DEF LoadCancelArrives
  <2> QED
    BY <1>6, <2>1, <2>2 DEF LoadCancelArrives
<1>7. CASE UserSubmits
  BY <1>3, <1>7 DEF UserSubmits, Submit, fields, schemaVars
<1>8. CASE StatementReturns \/ Refresh
  BY <1>3, <1>8 DEF StatementReturns, Refresh, vars, fields, schemaVars
<1>9. CASE AnnounceReconnect
  BY <1>3, <1>9 DEF AnnounceReconnect, take_reconnected, loadVars, schemaVars
<1>10. CASE LoadExpires \/ SkipQuery \/ QueryReturns \/ CancelReturns \/ Install
  BY <1>3, <1>10 DEF LoadExpires, SkipQuery, QueryReturns, CancelReturns, Install, vars,
     fields, schemaVars
<1>11. CASE BeginQuery
  BY <1>3, <1>11 DEF BeginQuery, Submit, fields, schemaVars
<1>12. CASE DropQuery
  BY <1>2, <1>3, <1>12 DEF DropQuery, DropCatalogQuery, require_reconnect, Return
<1> QED
  BY <1>4, <1>5, <1>6, <1>7, <1>8, <1>9, <1>10, <1>11, <1>12 DEF CatalogNext, Load

LEMMA CatalogInvariant == CatalogSpec => []CatalogInv
<1>1. CatalogInit => CatalogInv
  BY CatalogInvInit
<1>2. CatalogInv /\ [CatalogNext]_catalogVars => CatalogInv'
  BY CatalogInvNext
<1> QED
  BY <1>1, <1>2, PTL DEF CatalogSpec
-----------------------------------------------------------------------------
\* Whenever the deadline and the clean-up waits of a load pass, the session is
\* used as ManagedSession specifies: every theorem about Spec is one about it.
THEOREM CatalogUsesSession == CatalogSpec => LoadUsesSession
<1>1. CatalogInit => Init
  BY DEF CatalogInit
<1>2. [CatalogNext]_catalogVars => [Next]_vars
  BY CatalogStep
<1> QED
  BY <1>1, <1>2, PTL DEF CatalogSpec, LoadUsesSession

\* A connection on which a catalog query was abandoned is replaced before any
\* statement is executed, or none is.
THEOREM AbandonedConnectionsRest == CatalogSpec => []AbandonedConnectionRests
<1>1. CatalogInv => AbandonedConnectionRests
  BY DEF CatalogInv, AbandonedIsReplaced, AbandonedConnectionRests
<1> QED
  BY <1>1, CatalogInvariant, PTL

\* However its queries end, a load never opens, ends or poisons a transaction.
THEOREM LoadsKeepState == CatalogSpec => LoadKeepsState
<1>1. CatalogInv /\ [CatalogNext]_catalogVars
        => [state' # state => stage \notin Loading]_catalogVars
  <2> SUFFICES ASSUME CatalogInv, [CatalogNext]_catalogVars, stage \in Loading
               PROVE  state' = state
    OBVIOUS
  <2>1. state = "Idle"
    BY DEF CatalogInv, LoadsIdle
  <2>2. CASE stage' \in Loading
    BY <2>1, <2>2, CatalogInvNext DEF CatalogInv, LoadsIdle
  <2>3. CASE stage' \notin Loading
    <3>1. stage' # stage
      BY <2>3
    <3>2. Install
      BY <2>3, <3>1 DEF CatalogNext, catalogVars, loadVars, Poll,
         CatalogServerAnswers, CatalogWorld,
         UserSubmits, StatementReturns, Refresh, AnnounceReconnect, Load, BeginQuery,
         SkipQuery, QueryReturns, CancelReturns, DropQuery, LoadExpires, LoadCancelArrives,
         Loading, Stages
    <3> QED
      BY <3>2 DEF Install, vars, fields
  <2> QED
    BY <2>2, <2>3
<1> QED
  BY <1>1, CatalogInvariant, PTL DEF CatalogSpec, LoadKeepsState
-----------------------------------------------------------------------------
(***************************************************************************)
(* The sink of an answer, row by row.                                      *)
(***************************************************************************)
SinkUpTo(answer, m, sink) ==
  sink = [n \in 0 .. m |-> IF n = 0 THEN EmptySink ELSE Collected(sink[n - 1], answer[n])]

LEMMA SinkGrows ==
  ASSUME NEW answer, NEW m \in Nat, NEW g, SinkUpTo(answer, m, g)
  PROVE  \E h : SinkUpTo(answer, m + 1, h)
<1> DEFINE h == [n \in 0 .. m + 1 |->
                   IF n = m + 1 THEN Collected(g[m], answer[m + 1]) ELSE g[n]]
           k == [n \in 0 .. m + 1 |->
                   IF n = 0 THEN EmptySink ELSE Collected(h[n - 1], answer[n])]
<1>1. ASSUME NEW n \in 0 .. m + 1
      PROVE  h[n] = IF n = 0 THEN EmptySink ELSE Collected(h[n - 1], answer[n])
  <2>1. CASE n = m + 1
    BY <2>1
  <2>2. CASE n # m + 1
    <3>1. n \in 0 .. m /\ (n # 0 => n - 1 \in 0 .. m /\ n - 1 # m + 1)
      BY <2>2
    <3>2. g[n] = IF n = 0 THEN EmptySink ELSE Collected(g[n - 1], answer[n])
      BY <3>1 DEF SinkUpTo
    <3> QED
      BY <2>2, <3>1, <3>2
  <2> QED
    BY <2>1, <2>2
<1>2. \A n \in 0 .. m + 1 : h[n] = k[n]
  BY <1>1
<1>3. h = k
  BY <1>2
<1>4. SinkUpTo(answer, m + 1, h)
  BY <1>3 DEF SinkUpTo
<1> QED
  BY <1>4

\* The sink is what its definition says.
LEMMA SinkUnfolds ==
  ASSUME NEW answer \in Seq(Seq(Nat))
  PROVE  \E sink : /\ SinkUpTo(answer, Len(answer), sink)
                   /\ CatalogSink(answer) = sink[Len(answer)]
<1> DEFINE S == {m \in Nat : \E sink : SinkUpTo(answer, m, sink)}
<1>1. Len(answer) \in Nat
  OBVIOUS
<1>2. 0 \in S
  <2>1. SinkUpTo(answer, 0, [n \in 0 .. 0 |-> EmptySink])
    BY DEF SinkUpTo
  <2> QED
    BY <2>1
<1>3. \A m \in Nat : m \in S => m + 1 \in S
  BY SinkGrows
<1> HIDE DEF S
<1>4. Nat \subseteq S
  BY <1>2, <1>3, SetInduction
<1>5. \E sink : SinkUpTo(answer, Len(answer), sink)
  BY <1>1, <1>4 DEF S
<1> DEFINE sink[n \in 0 .. Len(answer)] ==
             IF n = 0 THEN EmptySink ELSE Collected(sink[n - 1], answer[n])
<1>6. SinkUpTo(answer, Len(answer), sink)
  BY <1>5 DEF sink, SinkUpTo
<1>7. CatalogSink(answer) = sink[Len(answer)]
  BY DEF CatalogSink, sink
<1> HIDE DEF sink
<1> QED
  BY <1>6, <1>7

SinkOf(Rows, Sizes) == [rows : Rows, retained_bytes : Sizes, truncated : BOOLEAN]
IsSink(s) == \E Sizes : s \in SinkOf(Seq(Seq(Nat)), Sizes)

Kept(s, rows, bytes) == [s EXCEPT !.rows = rows, !.retained_bytes = bytes]
Marked(s) == [s EXCEPT !.truncated = TRUE]

LEMMA SinkUpdates ==
  ASSUME NEW Rows, NEW Sizes, NEW s \in SinkOf(Rows, Sizes), NEW r \in Rows, NEW b \in Sizes
  PROVE  Kept(s, r, b) \in SinkOf(Rows, Sizes) /\ Marked(s) \in SinkOf(Rows, Sizes)
BY DEF SinkOf, Kept, Marked

\* A row is kept, or the sink is marked, and a mark stays.
LEMMA RowIsKept ==
  ASSUME NEW s, IsSink(s), NEW row \in Seq(Nat)
  PROVE  /\ IsSink(Collected(s, row))
         /\ ~Collected(s, row).truncated =>
              ~s.truncated /\ Collected(s, row).rows = Append(s.rows, row)
<1> DEFINE bytes == s.retained_bytes + FoldLeft(+, 0, row)
           kept == Kept(s, Append(s.rows, row), bytes)
<1>1. Collected(s, row) = kept \/ Collected(s, row) = Marked(s)
  BY DEF Collected, Kept, Marked
<1>2. PICK Sizes : s \in SinkOf(Seq(Seq(Nat)), Sizes)
  BY DEF IsSink
<1>3. s \in SinkOf(Seq(Seq(Nat)), Sizes \cup {bytes})
  BY <1>2 DEF SinkOf
<1>4. Append(s.rows, row) \in Seq(Seq(Nat))
  BY <1>2 DEF SinkOf
<1> HIDE DEF bytes
<1>5. /\ kept \in SinkOf(Seq(Seq(Nat)), Sizes \cup {bytes})
      /\ Marked(s) \in SinkOf(Seq(Seq(Nat)), Sizes \cup {bytes})
      /\ kept.rows = Append(s.rows, row) /\ kept.truncated = s.truncated
      /\ Marked(s).truncated
  <2>1. bytes \in Sizes \cup {bytes}
    OBVIOUS
  <2>2. kept \in SinkOf(Seq(Seq(Nat)), Sizes \cup {bytes})
    BY <1>3, <1>4, <2>1, SinkUpdates
  <2>3. Marked(s) \in SinkOf(Seq(Seq(Nat)), Sizes \cup {bytes})
    BY <1>3, <1>4, <2>1, SinkUpdates
  <2>4. kept.rows = Append(s.rows, row)
    BY <1>2 DEF SinkOf, Kept
  <2>5. kept.truncated = s.truncated
    BY <1>2 DEF SinkOf, Kept
  <2>6. Marked(s).truncated
    BY <1>2 DEF SinkOf, Marked
  <2> QED
    BY <2>2, <2>3, <2>4, <2>5, <2>6
<1>6. IsSink(kept) /\ IsSink(Marked(s))
  BY <1>5 DEF IsSink
<1> HIDE DEF kept
<1> QED
  BY <1>1, <1>5, <1>6

\* What the LIMIT of a query lets through are rows as well.
LEMMA LimitedRows == \A held \in Answers : Limited(held) \in Seq(Seq(Nat))
<1> SUFFICES ASSUME NEW held \in Answers PROVE Limited(held) \in Seq(Seq(Nat))
  OBVIOUS
<1>1. held \in Seq(Seq(Nat)) /\ RowLimit \in Nat
  BY CatalogAssumption
<1>2. RowLimit < Len(held) => SubSeq(held, 1, RowLimit) \in Seq(Seq(Nat))
  BY <1>1
<1> QED
  BY <1>1, <1>2 DEF Limited

\* A sink says so when it left a row out.
LEMMA SinkTells ==
  ASSUME NEW answer \in Seq(Seq(Nat)), ~CatalogSink(answer).truncated
  PROVE  CatalogSink(answer).rows = answer
<1>1. answer \in Seq(Seq(Nat))
  OBVIOUS
<1>2. PICK sink : /\ SinkUpTo(answer, Len(answer), sink)
                  /\ CatalogSink(answer) = sink[Len(answer)]
  BY SinkUnfolds
<1> DEFINE Tells(m) == /\ IsSink(sink[m])
                       /\ ~sink[m].truncated => sink[m].rows = SubSeq(answer, 1, m)
           S == {m \in Nat : m <= Len(answer) => Tells(m)}
<1>3. 0 \in S
  <2>1. sink[0] = EmptySink
    BY <1>1, <1>2 DEF SinkUpTo
  <2>2. SubSeq(answer, 1, 0) = <<>> /\ <<>> \in Seq(Seq(Nat))
    BY <1>1
  <2>3. EmptySink \in SinkOf(Seq(Seq(Nat)), {0}) /\ EmptySink.rows = <<>>
    BY <2>2 DEF EmptySink, SinkOf
  <2>4. IsSink(EmptySink)
    BY <2>3 DEF IsSink
  <2> QED
    BY <2>1, <2>2, <2>3, <2>4
<1>4. ASSUME NEW m \in Nat, m \in S PROVE m + 1 \in S
  <2> SUFFICES ASSUME m + 1 <= Len(answer) PROVE Tells(m + 1)
    OBVIOUS
  <2>1. Tells(m) /\ m + 1 \in 1 .. Len(answer)
    BY <1>1, <1>4
  <2>2. sink[m + 1] = Collected(sink[m], answer[m + 1])
    BY <1>1, <1>2, <2>1 DEF SinkUpTo
  <2>3. SubSeq(answer, 1, m + 1) = Append(SubSeq(answer, 1, m), answer[m + 1])
    BY <1>1, <2>1
  <2>4. answer[m + 1] \in Seq(Nat)
    BY <1>1, <2>1
  <2> QED
    BY <2>1, <2>2, <2>3, <2>4, RowIsKept
<1> HIDE DEF S
<1>5. Nat \subseteq S
  BY <1>3, <1>4, SetInduction
<1>6. Tells(Len(answer))
  BY <1>1, <1>5 DEF S
<1>7. SubSeq(answer, 1, Len(answer)) = answer
  BY <1>1
<1> QED
  BY <1>2, <1>6, <1>7
-----------------------------------------------------------------------------
(***************************************************************************)
(* A fresh snapshot is current.  A change of the schema in an open         *)
(* transaction shows in the prompt state, so that no load runs beside it;  *)
(* what a load saw is therefore one schema; and between the server's       *)
(* answer to a change and the report of it the snapshot may be behind.     *)
(***************************************************************************)
OutputHeld == ~outputFailed

ChangeShows ==
  changing => /\ state # "Idle"
              /\ pc = "succeeded" => classify(stmt) \notin {"Commit", "Rollback"}

Submitted == stage \in {"querying", "cancelling", "cleaning"}

LoadSees ==
  stage \in Loading =>
    /\ step \in Nat /\ step >= 1
    /\ seen \subseteq {schema}
    /\ pc \in {"succeeded", "capture"} => seen # {}
    /\ Submitted /\ pc = "ready" /\ reported = "ok" => seen # {}
    /\ ~partial => whole /\ (step > 1 => seen # {})

NothingSeen ==
  /\ stage \in Stages
  /\ stage \notin Loading => seen = {} /\ whole /\ ~partial /\ step = 1

\* The statement has changed the schema, or will not say whether it did.
Telling ==
  /\ stage = "statement" /\ is_schema_changing(stmt)
  /\ \/ pc \in {"succeeded", "capture"}
     \/ pc = "ready" /\ reported \in {"ok", "lost"}

NamesAreCurrent ==
  ~untold /\ ~Telling /\ snapshot.versions # {} =>
    snapshot.versions = {schema} /\ ~changing

FreshIsWhole ==
  stage \notin Loading /\ ~snapshot.stale => snapshot.versions # {} /\ snapshot.whole

SnapshotInv == /\ PInv /\ CatalogInv /\ OutputHeld /\ ChangeShows
               /\ LoadSees /\ NothingSeen /\ NamesAreCurrent /\ FreshIsWhole

LEMMA PolledStep ==
  ASSUME Polled
  PROVE  /\ stmt' = stmt /\ (~outputFailed => ~outputFailed')
         /\ pc # "ready" /\ pc' # "succeeded"
         /\ pc' = "capture" => pc = "succeeded"
         /\ pc' = "ready" /\ reported' = "ok" => pc = "capture"
         /\ pc \in {"succeeded", "capture"} =>
              pc' = "capture" \/ (pc' = "ready" /\ reported' \in {"ok", "lost"})
         /\ pc # "reconnect" => conn' = conn
<1>1. CASE PrepareRefuses \/ PrepareReconnects \/ PrepareProceeds
  BY <1>1 DEF PrepareRefuses, PrepareReconnects, PrepareProceeds, Return, history
<1>2. CASE ReconnectSucceeds \/ ReconnectFails
  BY <1>2 DEF ReconnectSucceeds, ReconnectFails, Return, history
<1>3. CASE FinalizeOk \/ CaptureSucceeds \/ CaptureFails
  BY <1>3 DEF FinalizeOk, CaptureSucceeds, CaptureFails, Return
<1>4. CASE ReturnRejected \/ ReturnLost
  BY <1>4 DEF ReturnRejected, ReturnLost, FinalizeError, Return
<1> QED
  BY <1>1, <1>2, <1>3, <1>4 DEF Polled

\* No step but the end of a transaction leads back to Idle.
LEMMA PolledLeavesIdle ==
  ASSUME Polled, state # "Idle",
         pc = "succeeded" => classify(stmt) \notin {"Commit", "Rollback"}
  PROVE  state' # "Idle"
<1>1. CASE FinalizeOk
  BY <1>1 DEF FinalizeOk, transition
<1>2. CASE ReturnRejected \/ ReturnLost
  BY <1>2 DEF ReturnRejected, ReturnLost, FinalizeError, failureState
<1>3. CASE ~FinalizeOk /\ ~ReturnRejected /\ ~ReturnLost
  BY <1>3 DEF Polled, PrepareRefuses, PrepareReconnects, PrepareProceeds,
     ReconnectSucceeds, ReconnectFails, CaptureSucceeds, CaptureFails, fields
<1> QED
  BY <1>1, <1>2, <1>3

LEMMA SnapshotInvInit == CatalogInit => SnapshotInv
BY PInvInit, CatalogInvInit DEF CatalogInit, Init, SnapshotInv, OutputHeld, ChangeShows,
   LoadSees, Submitted, NothingSeen, Telling, NamesAreCurrent, FreshIsWhole,
   MetadataSnapshot, Loading, Stages

\* The steps that belong to the session and its server.
LEMMA AnswerKeepsSnapshot ==
  ASSUME AllWellClassified, SnapshotInv, CatalogServerAnswers, PInv'
  PROVE  OutputHeld' /\ ChangeShows' /\ LoadSees' /\ NothingSeen' /\ NamesAreCurrent'
         /\ FreshIsWhole'
<1>1. /\ pc = "execute" /\ conn.link = "up" /\ ~outputFailed
      /\ UNCHANGED <<state, stmt, outputFailed, reported, loadVars, whole, untold>>
      /\ pc' \in {"succeeded", "rejected"}
  BY DEF SnapshotInv, OutputHeld, CatalogServerAnswers, ServerSucceeds, ServerRejects, fields
<1>2. UNCHANGED <<stage, step, partial, snapshot>>
  BY <1>1 DEF loadVars
<1>3. pc' # "succeeded" => schema' = schema /\ seen' = seen /\ (changing' => changing)
  BY DEF CatalogServerAnswers
<1>4. is_schema_changing(stmt) => classify(stmt) = "Other"
  BY DEF is_schema_changing, classify, Commits, Aborts, Is
<1>5. ChangeShows'
  <2> SUFFICES ASSUME changing'
               PROVE  /\ state # "Idle"
                      /\ pc' = "succeeded" => classify(stmt) \notin {"Commit", "Rollback"}
    BY <1>1 DEF ChangeShows
  <2>1. CASE pc' # "succeeded"
    BY <1>3, <2>1 DEF SnapshotInv, ChangeShows
  <2>2. CASE pc' = "succeeded"
    <3>1. conn'.txn = "open" /\ (changing \/ is_schema_changing(stmt))
      BY DEF CatalogServerAnswers
    <3>2. ServerSucceeds
      BY <2>2 DEF CatalogServerAnswers, ServerRejects
    <3>3. conn'.link = "up"
      BY <3>2, <1>1 DEF ServerSucceeds, SnapshotInv, CatalogInv, IInv, TypeOK, Connection
    <3>4. transition(state, classify(stmt)) # "Idle"
      BY <1>1, <2>2, <3>1, <3>3 DEF PInv, PromptFits, Fits
    <3>5. state # "Uncertain"
      BY <1>1 DEF SnapshotInv, CatalogInv, IInv, UncertainRests
    <3>6. classify(stmt) \notin {"Commit", "Rollback"}
      BY <3>4, <3>5 DEF transition
    <3>7. changing => state # "Idle"
      BY DEF SnapshotInv, ChangeShows
    <3>8. is_schema_changing(stmt) => state # "Idle"
      BY <1>4, <3>4 DEF transition
    <3> QED
      BY <3>1, <3>6, <3>7, <3>8
  <2> QED
    BY <2>1, <2>2
<1>6. CASE stage \in Loading
  <2>1. state = "Idle" /\ stmt = CatalogQuery
    BY <1>1, <1>6 DEF SnapshotInv, CatalogInv, LoadsIdle
  <2>2. ~changing
    BY <2>1 DEF SnapshotInv, ChangeShows
  <2>3. schema' = schema /\ ~changing'
    BY <2>1, <2>2, CatalogReads DEF CatalogServerAnswers
  <2>4. seen' = IF pc' = "succeeded" THEN seen \cup {schema} ELSE seen
    BY <1>6 DEF CatalogServerAnswers
  <2>5. LoadSees'
    BY <1>1, <1>2, <1>6, <2>3, <2>4 DEF SnapshotInv, LoadSees, Submitted
  <2> QED
    BY <1>1, <1>2, <1>5, <1>6, <2>3, <2>5
    DEF SnapshotInv, OutputHeld, NothingSeen, NamesAreCurrent, Telling, FreshIsWhole, Loading
<1>7. CASE stage \notin Loading
  <2>1. seen' = seen
    BY <1>7 DEF CatalogServerAnswers
  <2>2. NamesAreCurrent'
    <3> SUFFICES ASSUME ~untold, ~Telling', snapshot.versions # {}
                 PROVE  snapshot.versions = {schema'} /\ ~changing'
      BY <1>1, <1>2 DEF NamesAreCurrent
    <3>1. snapshot.versions = {schema} /\ ~changing
      BY <1>1 DEF SnapshotInv, NamesAreCurrent, Telling
    <3>2. pc' = "succeeded" => ~is_schema_changing(stmt) \/ stage # "statement"
      BY <1>1, <1>2 DEF Telling
    <3>3. stage = "statement"
      BY <1>1, <1>7 DEF SnapshotInv, NothingSeen, CatalogInv, RestsBetween, Loading
    <3> QED
      BY <1>3, <3>1, <3>2, <3>3 DEF CatalogServerAnswers
  <2> QED
    BY <1>1, <1>2, <1>5, <1>7, <2>1, <2>2
    DEF SnapshotInv, OutputHeld, NothingSeen, LoadSees, FreshIsWhole
<1> QED
  BY <1>6, <1>7

LEMMA PollKeepsSnapshot ==
  ASSUME SnapshotInv, Poll
  PROVE  OutputHeld' /\ ChangeShows' /\ LoadSees' /\ NothingSeen' /\ NamesAreCurrent'
         /\ FreshIsWhole'
<1>1. /\ Polled /\ ~outputFailed /\ stage \in {"statement", "querying", "cleaning"}
      /\ UNCHANGED <<stage, step, partial, snapshot, schema, seen, whole, untold>>
  BY DEF SnapshotInv, OutputHeld, Poll, loadVars
<1>2. OutputHeld' /\ stmt' = stmt
  BY <1>1, PolledStep DEF OutputHeld
<1>3. changing' => changing
  BY DEF Poll
<1>4. ChangeShows'
  BY <1>1, <1>3, PolledStep, PolledLeavesIdle DEF SnapshotInv, ChangeShows
<1>5. LoadSees'
  BY <1>1, PolledStep DEF SnapshotInv, LoadSees, Submitted
<1>6. NamesAreCurrent'
  <2>1. Telling => Telling'
    BY <1>1, <1>2, PolledStep DEF Telling
  <2> QED
    BY <1>1, <1>3, <2>1 DEF SnapshotInv, NamesAreCurrent
<1> QED
  BY <1>1, <1>2, <1>4, <1>5, <1>6 DEF SnapshotInv, NothingSeen, FreshIsWhole

\* The world and a request to cancel: they end nothing but what they find running.
LEMMA WorldKeepsSnapshot ==
  ASSUME SnapshotInv, CatalogWorld \/ \E c \in loadCancels : LoadCancelArrives(c)
  PROVE  OutputHeld' /\ ChangeShows' /\ LoadSees' /\ NothingSeen' /\ NamesAreCurrent'
         /\ FreshIsWhole'
<1> DEFINE Unmoved == UNCHANGED <<stage, step, partial, snapshot, schema, seen, whole,
                                  untold, state, stmt, outputFailed, reported>>
           Fewer == (changing' => changing)
                    /\ (pc' = pc \/ (pc = "execute" /\ pc' = "rejected"))
<1>0. Unmoved /\ Fewer
  <2>1. CASE CatalogWorld
    BY <2>1 DEF CatalogWorld, Environment, LoseLink, DriverStops, Tick, fields, history,
       loadVars, schemaVars
  <2>2. ASSUME NEW c \in loadCancels, LoadCancelArrives(c)
        PROVE  Unmoved /\ Fewer
    <3>1. CASE UNCHANGED <<vars, changing>>
      BY <2>2, <3>1 DEF LoadCancelArrives, vars, fields, history
    <3>2. CASE ServerRejects \/ CaptureRejected
      <4>1. Unmoved /\ (pc' = pc \/ (pc = "execute" /\ pc' = "rejected"))
        BY <2>2, <3>2 DEF LoadCancelArrives, ServerRejects, CaptureRejected, fields, history
      <4>2. changing' => changing
        BY <2>2 DEF LoadCancelArrives
      <4> QED
        BY <4>1, <4>2
    <3> QED
      BY <2>2, <3>1, <3>2 DEF LoadCancelArrives
  <2> QED
    BY <2>1, <2>2
<1>1. LoadSees'
  BY <1>0 DEF SnapshotInv, LoadSees, Submitted
<1>2. Telling => Telling'
  BY <1>0 DEF Telling
<1> QED
  BY <1>0, <1>1, <1>2
  DEF SnapshotInv, OutputHeld, ChangeShows, NothingSeen, NamesAreCurrent, FreshIsWhole

\* What the shell and the load do themselves.
LEMMA ShellKeepsSnapshot ==
  ASSUME SnapshotInv,
         UserSubmits \/ StatementReturns \/ Refresh \/ AnnounceReconnect \/ LoadExpires \/ Load
  PROVE  OutputHeld' /\ ChangeShows' /\ LoadSees' /\ NothingSeen' /\ NamesAreCurrent'
         /\ FreshIsWhole'
<1>p. /\ OutputHeld /\ ChangeShows /\ LoadSees /\ NothingSeen /\ NamesAreCurrent
      /\ FreshIsWhole /\ RestsBetween /\ LoadsIdle
  BY DEF SnapshotInv, CatalogInv
<1> USE DEF OutputHeld, ChangeShows, LoadSees, Submitted, NothingSeen, NamesAreCurrent,
        Telling, FreshIsWhole, Loading, Stages
<1>1. CASE UserSubmits
  BY <1>p, <1>1 DEF UserSubmits, Submit, fields, schemaVars
<1>2. CASE StatementReturns
  BY <1>p, <1>2 DEF StatementReturns, vars, fields, history, Invalidated, MetadataSnapshot
<1>3. CASE Refresh
  BY <1>p, <1>3 DEF Refresh, RestsBetween, vars, fields, history, schemaVars
<1>4. CASE AnnounceReconnect
  BY <1>p, <1>4 DEF AnnounceReconnect, take_reconnected, history, loadVars, schemaVars
<1>5. CASE LoadExpires
  BY <1>p, <1>5 DEF LoadExpires, vars, fields, history, schemaVars
<1>6. CASE BeginQuery
  BY <1>p, <1>6 DEF BeginQuery, Submit, fields, schemaVars
<1>7. CASE SkipQuery
  BY <1>p, <1>7 DEF SkipQuery, vars, fields, history
<1>8. CASE QueryReturns
  <2>1. /\ Submitted /\ pc = "ready" /\ stage' = "next" /\ step' = step + 1
        /\ UNCHANGED <<pc, stmt, state, reported, outputFailed, snapshot, schema, changing,
                       seen, untold>>
    BY <1>8 DEF QueryReturns, vars, fields, history
  <2>2. ~partial' => ~partial /\ reported = "ok" /\ (whole => whole')
    <3>1. PICK answer \in {Limited(held) : held \in Answers} :
            /\ partial' = (partial \/ stage = "cleaning" \/ CatalogSink(answer).truncated
                           \/ reported # "ok")
            /\ whole' = (whole /\ reported = "ok" /\ CatalogSink(answer).rows = answer)
      BY <1>8 DEF QueryReturns
    <3> QED
      BY <3>1, LimitedRows, SinkTells
  <2>3. LoadSees'
    BY <1>p, <2>1, <2>2
  <2> QED
    BY <1>p, <2>1, <2>3
<1>9. CASE CancelReturns
  BY <1>p, <1>9 DEF CancelReturns, vars, fields, history, schemaVars
<1>10. CASE DropQuery
  BY <1>p, <1>10 DEF DropQuery, DropCatalogQuery, require_reconnect, Return
<1>11. CASE Install
  BY <1>p, <1>11, CatalogAssumption DEF Install, LoadsIdle, MetadataSnapshot, vars, fields,
     history
<1> QED
  BY <1>1, <1>2, <1>3, <1>4, <1>5, <1>6, <1>7, <1>8, <1>9, <1>10, <1>11 DEF Load

LEMMA SnapshotInvNext ==
  ASSUME AllWellClassified, SnapshotInv, [CatalogNext]_catalogVars
  PROVE  SnapshotInv'
<1>1. PInv'
  BY PInvNext, CatalogStep DEF SnapshotInv
<1>2. CatalogInv'
  BY CatalogInvNext DEF SnapshotInv
<1>3. OutputHeld' /\ ChangeShows' /\ LoadSees' /\ NothingSeen' /\ NamesAreCurrent'
      /\ FreshIsWhole'
  <2>1. CASE UNCHANGED catalogVars
    BY <2>1 DEF catalogVars, vars, fields, history, loadVars, schemaVars, SnapshotInv,
       OutputHeld, ChangeShows, LoadSees, Submitted, NothingSeen, NamesAreCurrent, Telling,
       FreshIsWhole
  <2> QED
    BY <1>1, <2>1, AnswerKeepsSnapshot, PollKeepsSnapshot, WorldKeepsSnapshot,
       ShellKeepsSnapshot DEF CatalogNext
<1> QED
  BY <1>1, <1>2, <1>3 DEF SnapshotInv

\* A name is completed only from a snapshot of the schema as the shell was told of
\* it last, and one not marked stale holds all its queries returned, which is what the
\* LIMIT of each lets through: as long as every statement is classified as the server
\* reads it, and for any catalogs, limits and deadlines.
THEOREM FreshSnapshotsAreCurrent ==
  ASSUME AllWellClassified
  PROVE  CatalogSpec => []FreshSnapshotIsCurrent
<1>1. CatalogInit => SnapshotInv
  BY SnapshotInvInit
<1>2. SnapshotInv /\ [CatalogNext]_catalogVars => SnapshotInv'
  BY SnapshotInvNext
<1>3. SnapshotInv => FreshSnapshotIsCurrent
  BY DEF SnapshotInv, NamesAreCurrent, FreshIsWhole, Telling, FreshSnapshotIsCurrent,
     Loading
<1> QED
  BY <1>1, <1>2, <1>3, PTL DEF CatalogSpec
=============================================================================
