------------------------------ MODULE MCLogins ------------------------------
(***************************************************************************)
(* The two logins of the client, with a bounded number of requests for     *)
(* realms (RealmLogin) and one login at the logon server (GruntLogin), and *)
(* the edit boxes of a screen: one for digits and one for a password, or   *)
(* one of several lines.                                                   *)
(* A behaviour moves one of them and leaves the others as they start.      *)
(***************************************************************************)
EXTENDS RealmLogin, TLC

CONSTANTS l1, Logins, NoLogin,
          pin, secret, note, Fit, Chunk, none

VARIABLES part,  \* "logon", "realm", "boxes" or "notes"
          logonIdleState, loginState, loginResult, lastShown, authenticated, loginObj, loginData,
          created, loggedOn, password, sessionKey, linkState, critSect, logonConn, sent, answered,
          inbox, logonPc, report,
          box, keyboard, visible, active

Logon == INSTANCE GruntLogin WITH idleState <- logonIdleState, conn <- logonConn, pc <- logonPc

gruntVars == <<logonIdleState, loginState, loginResult, lastShown, authenticated, loginObj, loginData,
               created, loggedOn, password, sessionKey, linkState, critSect, logonConn, sent, answered,
               inbox, logonPc, report>>

\* Of two boxes one takes digits and one is a password, where pipes are typed.
Two == INSTANCE CSimpleEditBox WITH
  Boxes <- <<pin, secret>>, Typed <- (pin :> {"1", "a"} @@ secret :> {"|", "n"}), MaxBytes <- 2,
  Multiline <- {}, Password <- {secret}, Numeric <- {pin}, AutoFocus <- {pin, secret},
  IgnoreArrows <- {}, OnEnter <- {pin}
Notes == INSTANCE CSimpleEditBox WITH
  Boxes <- <<note>>, Typed <- (note :> {"a", "wide"}), MaxBytes <- 4,
  Multiline <- {note}, Password <- {}, Numeric <- {}, AutoFocus <- {},
  IgnoreArrows <- {note}, OnEnter <- {}
boxVars == <<box, keyboard, visible, active>>

MCInit ==
  /\ part \in {"logon", "realm", "boxes", "notes"}
  /\ Init /\ Logon!Init
  /\ IF part = "notes" THEN Notes!Init ELSE Two!Init

RealmPart(A) == part = "realm" /\ A /\ UNCHANGED <<part, gruntVars, boxVars>>
LogonPart(A) == part = "logon" /\ A /\ UNCHANGED <<part, vars, boxVars>>
BoxPart(A) == A /\ UNCHANGED <<part, vars, gruntVars>>
MCNext ==
  \/ RealmPart(Next)
  \/ LogonPart(Logon!Next)
  \/ part = "boxes" /\ BoxPart(Two!Next)
  \/ part = "notes" /\ BoxPart(Notes!Next)

\* The fairness of each part.
RealmFairness ==
  /\ WF_vars(RealmPart(Idle)) /\ SF_vars(RealmPart(PollBegin)) /\ WF_vars(RealmPart(Poll))
  /\ SF_vars(RealmPart(PollStatus)) /\ SF_vars(RealmPart(Worker))
  /\ WF_vars(RealmPart(LogonServerAnswers)) /\ WF_vars(RealmPart(RealmServerAnswers))
LogonFairness ==
  /\ SF_gruntVars(LogonPart(Logon!MainRuns)) /\ SF_gruntVars(LogonPart(Logon!WorkerRuns))
  /\ \A l \in Logins :
       SF_gruntVars(LogonPart(Logon!Timer(l))) /\ WF_gruntVars(LogonPart(Logon!ServerAnswers(l)))
MCSpec == MCInit /\ [][MCNext]_<<part, vars, gruntVars, boxVars>> /\ RealmFairness /\ LogonFairness

\* The properties of GruntLogin, stated there.
CommandsInOrder == Logon!CommandsInOrder
ReportsAdvance == Logon!ReportsAdvance
AccountIsLoggedOn == Logon!AccountIsLoggedOn
LogonIsSettled == Logon!LogonIsSettled
\* The properties of CSimpleEditBox, stated there, of the boxes of the part.
EditBoxesAreSound == IF part = "notes" THEN Notes!EditBoxesAreSound ELSE Two!EditBoxesAreSound
=============================================================================
