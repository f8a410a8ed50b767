----------------------------- MODULE LearnService -----------------------------
(***************************************************************************)
(* What the learn API promises to a page, whatever the loop task, the      *)
(* interrupt and the receivers do behind it: the phases a poll can meet    *)
(* (src/web_config_api.cpp) and the session each answer belongs to.        *)
(* LearnSession implements it, LearnUi builds on it.                       *)
(***************************************************************************)
EXTENDS Naturals

VARIABLES
  phase,     (* g_learnPhase                                                *)
  session,   (* how many sessions the device has begun                      *)
  fresh,     (* whether a session has begun that no poll has seen listening *)
  answered,  (* the session whose outcome was published last, 0: none       *)
  starts     (* how many start requests were accepted                       *)

serviceVars == <<phase, session, fresh, answered, starts>>

Requests == {"StartReq", "CancelReq"}
Outcomes == {"Captured", "Failed"}
Phases   == {"Idle", "Listening"} \cup Requests \cup Outcomes

ServiceInit ==
  /\ phase = "Idle" /\ session = 0 /\ fresh = FALSE
  /\ answered = 0 /\ starts = 0

\* A request is accepted in any phase, and replaces the one before it.
start ==
  /\ phase' = "StartReq" /\ starts' = starts + 1
  /\ UNCHANGED <<session, fresh, answered>>

cancel ==
  /\ phase' = "CancelReq"
  /\ UNCHANGED <<session, fresh, answered, starts>>

\* A session begins at a start request, which a cancel may have replaced by now.
begin ==
  /\ phase \in Requests /\ ~fresh /\ session < starts
  /\ session' = session + 1 /\ fresh' = TRUE
  /\ UNCHANGED <<phase, answered, starts>>

\* It is announced if the request still stands, and is left to the cancel otherwise.
listen ==
  /\ phase = "StartReq" /\ fresh
  /\ phase' = "Listening" /\ fresh' = FALSE
  /\ UNCHANGED <<session, answered, starts>>

abandon ==
  /\ phase = "CancelReq" /\ fresh
  /\ fresh' = FALSE
  /\ UNCHANGED <<phase, session, answered, starts>>

\* A cancel ends in Idle, and so does a start that arrives while it is carried out.
idle ==
  /\ phase \in Requests /\ ~fresh
  /\ phase' = "Idle"
  /\ UNCHANGED <<session, fresh, answered, starts>>

\* The session under way is answered once, by a code or a reason for having none.
answer ==
  /\ phase = "Listening"
  /\ phase' \in Outcomes /\ answered' = session
  /\ UNCHANGED <<session, fresh, starts>>

Serve == begin \/ listen \/ abandon \/ idle \/ answer

ServiceNext == start \/ cancel \/ Serve

\* A request does not stay unserved.
ServiceFairness == WF_serviceVars(listen \/ idle)

ServiceSpec     == ServiceInit /\ [][ServiceNext]_serviceVars
ServiceFairSpec == ServiceSpec /\ ServiceFairness

-------------------------------------------------------------------------------
ServiceTypeOK ==
  /\ phase \in Phases
  /\ session \in Nat /\ answered \in Nat /\ starts \in Nat
  /\ fresh \in BOOLEAN

\* A session that is listened for has not been answered before: no outcome is
\* published twice.
AnswersAreNew == phase = "Listening" \/ fresh => session > answered
===============================================================================
