--------------------------- MODULE AuthFlowProofs ---------------------------
(***************************************************************************)
(* Proofs about AuthFlow, for any sets of users, clients and tasks and any *)
(* policies: the type invariant; that a conversation only succeeds when    *)
(* its user was in front of the camera while it lasted; that the password  *)
(* only goes to root; that the whole implements PamPromise!Safety; that a  *)
(* settled policy is obeyed; and that no IR camera means no unlock.        *)
(*                                                                         *)
(* The first ones rest on AuthInv, which ties a task to the conversation   *)
(* that waits for it: what the task captured, that conversation has seen.  *)
(* The last two add PolicyInv: what the task has read of the policy so far *)
(* is what it would read now, unless something changed meanwhile.          *)
(***************************************************************************)
EXTENDS AuthFlow, TLAPS

Capturing == {"binding", "rgb", "ir", "gate", "unseal"}

\* A connection that is served is waited for, and its task works for it.
Served(c) ==
    conn[c] \in Tasks =>
        /\ st[c] \in Waiting
        /\ pc[conn[c]] # "idle"
        /\ job[conn[c]].user = usr[c]
        /\ job[conn[c]].root => peer[c] = Root
        /\ live[conn[c]] # Nobody => live[conn[c]] \in seen[c]

\* No two conversations hold the same connection.
OneEach == \A c, d \in Clients : conn[c] \in Tasks /\ conn[c] = conn[d] => c = d

\* What a task knows at each of its steps.
Sound(t) ==
    /\ pc[t] = "idle" => live[t] = Nobody
    /\ pc[t] # "idle" => job[t].user \in Users
    /\ pc[t] \in Capturing /\ act[t] = "unseal" => job[t].root
    /\ pc[t] = "unseal" => act[t] = "unseal" /\ live[t] = job[t].user
    /\ ans[t] \in {"verified", "password"} => live[t] = job[t].user
    /\ ans[t] = "password" => job[t].root
    /\ pc[t] # "reply" => ans[t] = "none"

\* What a conversation has come to.
Ended(c) ==
    /\ st[c] \in Active => face \in seen[c]
    /\ out[c] # "none" => st[c] = "done"
    /\ Success(c) => usr[c] \in seen[c]
    /\ out[c] = "released" => peer[c] = Root

AuthInv == /\ \A c \in Clients : Served(c) /\ Ended(c)
           /\ OneEach
           /\ \A t \in Tasks : Sound(t)

USE DEF Goto, Answer, Fail, confVars, profile, room, client, task, history

-----------------------------------------------------------------------------
(* Types.                                                                  *)

\* The policy engine's answers.
LEMMA PlanType ==
    ASSUME TypeOK, NEW s, NEW w, NEW c, NEW r, NEW a \in {"deny", "verify", "unseal"},
           NEW b, NEW root, NEW t \in {"secure", "convenience"}, NEW u
    PROVE  /\ Classify(s, w) \in {"screenUnlock", "login", "elevation", "remote",
                                   "unknown"}
           /\ EffectiveTier(conf, u) \in {"secure", "convenience"}
           /\ Decide(c, t, r) \in {"deny", "verify", "unseal"}
           /\ Gate(a, b, root) \in {"deny", "verify", "unseal"}
BY DEF Classify, EffectiveTier, Decide, Gate

LEMMA TypeInit == Init => TypeOK
<1>1. Init => pc \in [Tasks -> PCs] /\ ans \in [Tasks -> Answers]
  BY DEF Init, PCs, Answers
<1>2. QED
  BY <1>1, AuthAssumption DEF Init, TypeOK, NoJob, AllServices, Peers, People

\* What React leaves of the client's state.
LEMMA ReactType ==
    ASSUME TypeOK, NEW c \in Clients, NEW a, React(c, a)
    PROVE  /\ st' \in [Clients -> Active \cup {"idle", "done"}]
           /\ out' \in [Clients -> {"none", "granted", "released", "auth_err",
                                    "ignore"}]
           /\ conn' \in [Clients -> Tasks \cup {NoTask, Closed}]
BY DEF TypeOK, React, Active

LEMMA TypeClient ==
    ASSUME TypeOK, NEW c \in Clients,
           \/ \E u \in Users, p \in Peers, s \in Services, w \in BOOLEAN :
                Begin(c, u, p, s, w)
           \/ ClientStep(c)
    PROVE  TypeOK'
<1>1. ASSUME NEW u \in Users, NEW p \in Peers, NEW s \in Services,
             NEW w \in BOOLEAN, Begin(c, u, p, s, w)
      PROVE  TypeOK'
  <2>1. s \in AllServices
    BY AuthAssumption
  <2>2. PICK o \in {"none", "ignore", "auth_err"} : out' = [out EXCEPT ![c] = o]
    BY <1>1 DEF Begin
  <2>3. QED
    BY <1>1, <2>1, <2>2 DEF Begin, TypeOK, Active, People
<1>2. CASE NoAnswer(c)
  BY <1>2, ReactType DEF NoAnswer, TypeOK
<1>3. CASE Retry(c)
  BY <1>3 DEF Retry, TypeOK, Active
<1>4. CASE DeadlinePasses(c)
  BY <1>4 DEF DeadlinePasses, TypeOK
<1>5. CASE End(c)
  BY <1>5 DEF End, TypeOK, AllServices, Peers
<1>6. QED
  BY <1>1, <1>2, <1>3, <1>4, <1>5 DEF ClientStep

LEMMA TypeTask ==
    ASSUME TypeOK, NEW t \in Tasks, TaskStep(t)
    PROVE  TypeOK'
<1>0. /\ pc \in [Tasks -> PCs] /\ ans \in [Tasks -> Answers]
      /\ act \in [Tasks -> {"deny", "verify", "unseal"}]
  BY DEF TypeOK
<1>1. ASSUME NEW c \in Clients, Accept(t, c)
      PROVE  TypeOK'
  <2>1. PICK k \in DirectRequests \cup {"intent", "auth"}, r \in BOOLEAN :
          job' = [job EXCEPT ![t] = [kind |-> k, user |-> usr[c],
                                     svc |-> svc[c], root |-> r]]
    BY <1>1 DEF Accept
  <2>2. job' \in [Tasks -> [kind : DirectRequests \cup {"none", "intent", "auth"},
                            user : Users \cup {Nobody}, svc : AllServices,
                            root : BOOLEAN]]
    BY <2>1 DEF TypeOK
  <2>3. PICK a \in {"deny", "verify", "unseal"} : act' = [act EXCEPT ![t] = a]
    BY <1>1 DEF Accept
  <2>4. pc' \in [Tasks -> PCs]
    BY <1>0, <1>1 DEF Accept, PCs
  <2>5. ans' \in [Tasks -> Answers]
    BY <1>0, <1>1 DEF Accept, Answers
  <2>6. QED
    BY <1>1, <2>2, <2>3, <2>4, <2>5 DEF Accept, TypeOK
<1>2. CASE ReadSession(t)
  <2>1. pc' \in [Tasks -> PCs]
    BY <1>0, <1>2 DEF ReadSession, PCs
  <2>2. QED
    BY <1>2, <2>1, PlanType DEF ReadSession, TypeOK
<1>3. CASE ReadTier(t)
  <2>1. pc' \in [Tasks -> PCs]
    BY <1>0, <1>3 DEF ReadTier, PCs
  <2>2. QED
    BY <1>3, <2>1, PlanType DEF ReadTier, TypeOK
<1>4. CASE ReadRow(t)
  <2>1. pc' \in [Tasks -> PCs]
    BY <1>0, <1>4 DEF ReadRow, PCs
  <2>2. QED
    BY <1>4, <2>1, PlanType DEF ReadRow, TypeOK
<1>5. CASE ReadMethod(t)
  <2>1. PICK a \in {"deny", "verify", "unseal"} : act' = [act EXCEPT ![t] = a]
    <3>1. Gate(act[t], FaceIsActive(conf), job[t].root)
            \in {"deny", "verify", "unseal"}
      BY <1>0 DEF Gate
    <3>2. QED
      BY <1>5, <3>1 DEF ReadMethod
  <2>2. pc' \in [Tasks -> PCs]
    BY <1>0, <1>5 DEF ReadMethod, PCs
  <2>3. ans' \in [Tasks -> Answers]
    BY <1>0, <1>5 DEF ReadMethod, Answers
  <2>4. /\ cls' = [cls EXCEPT ![t] = "unknown"]
        /\ tier' = [tier EXCEPT ![t] = "convenience"]
        /\ UNCHANGED <<confVars, warm, profile, room, client, job, live, irf,
                       history>>
    BY <1>5 DEF ReadMethod
  <2>5. QED
    BY <2>1, <2>2, <2>3, <2>4 DEF TypeOK
<1>6. CASE CheckBinding(t)
  <2>1. pc' \in [Tasks -> PCs]
    BY <1>0, <1>6 DEF CheckBinding, PCs
  <2>2. ans' \in [Tasks -> Answers]
    BY <1>0, <1>6 DEF CheckBinding, Answers
  <2>4. UNCHANGED <<confVars, warm, profile, room, client, job, cls, tier,
                    act, live, irf, history>>
    BY <1>6 DEF CheckBinding
  <2>5. QED
    BY <2>1, <2>2, <2>4 DEF TypeOK
<1>7. CASE CaptureRgb(t)
  <2>1. pc' \in [Tasks -> PCs]
    BY <1>0, <1>7 DEF CaptureRgb, PCs
  <2>2. ans' \in [Tasks -> Answers]
    BY <1>0, <1>7 DEF CaptureRgb, Answers
  <2>3. PICK f \in People : live' = [live EXCEPT ![t] = f] \/ live' = live
    BY <1>7 DEF CaptureRgb, TypeOK
  <2>4. UNCHANGED <<confVars, warm, profile, room, client, job, cls, tier,
                    act, irf, history>>
    BY <1>7 DEF CaptureRgb
  <2>5. QED
    BY <2>1, <2>2, <2>3, <2>4 DEF TypeOK
<1>8. CASE CaptureIr(t)
  <2>1. pc' \in [Tasks -> PCs]
    BY <1>0, <1>8 DEF CaptureIr, PCs
  <2>2. ans' \in [Tasks -> Answers]
    BY <1>0, <1>8 DEF CaptureIr, Answers
  <2>3. irf' \in [Tasks -> BOOLEAN]
    BY <1>8 DEF CaptureIr, TypeOK
  <2>4. UNCHANGED <<confVars, warm, profile, room, client, job, cls, tier,
                    act, live, history>>
    BY <1>8 DEF CaptureIr
  <2>5. QED
    BY <2>1, <2>2, <2>3, <2>4 DEF TypeOK
<1>9. CASE GateAndMatch(t)
  <2>1. pc' \in [Tasks -> PCs]
    BY <1>0, <1>9 DEF GateAndMatch, PCs
  <2>2. ans' \in [Tasks -> Answers]
    BY <1>0, <1>9 DEF GateAndMatch, Answers
  <2>4. UNCHANGED <<confVars, warm, profile, room, client, job, cls, tier,
                    act, live, irf, history>>
    BY <1>9 DEF GateAndMatch
  <2>5. QED
    BY <2>1, <2>2, <2>4 DEF TypeOK
<1>10. CASE Unseal(t)
  <2>1. pc' \in [Tasks -> PCs]
    BY <1>0, <1>10 DEF Unseal, PCs
  <2>2. ans' \in [Tasks -> Answers]
    BY <1>0, <1>10 DEF Unseal, Answers
  <2>4. UNCHANGED <<confVars, warm, profile, room, client, job, cls, tier,
                    act, live, irf, history>>
    BY <1>10 DEF Unseal
  <2>5. QED
    BY <2>1, <2>2, <2>4 DEF TypeOK
<1>11. CASE Reply(t)
  <2>1. /\ st' \in [Clients -> Active \cup {"idle", "done"}]
        /\ out' \in [Clients -> {"none", "granted", "released", "auth_err",
                                 "ignore"}]
        /\ conn' \in [Clients -> Tasks \cup {NoTask, Closed}]
    BY <1>11, ReactType DEF Reply, TypeOK
  <2>2. job' \in [Tasks -> [kind : DirectRequests \cup {"none", "intent", "auth"},
                            user : Users \cup {Nobody}, svc : AllServices,
                            root : BOOLEAN]]
    BY <1>11 DEF Reply, TypeOK, NoJob, AllServices
  <2>3. pc' \in [Tasks -> PCs] /\ ans' \in [Tasks -> Answers]
    BY <1>0, <1>11 DEF Reply, PCs, Answers
  <2>4. QED
    BY <1>11, <2>1, <2>2, <2>3 DEF Reply, TypeOK
<1>12. QED
  BY <1>1, <1>2, <1>3, <1>4, <1>5, <1>6, <1>7, <1>8, <1>9, <1>10, <1>11
     DEF TaskStep, PlanStep, MatchStep

LEMMA TypeWorld ==
    ASSUME TypeOK, Restart \/ World
    PROVE  TypeOK'
<1> USE DEF TypeOK, Unsettled
<1>1. CASE Restart
  <2>1. /\ pc' \in [Tasks -> PCs] /\ ans' \in [Tasks -> Answers]
        /\ act' \in [Tasks -> {"deny", "verify", "unseal"}]
    BY <1>1 DEF Restart, PCs, Answers
  <2>2. QED
    BY <1>1, <2>1 DEF Restart, NoJob, AllServices
<1>2. ASSUME NEW s \in Settings, EditConf(s[1], s[2])
      PROVE  TypeOK'
  <2>1. s[1] \in ConfKeys /\ s[2] \in ConfValues
    BY AuthAssumption
  <2>2. QED
    BY <1>2, <2>1 DEF EditConf, Confs
<1>3. ASSUME NEW s \in Settings, OpenConf(s[2])
      PROVE  TypeOK'
  <2>1. s[2] \in ConfValues
    BY AuthAssumption
  <2>2. QED
    BY <1>3, <2>1 DEF OpenConf, Confs, EmptyConf, ConfValues
<1>4. CASE WriteConf
  BY <1>4 DEF WriteConf
<1>5. ASSUME NEW u \in Users, ChangeSession(u)
      PROVE  TypeOK'
  BY <1>5 DEF ChangeSession
<1>6. CASE ChangeCamera
  BY <1>6 DEF ChangeCamera
<1>7. ASSUME NEW f \in People, ChangeFace(f)
      PROVE  TypeOK'
  BY <1>7 DEF ChangeFace
<1>8. QED
  BY <1>1, <1>2, <1>3, <1>4, <1>5, <1>6, <1>7 DEF World

LEMMA TypeNext == TypeOK /\ [Next]_vars => TypeOK'
<1>1. ASSUME TypeOK, UNCHANGED vars
      PROVE  TypeOK'
  BY <1>1 DEF TypeOK, vars
<1>2. QED
  BY <1>1, TypeClient, TypeTask, TypeWorld DEF Next

\* Every variable keeps its type, for any sets of users, clients and tasks and
\* any policies (all of the authentication path).
THEOREM TypeCorrect == Spec => []TypeOK
BY TypeInit, TypeNext, PTL DEF Spec

-----------------------------------------------------------------------------
(* The conversation and its task.                                          *)

LEMMA AuthInit == Init => AuthInv
BY AuthAssumption DEF Init, AuthInv, Served, OneEach, Sound, Ended, Success,
                      Active, Capturing

\* A step of one task that leaves the clients alone keeps AuthInv if it keeps
\* what is known of the task and captures nobody but who is there now.
LEMMA TaskFrame ==
    ASSUME TypeOK, AuthInv, NEW t \in Tasks, pc[t] # "idle", Sound(t)',
           NEW p, p # "idle", pc' = [pc EXCEPT ![t] = p],
           live'[t] \in {live[t], face},
           \A x \in Tasks \ {t} : /\ act'[x] = act[x] /\ live'[x] = live[x]
                                  /\ ans'[x] = ans[x],
           UNCHANGED <<job, client, face, seen>>
    PROVE  AuthInv'
<1> USE DEF AuthInv, TypeOK
<1>1. pc'[t] = p /\ \A x \in Tasks \ {t} : pc'[x] = pc[x]
  OBVIOUS
<1>2. ASSUME NEW x \in Tasks
      PROVE  Sound(x)'
  BY <1>1 DEF Sound
<1>3. ASSUME NEW c \in Clients
      PROVE  Served(c)'
  BY <1>1 DEF Served, Ended, Waiting, Active
<1>4. ASSUME NEW c \in Clients
      PROVE  Ended(c)'
  BY DEF Ended, Success
<1>5. OneEach'
  BY DEF OneEach
<1>6. QED
  BY <1>2, <1>3, <1>4, <1>5

LEMMA AuthPlanStep ==
    ASSUME TypeOK, AuthInv, NEW t \in Tasks, PlanStep(t)
    PROVE  AuthInv'
<1>0. /\ pc \in [Tasks -> PCs] /\ ans \in [Tasks -> Answers]
      /\ act \in [Tasks -> {"deny", "verify", "unseal"}]
      /\ Sound(t)
  BY DEF TypeOK, AuthInv
<1>1. CASE ReadSession(t)
  <2>1. Sound(t)'
    BY <1>0, <1>1 DEF ReadSession, Sound, Capturing
  <2>2. QED
    BY <1>0, <1>1, <2>1, TaskFrame DEF ReadSession
<1>2. CASE ReadTier(t)
  <2>1. Sound(t)'
    BY <1>0, <1>2 DEF ReadTier, Sound, Capturing
  <2>2. QED
    BY <1>0, <1>2, <2>1, TaskFrame DEF ReadTier
<1>3. CASE ReadRow(t)
  <2>1. Sound(t)'
    BY <1>0, <1>3 DEF ReadRow, Sound, Capturing
  <2>2. QED
    BY <1>0, <1>3, <2>1, TaskFrame DEF ReadRow
<1>4. CASE ReadMethod(t)
  <2>1. act'[t] = "unseal" => job[t].root
    BY <1>0, <1>4 DEF ReadMethod, Gate
  <2>2. Sound(t)'
    BY <1>0, <1>4, <2>1 DEF ReadMethod, Sound, Capturing
  <2>3. PICK p \in {"binding", "reply"} : pc' = [pc EXCEPT ![t] = p]
    BY <1>4 DEF ReadMethod
  <2>4. QED
    BY <1>0, <1>4, <2>2, <2>3, TaskFrame DEF ReadMethod
<1>5. QED
  BY <1>1, <1>2, <1>3, <1>4 DEF PlanStep

LEMMA AuthMatchStep ==
    ASSUME TypeOK, AuthInv, NEW t \in Tasks, MatchStep(t)
    PROVE  AuthInv'
<1>0. /\ pc \in [Tasks -> PCs] /\ ans \in [Tasks -> Answers]
      /\ live \in [Tasks -> People \cup {Nobody}]
      /\ Sound(t)
  BY DEF TypeOK, AuthInv
<1>1. CASE CheckBinding(t)
  <2>1. Sound(t)'
    BY <1>0, <1>1 DEF CheckBinding, Sound, Capturing
  <2>2. PICK p \in {"rgb", "reply"} : pc' = [pc EXCEPT ![t] = p]
    BY <1>1 DEF CheckBinding
  <2>3. QED
    BY <1>0, <1>1, <2>1, <2>2, TaskFrame DEF CheckBinding
<1>2. CASE CaptureRgb(t)
  <2>1. Sound(t)'
    BY <1>0, <1>2 DEF CaptureRgb, Sound, Capturing
  <2>2. PICK p \in {"ir", "reply"} : pc' = [pc EXCEPT ![t] = p]
    BY <1>2 DEF CaptureRgb
  <2>3. QED
    BY <1>0, <1>2, <2>1, <2>2, TaskFrame DEF CaptureRgb
<1>3. CASE CaptureIr(t)
  <2>1. Sound(t)'
    BY <1>0, <1>3 DEF CaptureIr, Sound, Capturing
  <2>2. PICK p \in {"gate", "reply"} : pc' = [pc EXCEPT ![t] = p]
    BY <1>3 DEF CaptureIr
  <2>3. QED
    BY <1>0, <1>3, <2>1, <2>2, TaskFrame DEF CaptureIr
<1>4. CASE GateAndMatch(t)
  <2>1. Sound(t)'
    BY <1>0, <1>4 DEF GateAndMatch, Matches, Sound, Capturing
  <2>2. PICK p \in {"unseal", "reply"} : pc' = [pc EXCEPT ![t] = p]
    BY <1>4 DEF GateAndMatch
  <2>3. QED
    BY <1>0, <1>4, <2>1, <2>2, TaskFrame DEF GateAndMatch
<1>5. CASE Unseal(t)
  <2>1. Sound(t)'
    BY <1>0, <1>5 DEF Unseal, Sound, Capturing
  <2>2. QED
    BY <1>0, <1>5, <2>1, TaskFrame DEF Unseal
<1>6. QED
  BY <1>1, <1>2, <1>3, <1>4, <1>5 DEF MatchStep

\* A connection is accepted: the task is new, the conversation was nobody's.
LEMMA AuthAccept ==
    ASSUME TypeOK, AuthInv, NEW t \in Tasks, NEW c \in Clients, Accept(t, c)
    PROVE  AuthInv'
<1> USE DEF AuthInv
<1>1. /\ pc \in [Tasks -> PCs] /\ ans \in [Tasks -> Answers]
      /\ act \in [Tasks -> {"deny", "verify", "unseal"}]
      /\ job \in [Tasks -> [kind : DirectRequests \cup {"none", "intent", "auth"},
                            user : Users \cup {Nobody}, svc : AllServices,
                            root : BOOLEAN]]
      /\ conn \in [Clients -> Tasks \cup {NoTask, Closed}]
      /\ usr \in [Clients -> Users]
  BY DEF TypeOK
<1>2. /\ job'[t].user = usr[c]
      /\ job'[t].root <=> peer[c] = Root
      /\ pc'[t] \in {"binding", "warm", "reply"}
      /\ act'[t] = "unseal" /\ pc'[t] # "reply" => job'[t].root
      /\ pc'[t] # "reply" => ans'[t] = ans[t]
      /\ ans'[t] \in {ans[t], "error"}
  BY <1>1 DEF Accept
<1>3. /\ UNCHANGED <<st, usr, peer, out, live, face, seen>>
      /\ pc[t] = "idle" /\ st[c] \in Waiting /\ conn[c] = NoTask
      /\ conn' = [conn EXCEPT ![c] = t]
      /\ \A x \in Tasks \ {t} : /\ pc'[x] = pc[x] /\ act'[x] = act[x]
                                 /\ ans'[x] = ans[x] /\ job'[x] = job[x]
  BY <1>1 DEF Accept
<1>4. Sound(t)'
  BY <1>1, <1>2, <1>3 DEF Sound, Capturing
<1>5. ASSUME NEW x \in Tasks \ {t}
      PROVE  Sound(x)'
  BY <1>3 DEF Sound
<1>6. ASSUME NEW d \in Clients
      PROVE  Served(d)'
  <2>1. CASE d = c
    BY <1>1, <1>2, <1>3, <2>1 DEF Served, Sound
  <2>2. CASE d # c
    <3>1. conn'[d] = conn[d] /\ conn[d] # t
      BY <1>1, <1>3, <2>2 DEF Served
    <3>2. QED
      BY <1>3, <3>1 DEF Served
  <2>3. QED
    BY <2>1, <2>2
<1>7. ASSUME NEW d \in Clients
      PROVE  Ended(d)'
  BY <1>3 DEF Ended, Success
<1>8. OneEach'
  <2>1. \A d \in Clients : conn[d] # t
    BY <1>3 DEF Served
  <2>2. QED
    BY <1>1, <1>3, <2>1 DEF OneEach
<1>9. QED
  BY <1>4, <1>5, <1>6, <1>7, <1>8

\* An answer, or its absence, ends a conversation as it should if it is what
\* the conversation's own task found, or none at all.
LEMMA AuthReact ==
    ASSUME TypeOK, AuthInv, NEW c \in Clients, NEW a, React(c, a),
           st[c] \in Waiting,
           a \in {"verified", "password"} => usr[c] \in seen[c],
           a = "password" => peer[c] = Root,
           UNCHANGED <<usr, peer, face, seen>>
    PROVE  /\ \A d \in Clients : Ended(d)'
           /\ conn'[c] \in {NoTask, Closed}
           /\ \A d \in Clients \ {c} : conn'[d] = conn[d] /\ st'[d] = st[d]
<1>1. /\ conn \in [Clients -> Tasks \cup {NoTask, Closed}]
      /\ st \in [Clients -> Active \cup {"idle", "done"}]
      /\ out \in [Clients -> {"none", "granted", "released", "auth_err",
                              "ignore"}]
  BY DEF TypeOK
<1>2. \A d \in Clients \ {c} : /\ conn'[d] = conn[d] /\ st'[d] = st[d]
                              /\ out'[d] = out[d]
  BY <1>1 DEF React
<1>3. /\ out'[c] # "none" => st'[c] = "done"
      /\ out'[c] = "granted" => a = "verified"
      /\ out'[c] = "released" => a = "password"
      /\ st'[c] \in {"auth", "pause", "done"}
      /\ conn'[c] \in {NoTask, Closed}
  BY <1>1 DEF React
<1>4. Ended(c)'
  BY <1>3 DEF AuthInv, Ended, Success, Active, Waiting
<1>5. ASSUME NEW d \in Clients \ {c}
      PROVE  Ended(d)'
  BY <1>2 DEF AuthInv, Ended, Success
<1>6. QED
  BY <1>2, <1>3, <1>4, <1>5

LEMMA AuthReply ==
    ASSUME TypeOK, AuthInv, NEW t \in Tasks, Reply(t)
    PROVE  AuthInv'
<1>1. /\ pc[t] = "reply"
      /\ pc'[t] = "idle" /\ ans'[t] = "none" /\ live'[t] = Nobody
      /\ act'[t] = "deny"
      /\ \A x \in Tasks \ {t} : /\ pc'[x] = pc[x] /\ act'[x] = act[x]
                                 /\ ans'[x] = ans[x] /\ job'[x] = job[x]
                                 /\ live'[x] = live[x]
      /\ UNCHANGED <<usr, peer, face, seen>>
  BY DEF Reply, TypeOK
<1>2. ASSUME NEW x \in Tasks
      PROVE  Sound(x)'
  <2>1. CASE x = t
    BY <1>1, <2>1 DEF Sound, Capturing
  <2>2. CASE x # t
    BY <1>1, <2>2 DEF AuthInv, Sound
  <2>3. QED
    BY <2>1, <2>2
<1>3. ASSUME \A d \in Clients : conn[d] # t, UNCHANGED <<st, out, conn>>
      PROVE  AuthInv'
  <2>1. ASSUME NEW d \in Clients
        PROVE  Served(d)' /\ Ended(d)'
    BY <1>1, <1>3 DEF AuthInv, Served, Ended, Success
  <2>2. OneEach'
    BY <1>3 DEF AuthInv, OneEach
  <2>3. QED
    BY <1>2, <2>1, <2>2 DEF AuthInv
<1>4. ASSUME NEW c \in Clients, conn[c] = t, NEW a \in {ans[t], "error"}, React(c, a)
      PROVE  AuthInv'
  <2>1. /\ st[c] \in Waiting
        /\ a \in {"verified", "password"} => usr[c] \in seen[c]
        /\ a = "password" => peer[c] = Root
    <3>1. job[t].user \in Users /\ job[t].user # Nobody
      BY <1>1, AuthAssumption DEF AuthInv, Sound, People
    <3>2. QED
      BY <1>4, <3>1 DEF AuthInv, Served, Sound
  <2>2. /\ \A d \in Clients : Ended(d)'
        /\ conn'[c] \in {NoTask, Closed}
        /\ \A d \in Clients \ {c} : conn'[d] = conn[d] /\ st'[d] = st[d]
    BY <1>1, <1>4, <2>1, AuthReact
  <2>3. \A d \in Clients \ {c} : conn[d] # t
    BY <1>4 DEF AuthInv, OneEach
  <2>4. conn'[c] \notin Tasks
    BY <2>2, AuthAssumption
  <2>5. ASSUME NEW d \in Clients
        PROVE  Served(d)'
    BY <1>1, <2>2, <2>3, <2>4 DEF AuthInv, Served
  <2>6. OneEach'
    BY <2>2, <2>4 DEF AuthInv, OneEach
  <2>7. QED
    BY <1>2, <2>2, <2>5, <2>6 DEF AuthInv
<1>5. QED
  BY <1>3, <1>4 DEF Reply

\* A step of a client that frees its connection or never had one.
LEMMA ClientFrame ==
    ASSUME TypeOK, AuthInv, NEW c \in Clients, Ended(c)', conn'[c] \notin Tasks,
           \A d \in Clients \ {c} :
              /\ conn'[d] = conn[d] /\ st'[d] = st[d] /\ usr'[d] = usr[d]
              /\ peer'[d] = peer[d] /\ out'[d] = out[d] /\ seen'[d] = seen[d],
           UNCHANGED <<task, face>>
    PROVE  AuthInv'
<1>1. ASSUME NEW d \in Clients
      PROVE  Served(d)'
  BY DEF AuthInv, Served
<1>2. ASSUME NEW d \in Clients
      PROVE  Ended(d)'
  BY DEF AuthInv, Ended, Success
<1>3. ASSUME NEW t \in Tasks
      PROVE  Sound(t)'
  BY DEF AuthInv, Sound
<1>4. OneEach'
  BY DEF AuthInv, OneEach
<1>5. QED
  BY <1>1, <1>2, <1>3, <1>4 DEF AuthInv

LEMMA AuthClient ==
    ASSUME TypeOK, AuthInv, NEW c \in Clients,
           \/ \E u \in Users, p \in Peers, s \in Services, w \in BOOLEAN :
                Begin(c, u, p, s, w)
           \/ ClientStep(c)
    PROVE  AuthInv'
<1>0. /\ conn \in [Clients -> Tasks \cup {NoTask, Closed}]
      /\ st \in [Clients -> Active \cup {"idle", "done"}]
      /\ out \in [Clients -> {"none", "granted", "released", "auth_err",
                              "ignore"}]
      /\ usr \in [Clients -> Users] /\ peer \in [Clients -> Peers]
      /\ seen \in [Clients -> SUBSET People]
      /\ NoTask \notin Tasks /\ Closed \notin Tasks
      /\ Ended(c)
  BY AuthAssumption DEF TypeOK, AuthInv
<1>1. ASSUME NEW u \in Users, NEW p \in Peers, NEW s \in Services,
             NEW w \in BOOLEAN, Begin(c, u, p, s, w)
      PROVE  AuthInv'
  <2>1. ASSUME s = "missing"
        PROVE  Ended(c)'
    <3>1. out'[c] \in {"ignore", "auth_err"}
      BY <1>0, <1>1, <2>1 DEF Begin
    <3>2. st'[c] = "done"
      BY <1>0, <1>1, <2>1 DEF Begin, PamServices
    <3>3. QED
      BY <3>1, <3>2 DEF Ended, Success, Active
  <2>2. ASSUME s # "missing"
        PROVE  Ended(c)'
    <3>1. out'[c] = "none"
      BY <1>0, <1>1, <2>2 DEF Begin
    <3>2. seen'[c] = {face} /\ face' = face
      BY <1>0, <1>1 DEF Begin
    <3>3. QED
      BY <3>1, <3>2 DEF Ended, Success
  <2>3. Ended(c)'
    BY <2>1, <2>2
  <2>4. \A d \in Clients \ {c} : out'[d] = out[d]
    BY <1>0, <1>1 DEF Begin
  <2>5. QED
    BY <1>0, <1>1, <2>3, <2>4, ClientFrame DEF Begin
<1>2. CASE NoAnswer(c)
  <2>1. UNCHANGED <<usr, peer, face, seen, task>> /\ st[c] \in Waiting
    BY <1>2 DEF NoAnswer
  <2>2. React(c, "error")
    BY <1>2 DEF NoAnswer
  <2>3. PICK a \in {"error"} : React(c, a)
    BY <2>2
  <2>4. /\ \A d \in Clients : Ended(d)'
        /\ conn'[c] \in {NoTask, Closed}
        /\ \A d \in Clients \ {c} : conn'[d] = conn[d] /\ st'[d] = st[d]
    BY <2>1, <2>3, AuthReact
  <2>5. \A d \in Clients \ {c} : out'[d] = out[d]
    BY <1>0, <2>2, SMTT(30) DEF React
  <2>6. QED
    BY <1>0, <2>1, <2>4, <2>5, ClientFrame
<1>3. CASE Retry(c)
  <2>1. Ended(c)'
    BY <1>0, <1>3 DEF Retry, Ended, Success, Active
  <2>2. QED
    BY <1>0, <1>3, <2>1, ClientFrame DEF Retry
<1>4. CASE DeadlinePasses(c)
  <2>1. ASSUME NEW d \in Clients
        PROVE  Served(d)' /\ Ended(d)'
    BY <1>4 DEF DeadlinePasses, AuthInv, Served, Ended, Success
  <2>2. ASSUME NEW t \in Tasks
        PROVE  Sound(t)'
    BY <1>4 DEF DeadlinePasses, AuthInv, Sound
  <2>3. OneEach'
    BY <1>4 DEF DeadlinePasses, AuthInv, OneEach
  <2>4. QED
    BY <2>1, <2>2, <2>3 DEF AuthInv
<1>5. CASE End(c)
  <2>1. Ended(c)'
    BY <1>0, <1>5 DEF End, Ended, Success, Active
  <2>2. QED
    BY <1>0, <1>5, <2>1, ClientFrame DEF End
<1>6. QED
  BY <1>1, <1>2, <1>3, <1>4, <1>5 DEF ClientStep

\* The world moves: only who is in front of the camera matters here, and a
\* conversation takes note of everyone who comes while it lasts.
LEMMA AuthWorld ==
    ASSUME TypeOK, AuthInv, World
    PROVE  AuthInv'
<1>1. /\ UNCHANGED <<client, task>>
      /\ \/ UNCHANGED <<face, seen>>
         \/ seen' = [c \in Clients |-> IF st[c] \in Active THEN seen[c] \cup {face'}
                                      ELSE seen[c]]
  BY DEF World, EditConf, OpenConf, WriteConf, ChangeSession, ChangeCamera,
         ChangeFace
<1>2. \A c \in Clients : /\ seen[c] \subseteq seen'[c]
                         /\ st[c] \in Active => face' = face \/ face' \in seen'[c]
  BY <1>1 DEF TypeOK
<1>3. ASSUME NEW c \in Clients
      PROVE  Served(c)' /\ Ended(c)'
  BY <1>1, <1>2 DEF AuthInv, Served, Ended, Success
<1>4. ASSUME NEW t \in Tasks
      PROVE  Sound(t)'
  BY <1>1 DEF AuthInv, Sound
<1>5. OneEach'
  BY <1>1 DEF AuthInv, OneEach
<1>6. QED
  BY <1>3, <1>4, <1>5 DEF AuthInv

LEMMA AuthRestart ==
    ASSUME TypeOK, AuthInv, Restart
    PROVE  AuthInv'
<1>1. ASSUME NEW c \in Clients
      PROVE  Served(c)' /\ Ended(c)'
  BY AuthAssumption DEF Restart, AuthInv, Served, Ended, Success
<1>2. ASSUME NEW t \in Tasks
      PROVE  Sound(t)'
  BY DEF Restart, Sound, Capturing
<1>3. OneEach'
  BY AuthAssumption DEF Restart, OneEach
<1>4. QED
  BY <1>1, <1>2, <1>3 DEF AuthInv

LEMMA AuthNext == TypeOK /\ AuthInv /\ [Next]_vars => AuthInv'
<1>1. ASSUME AuthInv, UNCHANGED vars
      PROVE  AuthInv'
  BY <1>1 DEF vars, AuthInv, Served, Ended, Success, OneEach, Sound
<1>2. ASSUME TypeOK, AuthInv, NEW t \in Tasks, TaskStep(t)
      PROVE  AuthInv'
  BY <1>2, AuthAccept, AuthPlanStep, AuthMatchStep, AuthReply DEF TaskStep
<1>3. QED
  BY <1>1, <1>2, AuthClient, AuthWorld, AuthRestart DEF Next

LEMMA AuthAlways == Spec => [](TypeOK /\ AuthInv)
BY TypeInit, TypeNext, AuthInit, AuthNext, PTL DEF Spec

\* Whatever tasks outlive their clients, however often a conversation retries
\* and the daemon restarts, a conversation succeeds only if its user was in
\* front of the camera while it lasted (client::request_at, Reply).
THEOREM Present == Spec => []GrantedToPresent
<1>1. AuthInv => GrantedToPresent
  BY DEF AuthInv, Ended, GrantedToPresent
<1>2. QED
  BY <1>1, AuthAlways, PTL

\* The password only ever goes to a root peer, for every policy.conf and every
\* entry to the daemon (plan_action and dispatch's check of UnsealPassword).
THEOREM RootOnly == Spec => []SecretToRoot
<1>1. AuthInv => SecretToRoot
  BY DEF AuthInv, Ended, SecretToRoot
<1>2. QED
  BY <1>1, AuthAlways, PTL

-----------------------------------------------------------------------------
(* Refinement of PamPromise!Safety.                                        *)

\* The mapping is made of functions of the conversations.
LEMMA Mapped ==
    ASSUME NEW c \in Clients
    PROVE  /\ st[c] = "idle" => Stage[c] = "idle"
           /\ st[c] \in Active => Stage[c] = "open"
           /\ st[c] = "done" /\ Success(c) => Stage[c] = out[c]
           /\ st[c] = "done" /\ ~Success(c) => Stage[c] = "declined"
           /\ AsRoot[c] = (st[c] # "idle" /\ peer[c] = Root)
           /\ Vouched[c] = (usr[c] \in seen[c])
BY DEF Stage, AsRoot, Vouched, Active

LEMMA PromiseInit == Init => Promise!Init
<1> SUFFICES ASSUME Init PROVE Promise!Init
  OBVIOUS
<1>1. Stage = [c \in Clients |-> "idle"]
  BY DEF Init, Stage, Active
<1>2. AsRoot = [c \in Clients |-> FALSE]
  BY DEF Init, AsRoot
<1>3. Vouched = [c \in Clients |-> FALSE]
  <2>1. \A c \in Clients : (usr[c] \in seen[c]) = FALSE
    BY DEF Init
  <2>2. QED
    BY <2>1 DEF Vouched
<1>4. usr \in [Clients -> Users]
  BY DEF Init
<1>5. QED
  BY <1>1, <1>2, <1>3, <1>4 DEF Promise!Init

\* A step that leaves conversations where they are is a stuttering step.
LEMMA PromiseStutter ==
    ASSUME UNCHANGED <<usr, peer, seen>>,
           \A c \in Clients : \/ st'[c] = st[c] /\ out'[c] = out[c]
                              \/ st[c] \in Active /\ st'[c] \in Active
    PROVE  UNCHANGED Promise!vars
<1>1. Stage' = Stage
  BY DEF Stage, Success, Active
<1>2. AsRoot' = AsRoot
  BY DEF AsRoot, Active
<1>3. Vouched' = Vouched
  BY DEF Vouched
<1>4. QED
  BY <1>1, <1>2, <1>3 DEF Promise!vars

LEMMA PromiseBegin ==
    ASSUME TypeOK, AuthInv, NEW c \in Clients, NEW u \in Users, NEW p \in Peers,
           NEW s \in Services, NEW w \in BOOLEAN, Begin(c, u, p, s, w)
    PROVE  Promise!Next
<1>0. /\ st[c] = "idle"
      /\ \A d \in Clients \ {c} : /\ st'[d] = st[d] /\ out'[d] = out[d]
                                 /\ usr'[d] = usr[d] /\ peer'[d] = peer[d]
                                 /\ seen'[d] = seen[d]
      /\ usr' = [usr EXCEPT ![c] = u] /\ peer'[c] = p
  BY DEF Begin, TypeOK
<1>1. \/ st'[c] \in Active /\ out'[c] = "none"
      \/ st'[c] = "done" /\ out'[c] \in {"ignore", "auth_err"}
  <2>1. st'[c] \in Active \cup {"done"} /\ (st'[c] = "done" <=> s = "missing")
    BY DEF Begin, TypeOK, Active, PamServices
  <2>2. out'[c] \in IF s = "missing" THEN {"ignore", "auth_err"} ELSE {"none"}
    BY DEF Begin, TypeOK
  <2>3. QED
    BY <2>1, <2>2
<1>2. PICK x \in {"open", "declined"} : Stage' = [Stage EXCEPT ![c] = x]
  BY <1>0, <1>1, ZenonT(30) DEF Stage, Success, Active
<1>3. PICK r \in BOOLEAN : AsRoot' = [AsRoot EXCEPT ![c] = r]
  BY <1>0 DEF AsRoot
<1>4. PICK v \in BOOLEAN : Vouched' = [Vouched EXCEPT ![c] = v]
  <2>1. \A d \in Clients \ {c} : (usr'[d] \in seen'[d]) = (usr[d] \in seen[d])
    BY <1>0
  <2>2. CASE usr'[c] \in seen'[c]
    <3>1. Vouched' = [Vouched EXCEPT ![c] = TRUE]
      BY <2>1, <2>2 DEF Vouched
    <3>2. QED
      BY <3>1
  <2>3. CASE usr'[c] \notin seen'[c]
    <3>1. (usr'[c] \in seen'[c]) = FALSE
      BY <2>3
    <3>2. Vouched' = [Vouched EXCEPT ![c] = FALSE]
      BY <2>1, <3>1 DEF Vouched
    <3>3. QED
      BY <3>2
  <2>4. QED
    BY <2>2, <2>3
<1>5. Stage[c] = "idle"
  BY <1>0, Mapped
<1>6. Promise!Open(c, u, r, x)
  BY <1>0, <1>2, <1>3, <1>4, <1>5 DEF Promise!Open
<1>7. QED
  BY <1>6 DEF Promise!Next

\* The client reacts: the conversation goes on, or it is closed as the abstract
\* specification allows.
LEMMA PromiseReact ==
    ASSUME TypeOK, AuthInv, NEW c \in Clients, NEW a, React(c, a),
           st[c] \in Waiting, Ended(c)',
           UNCHANGED <<usr, peer, face, seen>>
    PROVE  Promise!Next \/ UNCHANGED Promise!vars
<1>0. /\ \A d \in Clients \ {c} : st'[d] = st[d] /\ out'[d] = out[d]
      /\ st'[c] \in {"auth", "pause", "done"}
  BY DEF React, TypeOK
<1>1. CASE st'[c] # "done"
  <2>1. st[c] \in Active /\ st'[c] \in Active
    BY <1>0, <1>1 DEF Waiting, Active
  <2>2. \A d \in Clients : \/ st'[d] = st[d] /\ out'[d] = out[d]
                           \/ st[d] \in Active /\ st'[d] \in Active
    BY <1>0, <2>1
  <2>3. UNCHANGED Promise!vars
    BY <2>2, PromiseStutter
  <2>4. QED
    BY <2>3
<1>2. CASE st'[c] = "done"
  <2>1. Stage[c] = "open" /\ AsRoot[c] = (peer[c] = Root)
    BY Mapped DEF Waiting, Active
  <2>2. PICK o \in {"granted", "released", "declined"} :
          /\ Stage' = [Stage EXCEPT ![c] = o]
          /\ o # "declined" => Success(c)'
          /\ o = "released" => out'[c] = "released"
    <3>1. CASE Success(c)'
      BY <1>0, <1>2, <3>1, ZenonT(30) DEF Stage, Success, Active
    <3>2. CASE ~Success(c)'
      BY <1>0, <1>2, <3>2 DEF Stage, Success, Active
    <3>3. QED
      BY <3>1, <3>2
  <2>3. (o # "declined" => Vouched[c]) /\ (o = "released" => AsRoot[c])
    BY <2>1, <2>2, Mapped DEF Ended
  <2>4. AsRoot' = AsRoot /\ Vouched' = Vouched
    BY <1>0, <1>2 DEF AsRoot, Vouched, Waiting
  <2>5. Promise!Close(c)
    BY <2>1, <2>2, <2>3, <2>4 DEF Promise!Close
  <2>6. QED
    BY <2>5 DEF Promise!Next
<1>3. QED
  BY <1>1, <1>2

LEMMA PromiseEnd ==
    ASSUME TypeOK, AuthInv, NEW c \in Clients, End(c)
    PROVE  Promise!Next
<1>1. /\ st[c] = "done" /\ st'[c] = "idle" /\ seen'[c] = {} /\ usr' = usr
      /\ \A d \in Clients \ {c} : /\ st'[d] = st[d] /\ out'[d] = out[d]
                                 /\ peer'[d] = peer[d] /\ seen'[d] = seen[d]
  BY DEF End, TypeOK
<1>2. Stage[c] \in {"granted", "released", "declined"}
  BY <1>1, Mapped DEF Success
<1>3. Stage' = [Stage EXCEPT ![c] = "idle"]
  BY <1>1 DEF Stage, Success, Active
<1>4. AsRoot' = [AsRoot EXCEPT ![c] = FALSE]
  BY <1>1 DEF AsRoot
<1>5. Vouched' = [Vouched EXCEPT ![c] = FALSE]
  <2>1. \A d \in Clients \ {c} : (usr'[d] \in seen'[d]) = (usr[d] \in seen[d])
    BY <1>1
  <2>2. (usr'[c] \in seen'[c]) = FALSE
    BY <1>1
  <2>3. QED
    BY <2>1, <2>2 DEF Vouched
<1>6. Promise!Forget(c)
  BY <1>1, <1>2, <1>3, <1>4, <1>5 DEF Promise!Forget
<1>7. QED
  BY <1>6 DEF Promise!Next

\* Somebody comes: a user is vouched for, anybody else changes nothing.
LEMMA PromiseFace ==
    ASSUME TypeOK, AuthInv, NEW f \in People, ChangeFace(f)
    PROVE  Promise!Next \/ UNCHANGED Promise!vars
<1>1. /\ UNCHANGED <<st, usr, peer, out>>
      /\ seen' = [c \in Clients |->
                     IF st[c] \in Active THEN seen[c] \cup {f} ELSE seen[c]]
  BY DEF ChangeFace
<1>2. Stage' = Stage /\ AsRoot' = AsRoot
  BY <1>1 DEF Stage, AsRoot, Success
<1>3. \A c \in Clients : (usr[c] \in seen'[c]) =
                            (usr[c] \in seen[c] \/ (st[c] \in Active /\ usr[c] = f))
  BY <1>1 DEF TypeOK
<1>4. CASE f \in Users
  <2>1. \A c \in Clients : st[c] \in Active <=> Stage[c] = "open"
    BY DEF Stage, Success, Active
  <2>2. \A c \in Clients : (usr'[c] \in seen'[c]) =
                              (Vouched[c] \/ (Stage[c] = "open" /\ usr[c] = f))
    BY <1>1, <1>3, <2>1, Mapped
  <2>3. Vouched' = [c \in Clients |->
                      Vouched[c] \/ (Stage[c] = "open" /\ usr[c] = f)]
    BY <2>2 DEF Vouched
  <2>4. Promise!Vouch(f)
    BY <1>1, <1>2, <2>3 DEF Promise!Vouch
  <2>5. QED
    BY <1>4, <2>4 DEF Promise!Next
<1>5. CASE f \notin Users
  <2>1. \A c \in Clients : (usr'[c] \in seen'[c]) = (usr[c] \in seen[c])
    BY <1>1, <1>3, <1>5 DEF TypeOK
  <2>2. Vouched' = Vouched
    BY <2>1 DEF Vouched
  <2>3. QED
    BY <1>1, <1>2, <2>2 DEF Promise!vars
<1>6. QED
  BY <1>4, <1>5

LEMMA PromiseNext ==
    ASSUME TypeOK, AuthInv, AuthInv', [Next]_vars
    PROVE  [Promise!Next]_Promise!vars
<1>1. ASSUME UNCHANGED <<st, out, usr, peer, seen>>
      PROVE  UNCHANGED Promise!vars
  BY <1>1, PromiseStutter
<1>2. ASSUME NEW c \in Clients, ClientStep(c)
      PROVE  Promise!Next \/ UNCHANGED Promise!vars
  <2>1. CASE NoAnswer(c)
    <3>1. PICK a \in {"error"} : React(c, a)
      BY <2>1 DEF NoAnswer
    <3>2. /\ st[c] \in Waiting /\ Ended(c)'
          /\ UNCHANGED <<usr, peer, face, seen>>
      BY <2>1 DEF NoAnswer, AuthInv
    <3>3. QED
      BY <3>1, <3>2, PromiseReact
  <2>2. CASE Retry(c)
    <3>1. UNCHANGED <<usr, peer, seen, out>>
      BY <2>2 DEF Retry
    <3>2. \A d \in Clients : \/ st'[d] = st[d] /\ out'[d] = out[d]
                             \/ st[d] \in Active /\ st'[d] \in Active
      BY <2>2 DEF Retry, Active, TypeOK
    <3>3. UNCHANGED Promise!vars
      BY <3>1, <3>2, PromiseStutter
    <3>4. QED
      BY <3>3
  <2>3. CASE DeadlinePasses(c)
    BY <1>1, <2>3 DEF DeadlinePasses
  <2>4. CASE End(c)
    BY <2>4, PromiseEnd
  <2>5. QED
    BY <1>2, <2>1, <2>2, <2>3, <2>4 DEF ClientStep
<1>3. ASSUME NEW t \in Tasks, TaskStep(t)
      PROVE  Promise!Next \/ UNCHANGED Promise!vars
  <2>1. ASSUME NEW c \in Clients, Accept(t, c)
        PROVE  UNCHANGED Promise!vars
    BY <1>1, <2>1 DEF Accept
  <2>2. CASE PlanStep(t) \/ MatchStep(t)
    <3>1. UNCHANGED <<st, out, usr, peer, seen>>
      BY <2>2 DEF PlanStep, ReadSession, ReadTier, ReadRow, ReadMethod, MatchStep,
                  CheckBinding, CaptureRgb, CaptureIr, GateAndMatch, Unseal
    <3>2. QED
      BY <1>1, <3>1
  <2>3. ASSUME NEW c \in Clients, Reply(t), conn[c] = t,
               NEW a \in {ans[t], "error"}, React(c, a)
        PROVE  Promise!Next \/ UNCHANGED Promise!vars
    <3>1. /\ st[c] \in Waiting /\ Ended(c)'
          /\ UNCHANGED <<usr, peer, face, seen>>
      BY <2>3 DEF Reply, AuthInv, Served
    <3>2. QED
      BY <2>3, <3>1, PromiseReact
  <2>4. ASSUME Reply(t), UNCHANGED <<st, out, conn>>
        PROVE  UNCHANGED Promise!vars
    BY <1>1, <2>4 DEF Reply
  <2>5. QED
    BY <1>3, <2>1, <2>2, <2>3, <2>4 DEF TaskStep, Reply
<1>4. CASE Restart
  BY <1>1, <1>4 DEF Restart
<1>5. CASE World
  <2>1. UNCHANGED <<st, out, usr, peer, seen>> \/ \E f \in People : ChangeFace(f)
    BY <1>5 DEF World, EditConf, OpenConf, WriteConf, ChangeSession, ChangeCamera
  <2>2. QED
    BY <1>1, <2>1, PromiseFace
<1>6. CASE UNCHANGED vars
  BY <1>1, <1>6 DEF vars
<1>7. QED
  BY <1>2, <1>3, <1>4, <1>5, <1>6, PromiseBegin DEF Next

\* The whole path, from pam_sm_authenticate to the capture and back, does what
\* PamPromise says, for any number of conversations and tasks: granted only to
\* a user who was seen, with the secret only to root, and forgotten at the end.
THEOREM Implements == Spec => Promise!Safety
BY AuthAlways, PromiseInit, PromiseNext, PTL DEF Spec, Promise!Safety

-----------------------------------------------------------------------------
(* The policy table and the IR camera.                                     *)

\* past check_camera_binding
Looked == {"rgb", "ir", "gate", "unseal"}
Accepting == {"verified", "password"}

\* what plan_action comes to for c's request, under the policy and the session
\* as they are, before the method and the peer are looked at
PlanFor(c) ==
    LET k == Classify(svc[c], warm[usr[c]])
    IN  Decide(k, EffectiveTier(conf, usr[c]), Row(conf, k))

\* A task that has passed the binding check of a user with an IR camera has
\* found it attached while its conversation lasted.
SawIr(c, t) ==
    (pc[t] \in Looked \/ ans[t] \in Accepting) /\ bind[usr[c]] = "ir" => irSeen[c]

\* While policy and session are settled, what a task has read so far is what it
\* would read now, and what it does is the plan.
Follows(c, t) ==
    calm[c] /\ svc[c] \in PamServices =>
        /\ job[t].svc = svc[c]
        /\ job[t].kind \in {"intent", "auth"}
        /\ pc[t] \in {"tier", "row"} => cls[t] = Classify(svc[c], warm[usr[c]])
        /\ pc[t] = "row" => tier[t] = EffectiveTier(conf, usr[c])
        /\ pc[t] = "method" => act[t] = PlanFor(c)
        /\ pc[t] \in Capturing \/ ans[t] \in Accepting =>
             act[t] = PlanFor(c) /\ act[t] # "deny" /\ FaceIsActive(conf)
        /\ ans[t] = "verified" => act[t] # "unseal"
        /\ ans[t] = "password" => act[t] = "unseal"

\* A calm conversation has seen neither an edit nor a write of policy.conf.
Settled == \A c \in Clients : calm[c] => pend = NoWrite /\ conf = meant

\* What the conversation has noted of the camera, and what it came to.
Noted(c) == st[c] \in Active /\ ir => irSeen[c]
Came(c) ==
    /\ Success(c) /\ bind[usr[c]] = "ir" => irSeen[c]
    /\ calm[c] /\ Success(c) /\ svc[c] \in PamServices
         => Permitted(meant, usr[c], svc[c], out[c])

PolicyInv ==
    /\ Settled
    /\ \A c \in Clients : Noted(c) /\ Came(c)
    /\ \A c \in Clients, t \in Tasks : conn[c] = t => SawIr(c, t) /\ Follows(c, t)

\* What the conversations know when no step touches them.
LEMMA ClientsStay ==
    ASSUME PolicyInv, UNCHANGED <<confVars, warm, bind, ir>>, NEW c \in Clients,
           st'[c] = st[c], out'[c] = out[c], usr'[c] = usr[c], svc'[c] = svc[c],
           calm'[c] = calm[c], irSeen'[c] = irSeen[c]
    PROVE  Noted(c)' /\ Came(c)'
<1>1. Permitted(meant, usr[c], svc[c], out[c])'
        <=> Permitted(meant, usr[c], svc[c], out[c])
  BY DEF Permitted, EffectiveTier
<1>2. QED
  BY <1>1 DEF PolicyInv, Noted, Came, Success

LEMMA SettledStays ==
    ASSUME PolicyInv, UNCHANGED <<confVars, calm>> PROVE Settled'
BY DEF PolicyInv, Settled

\* The plan only depends on the request, the policy, the session and the binding.
LEMMA PlanStays ==
    ASSUME UNCHANGED <<conf, warm, bind>>, NEW c \in Clients,
           usr'[c] = usr[c], svc'[c] = svc[c]
    PROVE  /\ PlanFor(c)' = PlanFor(c)
           /\ EffectiveTier(conf, usr[c])' = EffectiveTier(conf, usr[c])
           /\ Classify(svc[c], warm[usr[c]])' = Classify(svc[c], warm[usr[c]])
           /\ FaceIsActive(conf)' = FaceIsActive(conf)
<1>1. EffectiveTier(conf, usr[c])' = EffectiveTier(conf, usr[c])
  BY DEF EffectiveTier
<1>2. Classify(svc[c], warm[usr[c]])' = Classify(svc[c], warm[usr[c]])
  BY DEF Classify
<1>3. \A k : Row(conf, k)' = Row(conf, k)
  BY DEF Row
<1>4. PlanFor(c)' = PlanFor(c)
  BY <1>1, <1>2, <1>3 DEF PlanFor, Decide
<1>5. QED
  BY <1>1, <1>2, <1>4 DEF FaceIsActive

\* A task that a step leaves alone, and its conversation.
LEMMA PairStays ==
    ASSUME PolicyInv, UNCHANGED <<conf, warm, bind>>,
           NEW c \in Clients, NEW t \in Tasks, conn[c] = t,
           usr'[c] = usr[c], svc'[c] = svc[c], calm'[c] = calm[c],
           irSeen[c] => irSeen'[c],
           pc'[t] = pc[t], job'[t] = job[t], cls'[t] = cls[t], tier'[t] = tier[t],
           act'[t] = act[t], ans'[t] = ans[t]
    PROVE  SawIr(c, t)' /\ Follows(c, t)'
<1>1. SawIr(c, t) /\ Follows(c, t)
  BY DEF PolicyInv
<1>2. SawIr(c, t)'
  BY <1>1 DEF SawIr
<1>3. Follows(c, t)'
  BY <1>1, PlanStays DEF Follows
<1>4. QED
  BY <1>2, <1>3

\* A step of task t within a request: the conversation it works for matters.
LEMMA PolicyTask ==
    ASSUME PolicyInv, NEW t \in Tasks,
           UNCHANGED <<confVars, warm, bind, ir, st, usr, svc, out, conn, calm, irSeen>>,
           \A x \in Tasks \ {t} :
              /\ pc'[x] = pc[x] /\ job'[x] = job[x] /\ cls'[x] = cls[x]
              /\ tier'[x] = tier[x] /\ act'[x] = act[x] /\ ans'[x] = ans[x],
           \A c \in Clients : conn[c] = t => SawIr(c, t)' /\ Follows(c, t)'
    PROVE  PolicyInv'
<1>1. Settled'
  BY SettledStays
<1>2. ASSUME NEW c \in Clients PROVE Noted(c)' /\ Came(c)'
  BY ClientsStay
<1>3. ASSUME NEW c \in Clients, NEW x \in Tasks, conn'[c] = x
      PROVE  SawIr(c, x)' /\ Follows(c, x)'
  <2>1. CASE x = t
    BY <1>3, <2>1
  <2>2. CASE x # t
    BY <1>3, <2>2, PairStays
  <2>3. QED
    BY <2>1, <2>2
<1>4. QED
  BY <1>1, <1>2, <1>3 DEF PolicyInv

LEMMA PolicyPlanStep ==
    ASSUME TypeOK, AuthInv, PolicyInv, NEW t \in Tasks, PlanStep(t)
    PROVE  PolicyInv'
<1>f. /\ UNCHANGED <<confVars, warm, bind, ir, st, usr, svc, out, conn, calm, irSeen, job>>
      /\ \A x \in Tasks \ {t} :
            /\ pc'[x] = pc[x] /\ job'[x] = job[x] /\ cls'[x] = cls[x]
            /\ tier'[x] = tier[x] /\ act'[x] = act[x] /\ ans'[x] = ans[x]
  BY DEF TypeOK, PlanStep, ReadSession, ReadTier, ReadRow, ReadMethod
<1>0. ans[t] = "none" /\ pc[t] \in {"warm", "tier", "row", "method"}
  BY DEF AuthInv, Sound, PlanStep, ReadSession, ReadTier, ReadRow, ReadMethod
<1> SUFFICES ASSUME NEW c \in Clients, conn[c] = t
             PROVE  SawIr(c, t)' /\ Follows(c, t)'
  BY <1>f, PolicyTask
<1>a. /\ SawIr(c, t) /\ Follows(c, t)
      /\ job[t].user = usr[c]
  BY DEF PolicyInv, AuthInv, Served
<1>p. /\ PlanFor(c)' = PlanFor(c)
      /\ EffectiveTier(conf, usr[c])' = EffectiveTier(conf, usr[c])
      /\ Classify(svc[c], warm[usr[c]])' = Classify(svc[c], warm[usr[c]])
      /\ FaceIsActive(conf)' = FaceIsActive(conf)
  BY <1>f, PlanStays
<1>1. CASE ReadSession(t)
  <2>1. pc'[t] = "tier" /\ ans'[t] = "none"
    BY <1>0, <1>1 DEF ReadSession, TypeOK
  <2>2. cls'[t] = Classify(job[t].svc, warm[usr[c]])
    BY <1>1, <1>a DEF ReadSession, TypeOK
  <2>3. Follows(c, t)'
    BY <1>a, <1>f, <1>p, <2>1, <2>2 DEF Follows, Capturing, Accepting
  <2>4. SawIr(c, t)'
    BY <2>1 DEF SawIr, Looked, Accepting
  <2>5. QED
    BY <2>3, <2>4
<1>2. CASE ReadTier(t)
  <2>1. pc[t] = "tier" /\ pc'[t] = "row" /\ ans'[t] = "none" /\ cls'[t] = cls[t]
    BY <1>0, <1>2 DEF ReadTier, TypeOK
  <2>2. tier'[t] = EffectiveTier(conf, usr[c])
    BY <1>2, <1>a DEF ReadTier, TypeOK
  <2>3. Follows(c, t)'
    BY <1>a, <1>f, <1>p, <2>1, <2>2 DEF Follows, Capturing, Accepting
  <2>4. SawIr(c, t)'
    BY <2>1 DEF SawIr, Looked, Accepting
  <2>5. QED
    BY <2>3, <2>4
<1>3. CASE ReadRow(t)
  <2>1. pc[t] = "row" /\ pc'[t] = "method" /\ ans'[t] = "none"
    BY <1>0, <1>3 DEF ReadRow, TypeOK
  <2>2. act'[t] = Decide(cls[t], tier[t], Row(conf, cls[t]))
    BY <1>3, <1>a DEF ReadRow, TypeOK
  <2>3. calm[c] /\ svc[c] \in PamServices => act'[t] = PlanFor(c)
    BY <1>a, <2>1, <2>2 DEF Follows, PlanFor
  <2>4. Follows(c, t)'
    BY <1>a, <1>f, <1>p, <2>1, <2>3 DEF Follows, Capturing, Accepting
  <2>5. SawIr(c, t)'
    BY <2>1 DEF SawIr, Looked, Accepting
  <2>6. QED
    BY <2>4, <2>5
<1>4. CASE ReadMethod(t)
  <2>1. /\ pc[t] = "method" /\ pc'[t] \in {"binding", "reply"}
        /\ ans'[t] \notin Accepting
    BY <1>0, <1>4 DEF ReadMethod, TypeOK, Accepting
  <2>2. act'[t] = Gate(act[t], FaceIsActive(conf), job[t].root)
    BY <1>4 DEF ReadMethod, TypeOK
  <2>3. pc'[t] = "binding" => act'[t] # "deny"
    BY <1>4, <2>2 DEF ReadMethod, TypeOK
  <2>4. act'[t] # "deny" => act'[t] = act[t] /\ FaceIsActive(conf)
    BY <2>2 DEF Gate
  <2>5. Follows(c, t)'
    BY <1>a, <1>f, <1>p, <2>1, <2>3, <2>4 DEF Follows, Capturing, Accepting
  <2>6. SawIr(c, t)'
    BY <2>1 DEF SawIr, Looked
  <2>7. QED
    BY <2>5, <2>6
<1>5. QED
  BY <1>1, <1>2, <1>3, <1>4 DEF PlanStep

LEMMA PolicyMatchStep ==
    ASSUME TypeOK, AuthInv, PolicyInv, NEW t \in Tasks, MatchStep(t)
    PROVE  PolicyInv'
<1>f. /\ UNCHANGED <<confVars, warm, bind, ir, st, usr, svc, out, conn, calm, irSeen, job,
                     cls, tier, act>>
      /\ \A x \in Tasks \ {t} :
            /\ pc'[x] = pc[x] /\ job'[x] = job[x] /\ cls'[x] = cls[x]
            /\ tier'[x] = tier[x] /\ act'[x] = act[x] /\ ans'[x] = ans[x]
  BY DEF TypeOK, MatchStep, CheckBinding, CaptureRgb, CaptureIr, GateAndMatch, Unseal
<1>0. ans[t] = "none" /\ pc[t] \in Capturing
  BY DEF AuthInv, Sound, MatchStep, CheckBinding, CaptureRgb, CaptureIr, GateAndMatch,
         Unseal, Capturing
<1>1. /\ pc'[t] \in Capturing \cup {"reply"}
      /\ ans'[t] = "verified" => act[t] # "unseal"
      /\ ans'[t] = "password" => act[t] = "unseal"
  BY <1>0 DEF TypeOK, MatchStep, CheckBinding, CaptureRgb, CaptureIr, GateAndMatch,
              Unseal, Capturing, AuthInv, Sound
<1>2. /\ pc'[t] \in Looked \/ ans'[t] \in Accepting =>
            \/ pc[t] \in Looked
            \/ pc[t] = "binding" /\ (bind[job[t].user] = "ir" => ir)
  BY <1>0 DEF TypeOK, MatchStep, CheckBinding, CaptureRgb, CaptureIr, GateAndMatch,
              Unseal, Looked, Accepting
<1> SUFFICES ASSUME NEW c \in Clients, conn[c] = t
             PROVE  SawIr(c, t)' /\ Follows(c, t)'
  BY <1>f, PolicyTask
<1>a. /\ SawIr(c, t) /\ Follows(c, t) /\ Noted(c)
      /\ job[t].user = usr[c] /\ st[c] \in Active
  BY DEF PolicyInv, AuthInv, Served, Active, Waiting
<1>p. /\ PlanFor(c)' = PlanFor(c)
      /\ FaceIsActive(conf)' = FaceIsActive(conf)
  BY <1>f, PlanStays
<1>3. Follows(c, t)'
  BY <1>0, <1>1, <1>a, <1>f, <1>p DEF Follows, Capturing
<1>4. SawIr(c, t)'
  BY <1>2, <1>a, <1>f DEF SawIr, Noted
<1>5. QED
  BY <1>3, <1>4

LEMMA PolicyAccept ==
    ASSUME TypeOK, AuthInv, PolicyInv, NEW t \in Tasks, NEW c \in Clients, Accept(t, c)
    PROVE  PolicyInv'
<1>1. /\ UNCHANGED <<confVars, warm, bind, ir, st, usr, svc, out, calm, irSeen>>
      /\ conn' = [conn EXCEPT ![c] = t] /\ pc[t] = "idle"
      /\ \A x \in Tasks \ {t} :
            /\ pc'[x] = pc[x] /\ job'[x] = job[x] /\ cls'[x] = cls[x]
            /\ tier'[x] = tier[x] /\ act'[x] = act[x] /\ ans'[x] = ans[x]
  BY DEF Accept, TypeOK
<1>2. /\ job'[t].svc = svc[c] /\ st[c] \in Waiting /\ ans[t] = "none"
      /\ svc[c] \in PamServices => job'[t].kind \in {"intent", "auth"}
      /\ svc[c] \in PamServices => pc'[t] \in {"warm", "reply"}
      /\ pc'[t] \in {"binding", "warm", "reply"}
      /\ ans'[t] \in {"none", "error"}
  BY DEF Accept, TypeOK, AuthInv, Sound, PamServices, DirectRequests
<1>3. Settled'
  BY <1>1, SettledStays
<1>4. ASSUME NEW d \in Clients PROVE Noted(d)' /\ Came(d)'
  BY <1>1, ClientsStay
<1>5. SawIr(c, t)'
  BY <1>2 DEF SawIr, Looked, Accepting
<1>6. Follows(c, t)'
  BY <1>1, <1>2 DEF Follows, Capturing, Accepting
<1>7. ASSUME NEW d \in Clients, NEW x \in Tasks, conn'[d] = x
      PROVE  SawIr(d, x)' /\ Follows(d, x)'
  <2>1. CASE d = c
    <3>1. x = t
      BY <1>1, <1>7, <2>1 DEF TypeOK
    <3>2. QED
      BY <1>5, <1>6, <2>1, <3>1
  <2>2. CASE d # c
    <3>1. conn[d] = x
      BY <1>1, <1>7, <2>2 DEF TypeOK
    <3>2. x # t
      BY <1>1, <3>1 DEF AuthInv, Served
    <3>3. QED
      BY <1>1, <3>1, <3>2, PairStays
  <2>3. QED
    BY <2>1, <2>2
<1>8. QED
  BY <1>3, <1>4, <1>7 DEF PolicyInv

\* A step of conversation c that frees its connection or never had one.
LEMMA PolicyFrame ==
    ASSUME PolicyInv, NEW c \in Clients, UNCHANGED <<confVars, warm, bind, ir>>,
           calm'[c] => pend = NoWrite /\ conf = meant,
           Noted(c)', Came(c)', conn'[c] \notin Tasks,
           \A d \in Clients \ {c} :
              /\ st'[d] = st[d] /\ out'[d] = out[d] /\ usr'[d] = usr[d]
              /\ svc'[d] = svc[d] /\ conn'[d] = conn[d] /\ calm'[d] = calm[d]
              /\ irSeen'[d] = irSeen[d],
           \A d \in Clients \ {c}, x \in Tasks :
              conn[d] = x => /\ pc'[x] = pc[x] /\ job'[x] = job[x]
                             /\ cls'[x] = cls[x] /\ tier'[x] = tier[x]
                             /\ act'[x] = act[x] /\ ans'[x] = ans[x]
    PROVE  PolicyInv'
<1>1. Settled'
  BY DEF PolicyInv, Settled
<1>2. ASSUME NEW d \in Clients PROVE Noted(d)' /\ Came(d)'
  <2>1. CASE d = c
    BY <2>1
  <2>2. CASE d # c
    BY <2>2, ClientsStay
  <2>3. QED
    BY <2>1, <2>2
<1>3. ASSUME NEW d \in Clients, NEW x \in Tasks, conn'[d] = x
      PROVE  SawIr(d, x)' /\ Follows(d, x)'
  <2>1. d # c /\ conn[d] = x
    BY <1>3
  <2>2. QED
    BY <2>1, PairStays
<1>4. QED
  BY <1>1, <1>2, <1>3 DEF PolicyInv

\* The plan is the table: what a request may come to, row by row.
LEMMA PlanPermitted ==
    ASSUME NEW c \in Clients, NEW o, svc[c] \in PamServices, warm[usr[c]] \in BOOLEAN,
           conf = meant, FaceIsActive(conf),
           \/ o = "granted" /\ PlanFor(c) = "verify"
           \/ o = "released" /\ PlanFor(c) = "unseal"
    PROVE  Permitted(meant, usr[c], svc[c], o)
<1> DEFINE k == Classify(svc[c], warm[usr[c]])
           t == EffectiveTier(conf, usr[c])
           row == Row(conf, k)
<1>1. PlanFor(c) = Decide(k, t, row)
  BY DEF PlanFor
<1>2. CASE o = "granted" /\ PlanFor(c) = "verify"
  <2>1. k = "screenUnlock" /\ (row = "rgb" \/ (row = "ir" /\ t = "secure"))
    BY <1>1, <1>2 DEF Decide
  <2>2. svc[c] = "greeter" /\ warm[usr[c]]
    BY <2>1 DEF Classify
  <2>3. /\ conf["screen_unlock"] # "off"
        /\ conf["screen_unlock"] = "ir" => t = "secure"
    <3>1. row = IF conf["screen_unlock"] \in {"off", "rgb", "ir"}
                THEN conf["screen_unlock"] ELSE "rgb"
      BY <2>1 DEF Row, RowKey
    <3>2. QED
      BY <2>1, <3>1
  <2>4. QED
    BY <1>2, <2>2, <2>3 DEF Permitted, FaceIsActive
<1>3. CASE o = "released" /\ PlanFor(c) = "unseal"
  <2>1. k \in {"login", "elevation"} /\ t = "secure" /\ row # "off"
    <3>1. k \in {"screenUnlock", "login", "elevation", "remote", "unknown"}
      BY DEF Classify
    <3>2. QED
      BY <1>1, <1>3, <3>1 DEF Decide
  <2>2. \/ k = "login" /\ svc[c] = "greeter" /\ ~warm[usr[c]]
        \/ k = "elevation" /\ svc[c] = "elevation"
    BY <2>1 DEF Classify
  <2>3. /\ k = "login" => conf["login"] # "off"
        /\ k = "elevation" => conf["sudo"] # "off"
    BY <2>1 DEF Row, RowKey
  <2>4. QED
    BY <1>3, <2>1, <2>2, <2>3 DEF Permitted, FaceIsActive
<1>4. QED
  BY <1>2, <1>3

\* What an answer makes of a conversation, and what it leaves of the others.
LEMMA ReactFacts ==
    ASSUME TypeOK, NEW c \in Clients, NEW a, React(c, a), st[c] \in Waiting
    PROVE  /\ out'[c] = "granted" => a = "verified"
           /\ out'[c] = "released" => a = "password"
           /\ conn'[c] \notin Tasks
           /\ \A d \in Clients \ {c} :
                st'[d] = st[d] /\ out'[d] = out[d] /\ conn'[d] = conn[d]
<1>1. /\ conn \in [Clients -> Tasks \cup {NoTask, Closed}]
      /\ st \in [Clients -> Active \cup {"idle", "done"}]
      /\ out \in [Clients -> {"none", "granted", "released", "auth_err", "ignore"}]
  BY DEF TypeOK
<1>2. out'[c] = "granted" => a = "verified"
  BY <1>1 DEF React
<1>3. out'[c] = "released" => a = "password"
  BY <1>1 DEF React
<1>4. conn'[c] \notin Tasks
  BY <1>1, AuthAssumption DEF React
<1>5. \A d \in Clients \ {c} :
         st'[d] = st[d] /\ out'[d] = out[d] /\ conn'[d] = conn[d]
  BY <1>1 DEF React
<1>6. QED
  BY <1>2, <1>3, <1>4, <1>5

\* The conversation that gets an answer: what its task planned and saw.
LEMMA PolicyReact ==
    ASSUME TypeOK, AuthInv, PolicyInv, NEW c \in Clients, NEW a, React(c, a),
           st[c] \in Waiting,
           a \in Accepting => \E t \in Tasks : conn[c] = t /\ ans[t] = a,
           UNCHANGED <<confVars, warm, bind, ir, usr, svc, calm, irSeen>>
    PROVE  Noted(c)' /\ Came(c)'
<1>1. /\ out'[c] = "granted" => a = "verified"
      /\ out'[c] = "released" => a = "password"
  BY ReactFacts
<1>2. Noted(c)'
  BY DEF PolicyInv, Noted, Waiting, Active
<1>3. ASSUME out'[c] \in {"granted", "released"} PROVE Came(c)'
  <2>1. PICK t \in Tasks : conn[c] = t /\ ans[t] = a
    BY <1>1, <1>3 DEF Accepting
  <2>2. SawIr(c, t) /\ Follows(c, t) /\ Settled
    BY <2>1 DEF PolicyInv
  <2>3. a \in Accepting
    BY <1>1, <1>3 DEF Accepting
  <2>4. bind[usr[c]] = "ir" => irSeen[c]
    BY <2>1, <2>2, <2>3 DEF SawIr
  <2>5. ASSUME calm[c], svc[c] \in PamServices
        PROVE  Permitted(meant, usr[c], svc[c], out[c])'
    <3>1. /\ act[t] = PlanFor(c) /\ act[t] # "deny" /\ FaceIsActive(conf)
          /\ a = "verified" => act[t] # "unseal"
          /\ a = "password" => act[t] = "unseal"
      BY <2>1, <2>2, <2>3, <2>5 DEF Follows
    <3>2. act[t] \in {"deny", "verify", "unseal"} /\ warm[usr[c]] \in BOOLEAN
      BY DEF TypeOK
    <3>3. conf = meant
      BY <2>2, <2>5 DEF Settled
    <3>4. PICK o \in {"granted", "released"} : o = out'[c]
      BY <1>3
    <3>5. \/ o = "granted" /\ PlanFor(c) = "verify"
          \/ o = "released" /\ PlanFor(c) = "unseal"
      BY <1>1, <3>1, <3>2, <3>4
    <3>6. Permitted(meant, usr[c], svc[c], o)
      BY <2>5, <3>1, <3>2, <3>3, <3>5, PlanPermitted
    <3>7. QED
      BY <3>4, <3>6 DEF Permitted, EffectiveTier
  <2>6. QED
    BY <2>4, <2>5 DEF Came
<1>4. ASSUME out'[c] \notin {"granted", "released"} PROVE Came(c)'
  BY <1>4 DEF Came, Success
<1>5. QED
  BY <1>2, <1>3, <1>4

LEMMA PolicyReply ==
    ASSUME TypeOK, AuthInv, PolicyInv, NEW t \in Tasks, Reply(t)
    PROVE  PolicyInv'
<1>1. /\ UNCHANGED <<confVars, warm, bind, ir, usr, svc, calm, irSeen>>
      /\ \A x \in Tasks \ {t} :
            /\ pc'[x] = pc[x] /\ job'[x] = job[x] /\ cls'[x] = cls[x]
            /\ tier'[x] = tier[x] /\ act'[x] = act[x] /\ ans'[x] = ans[x]
  BY DEF Reply, TypeOK
<1>2. ASSUME \A d \in Clients : conn[d] # t, UNCHANGED <<st, out, conn>>
      PROVE  PolicyInv'
  BY <1>1, <1>2, PolicyTask
<1>3. ASSUME NEW c \in Clients, conn[c] = t, NEW a \in {ans[t], "error"}, React(c, a)
      PROVE  PolicyInv'
  <2>1. st[c] \in Waiting
    BY <1>3 DEF AuthInv, Served
  <2>2. a \in Accepting => conn[c] = t /\ ans[t] = a
    BY <1>3 DEF Accepting
  <2>3. Noted(c)' /\ Came(c)'
    BY <1>1, <1>3, <2>1, <2>2, PolicyReact
  <2>4. /\ conn'[c] \notin Tasks
        /\ \A d \in Clients \ {c} :
             st'[d] = st[d] /\ out'[d] = out[d] /\ conn'[d] = conn[d]
    BY <1>3, <2>1, ReactFacts
  <2>5. \A d \in Clients \ {c} : conn[d] # t
    BY <1>3 DEF AuthInv, OneEach
  <2>6. calm'[c] => pend = NoWrite /\ conf = meant
    BY <1>1 DEF PolicyInv, Settled
  <2>7. QED
    BY <1>1, <2>3, <2>4, <2>5, <2>6, PolicyFrame
<1>4. QED
  BY <1>2, <1>3 DEF Reply

LEMMA PolicyClient ==
    ASSUME TypeOK, AuthInv, PolicyInv, NEW c \in Clients,
           \/ \E u \in Users, p \in Peers, s \in Services, w \in BOOLEAN :
                Begin(c, u, p, s, w)
           \/ ClientStep(c)
    PROVE  PolicyInv'
<1>0. /\ conn \in [Clients -> Tasks \cup {NoTask, Closed}]
      /\ st \in [Clients -> Active \cup {"idle", "done"}]
      /\ out \in [Clients -> {"none", "granted", "released", "auth_err", "ignore"}]
      /\ usr \in [Clients -> Users] /\ svc \in [Clients -> AllServices]
      /\ calm \in [Clients -> BOOLEAN] /\ irSeen \in [Clients -> BOOLEAN]
      /\ NoTask \notin Tasks /\ Closed \notin Tasks
      /\ calm[c] => pend = NoWrite /\ conf = meant
  BY AuthAssumption DEF TypeOK, PolicyInv, Settled
<1>1. ASSUME NEW u \in Users, NEW p \in Peers, NEW s \in Services,
             NEW w \in BOOLEAN, Begin(c, u, p, s, w)
      PROVE  PolicyInv'
  <2>1. UNCHANGED <<confVars, warm, bind, ir, pc, job, cls, tier, act, ans>>
    BY <1>1 DEF Begin
  <2>2. /\ out'[c] \in {"none", "ignore", "auth_err"}
        /\ irSeen'[c] = ir /\ conn'[c] \notin Tasks
        /\ calm'[c] => pend = NoWrite /\ conf = meant
    BY <1>0, <1>1 DEF Begin
  <2>3. Noted(c)' /\ Came(c)'
    BY <2>1, <2>2 DEF Noted, Came, Success
  <2>4. \A d \in Clients \ {c} :
              /\ st'[d] = st[d] /\ out'[d] = out[d] /\ usr'[d] = usr[d]
              /\ svc'[d] = svc[d] /\ conn'[d] = conn[d] /\ calm'[d] = calm[d]
              /\ irSeen'[d] = irSeen[d]
    BY <1>0, <1>1 DEF Begin
  <2>5. QED
    BY <2>1, <2>2, <2>3, <2>4, PolicyFrame
<1>2. CASE NoAnswer(c)
  <2>1. /\ UNCHANGED <<confVars, warm, bind, ir, usr, svc, calm, irSeen, pc, job, cls,
                      tier, act, ans>>
        /\ st[c] \in Waiting
    BY <1>2 DEF NoAnswer
  <2>2. PICK a \in {"error"} : React(c, a)
    BY <1>2 DEF NoAnswer
  <2>3. a \notin Accepting
    BY DEF Accepting
  <2>4. Noted(c)' /\ Came(c)'
    BY <2>1, <2>2, <2>3, PolicyReact
  <2>5. /\ conn'[c] \notin Tasks
        /\ \A d \in Clients \ {c} :
             st'[d] = st[d] /\ out'[d] = out[d] /\ conn'[d] = conn[d]
    BY <2>1, <2>2, ReactFacts
  <2>6. QED
    BY <1>0, <2>1, <2>4, <2>5, PolicyFrame
<1>3. CASE Retry(c)
  <2>1. UNCHANGED <<confVars, warm, bind, ir, usr, svc, calm, irSeen, pc, job, cls,
                    tier, act, ans, out>>
    BY <1>3 DEF Retry
  <2>2. /\ st[c] \in Active /\ conn'[c] \notin Tasks
        /\ \A d \in Clients \ {c} : st'[d] = st[d] /\ conn'[d] = conn[d]
    BY <1>0, <1>3 DEF Retry, Active
  <2>3. out[c] = "none"
    BY <2>2 DEF AuthInv, Ended, Active
  <2>4. Noted(c)' /\ Came(c)'
    BY <2>1, <2>2, <2>3 DEF PolicyInv, Noted, Came, Success
  <2>5. QED
    BY <1>0, <2>1, <2>2, <2>4, PolicyFrame
<1>4. CASE DeadlinePasses(c)
  <2>1. UNCHANGED <<confVars, warm, bind, ir, st, usr, svc, conn, calm, irSeen, pc, job,
                    cls, tier, act, ans, out>>
    BY <1>4 DEF DeadlinePasses
  <2>2. ASSUME NEW d \in Clients PROVE Noted(d)' /\ Came(d)'
    BY <2>1, ClientsStay
  <2>3. ASSUME NEW d \in Clients, NEW x \in Tasks, conn'[d] = x
        PROVE  SawIr(d, x)' /\ Follows(d, x)'
    BY <2>1, <2>3, PairStays
  <2>4. QED
    BY <2>1, <2>2, <2>3, SettledStays DEF PolicyInv
<1>5. CASE End(c)
  <2>1. UNCHANGED <<confVars, warm, bind, ir, usr, pc, job, cls, tier, act, ans>>
    BY <1>5 DEF End
  <2>2. /\ out'[c] = "none" /\ st'[c] = "idle" /\ ~calm'[c] /\ conn'[c] \notin Tasks
        /\ \A d \in Clients \ {c} :
              /\ st'[d] = st[d] /\ out'[d] = out[d]
              /\ svc'[d] = svc[d] /\ conn'[d] = conn[d] /\ calm'[d] = calm[d]
              /\ irSeen'[d] = irSeen[d]
    BY <1>0, <1>5 DEF End
  <2>3. Noted(c)' /\ Came(c)'
    BY <2>2 DEF Noted, Came, Success, Active
  <2>4. QED
    BY <2>1, <2>2, <2>3, PolicyFrame
<1>6. QED
  BY <1>1, <1>2, <1>3, <1>4, <1>5 DEF ClientStep

\* The world moves: an edit or a session change unsettles every conversation,
\* and the IR camera is noted by all that are going on.
LEMMA PolicyWorld ==
    ASSUME TypeOK, AuthInv, PolicyInv, World
    PROVE  PolicyInv'
<1>1. UNCHANGED <<bind, st, usr, svc, out, conn, pc, job, cls, tier, act, ans>>
  BY DEF World, EditConf, OpenConf, WriteConf, ChangeSession, ChangeCamera, ChangeFace
<1>2. ASSUME \A d \in Clients : ~calm'[d], UNCHANGED <<ir, irSeen>> PROVE PolicyInv'
  <2>1. Settled'
    BY <1>2 DEF Settled
  <2>2. ASSUME NEW d \in Clients PROVE Noted(d)' /\ Came(d)'
    BY <1>1, <1>2 DEF PolicyInv, Noted, Came, Success
  <2>3. ASSUME NEW d \in Clients, NEW x \in Tasks, conn'[d] = x
        PROVE  SawIr(d, x)' /\ Follows(d, x)'
    <3>1. SawIr(d, x)
      BY <1>1, <2>3 DEF PolicyInv
    <3>2. SawIr(d, x)'
      BY <1>1, <1>2, <3>1 DEF SawIr
    <3>3. Follows(d, x)'
      BY <1>2 DEF Follows
    <3>4. QED
      BY <3>2, <3>3
  <2>4. QED
    BY <2>1, <2>2, <2>3 DEF PolicyInv
<1>3. ASSUME Unsettled, UNCHANGED <<ir, irSeen>> PROVE PolicyInv'
  BY <1>2, <1>3 DEF Unsettled
<1>4. CASE WriteConf
  <2>1. UNCHANGED <<calm, ir, irSeen>> /\ pend # NoWrite
    BY <1>4 DEF WriteConf
  <2>2. \A d \in Clients : ~calm'[d]
    BY <2>1 DEF PolicyInv, Settled
  <2>3. QED
    BY <1>2, <2>1, <2>2
<1>5. ASSUME UNCHANGED <<confVars, warm, calm>>,
             \A d \in Clients : /\ irSeen[d] => irSeen'[d]
                                /\ st[d] \in Active /\ ir' => irSeen'[d]
      PROVE  PolicyInv'
  <2>1. Settled'
    BY <1>5, SettledStays
  <2>2. ASSUME NEW d \in Clients PROVE Noted(d)' /\ Came(d)'
    <3>1. Permitted(meant, usr[d], svc[d], out[d])'
            <=> Permitted(meant, usr[d], svc[d], out[d])
      BY <1>1, <1>5 DEF Permitted, EffectiveTier
    <3>2. Came(d)'
      BY <1>1, <1>5, <3>1 DEF PolicyInv, Came, Success
    <3>3. Noted(d)'
      BY <1>1, <1>5 DEF Noted
    <3>4. QED
      BY <3>2, <3>3
  <2>3. ASSUME NEW d \in Clients, NEW x \in Tasks, conn'[d] = x
        PROVE  SawIr(d, x)' /\ Follows(d, x)'
    BY <1>1, <1>5, <2>3, PairStays
  <2>4. QED
    BY <2>1, <2>2, <2>3 DEF PolicyInv
<1>6. CASE ChangeCamera
  <2>1. UNCHANGED <<confVars, warm, calm>>
    BY <1>6 DEF ChangeCamera
  <2>2. \A d \in Clients : irSeen'[d] = (irSeen[d] \/ (st[d] \in Active /\ ir'))
    BY <1>6 DEF ChangeCamera
  <2>3. QED
    BY <1>5, <2>1, <2>2
<1>7. ASSUME NEW f \in People, ChangeFace(f) PROVE PolicyInv'
  <2>1. UNCHANGED <<confVars, warm, calm, ir, irSeen>>
    BY <1>7 DEF ChangeFace
  <2>2. \A d \in Clients : st[d] \in Active /\ ir => irSeen[d]
    BY DEF PolicyInv, Noted
  <2>3. QED
    BY <1>5, <2>1, <2>2
<1>8. ASSUME NEW s \in Settings, EditConf(s[1], s[2]) PROVE PolicyInv'
  BY <1>3, <1>8 DEF EditConf
<1>9. ASSUME NEW s \in Settings, OpenConf(s[2]) PROVE PolicyInv'
  BY <1>3, <1>9 DEF OpenConf
<1>10. ASSUME NEW u \in Users, ChangeSession(u) PROVE PolicyInv'
  BY <1>3, <1>10 DEF ChangeSession
<1>11. QED
  BY <1>4, <1>6, <1>7, <1>8, <1>9, <1>10 DEF World

LEMMA PolicyRestart ==
    ASSUME TypeOK, PolicyInv, Restart
    PROVE  PolicyInv'
<1>1. /\ UNCHANGED <<confVars, warm, bind, ir, st, usr, svc, out, calm, irSeen>>
      /\ \A d \in Clients : conn'[d] \notin Tasks
  BY AuthAssumption DEF Restart
<1>2. ASSUME NEW d \in Clients PROVE Noted(d)' /\ Came(d)'
  BY <1>1, ClientsStay
<1>3. QED
  BY <1>1, <1>2, SettledStays DEF PolicyInv

LEMMA PolicyStutter ==
    ASSUME PolicyInv, UNCHANGED vars
    PROVE  PolicyInv'
<1>1. UNCHANGED <<confVars, warm, bind, ir, st, usr, svc, conn, calm, irSeen, pc, job,
                  cls, tier, act, ans, out>>
  BY DEF vars
<1>2. ASSUME NEW d \in Clients PROVE Noted(d)' /\ Came(d)'
  BY <1>1, ClientsStay
<1>3. ASSUME NEW d \in Clients, NEW x \in Tasks, conn'[d] = x
      PROVE  SawIr(d, x)' /\ Follows(d, x)'
  BY <1>1, <1>3, PairStays
<1>4. QED
  BY <1>1, <1>2, <1>3, SettledStays DEF PolicyInv

LEMMA PolicyInit == Init => PolicyInv
<1> SUFFICES ASSUME Init PROVE PolicyInv
  OBVIOUS
<1>1. \A c \in Clients : /\ st[c] = "idle" /\ out[c] = "none" /\ ~calm[c]
                         /\ conn[c] \notin Tasks
  BY AuthAssumption DEF Init
<1>2. QED
  BY <1>1 DEF PolicyInv, Settled, Noted, Came, Success, Active

LEMMA PolicyNext == TypeOK /\ AuthInv /\ PolicyInv /\ [Next]_vars => PolicyInv'
BY PolicyClient, PolicyPlanStep, PolicyMatchStep, PolicyAccept, PolicyReply, PolicyWorld,
   PolicyRestart, PolicyStutter DEF Next, TaskStep

LEMMA PolicyAlways == Spec => []PolicyInv
BY AuthAlways, PolicyInit, PolicyNext, PTL DEF Spec

\* While policy.conf and the session stay as they are, a conversation comes to
\* what the policy table permits, whatever the other conversations, the retries
\* and the restarts of the daemon do in between (plan_action reads the session,
\* the tier, the row and the method one after the other).
THEOREM ObeysTable == Spec => []ObeysPolicy
<1>1. PolicyInv => ObeysPolicy
  BY DEF PolicyInv, Came, ObeysPolicy
<1>2. QED
  BY <1>1, PolicyAlways, PTL

\* A user enrolled with an IR camera is only let in by a conversation during
\* which that camera was attached (check_camera_binding fails closed).
THEOREM IrRequired == Spec => []NoIrNoUnlock
<1>1. PolicyInv => NoIrNoUnlock
  BY DEF PolicyInv, Came, NoIrNoUnlock
<1>2. QED
  BY <1>1, PolicyAlways, PTL

=============================================================================
