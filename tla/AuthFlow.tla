------------------------------ MODULE AuthFlow ------------------------------
(***************************************************************************)
(* One authentication, end to end: pam_sm_authenticate and its retry loop, *)
(* the blocking socket client with its timeout, the daemon's task for each *)
(* connection, the tiered policy it evaluates, and the capture behind it.  *)
(*                                                                         *)
(* A client gives up after its timeout while its task runs on in the       *)
(* daemon; the retry is a second connection and a second task.  The policy *)
(* file, the logind session, the cameras and the person in front of them   *)
(* may change between any two steps.                                       *)
(*                                                                         *)
(* A user's profile (binding, calibration) is chosen in Init and constant: *)
(* ProfileStore models how it changes.  LINHELLO_IR_GATE and               *)
(* LINHELLO_REQUIRE_IR have their defaults (gate on, IR not required).     *)
(***************************************************************************)
EXTENDS Naturals, FiniteSets

CONSTANTS Users,     \* enrolled accounts, each with a face
          Others,    \* further accounts and faces
          Root,      \* the peer uid 0
          Clients,   \* PAM conversations that may run together
          Tasks,     \* connections the daemon may serve together
          Services,  \* what clients ask for: PAM services, direct requests
          Bindings,  \* what camera_binding.json of a profile may hold
          Policies,  \* contents of policy.conf at the start
          Settings,  \* administrator's edits of it: <<key, value>> pairs
          Nobody,    \* no face captured
          NoTask, Closed, \* a connection not accepted yet, or lost
          NoWrite    \* no write_kv in progress

PamServices == {"greeter", "elevation", "remote", "unknown"}
DirectRequests == {"Verify", "UnsealPassword"}
\* "missing": a PAM handle without PAM_SERVICE, or without a user
AllServices == PamServices \cup DirectRequests \cup {"missing"}

ConfKeys == {"tier", "method", "screen_unlock", "login", "sudo"}
ConfValues == {"unset", "auto", "secure", "convenience", "fingerprint",
               "off", "rgb", "ir"}
Confs == [ConfKeys -> ConfValues]
EmptyConf == [k \in ConfKeys |-> "unset"]

People == Users \cup Others
Peers == People \cup {Root}

ASSUME AuthAssumption ==
    /\ Services \subseteq AllServices
    /\ Bindings \subseteq {"none", "rgb", "ir", "bad"}
    /\ Policies \subseteq Confs
    /\ Settings \subseteq ConfKeys \X ConfValues
    /\ Users \cap Others = {}
    /\ Root \notin People /\ Nobody \notin People
    /\ NoTask \notin Tasks /\ Closed \notin Tasks \cup {NoTask}
    /\ NoWrite \notin Confs

VARIABLES
    conf,   \* policy.conf as a reader finds it
    pend,   \* the contents a write_kv has yet to write, after its truncation
    meant,  \* history: policy.conf as its writers mean it
    warm,   \* warm[u]: logind has an active session of u
    bind,   \* bind[u]: camera_binding.json: absent, RGB, RGB and IR, unreadable
    ready,  \* ready[u]: ir_calibration.json has enough observations
    ir,     \* the enrolled IR camera is attached
    face,   \* who is in front of the camera
    st, usr, svc, peer, \* a client's state, user, service and uid
    late,   \* late[c]: the deadline of the retry loop has passed
    conn,   \* conn[c]: the task that serves c's connection
    out,    \* out[c]: what pam_sm_authenticate returned
    pc, job,            \* a task's next step and its request
    cls, tier, act,     \* ... operation class, tier and action planned
    live, irf,          \* ... the face captured, and whether with an IR frame
    ans,    \* ... the response
    seen,   \* history: who was in front of the camera since c began
    irSeen, \* history: the IR camera was attached at some time since c began
    calm    \* history: policy and session were settled since c began

confVars == <<conf, pend, meant>>
profile == <<bind, ready>>
room == <<ir, face>>
client == <<st, usr, svc, peer, late, conn, out>>
task == <<pc, job, cls, tier, act, live, irf, ans>>
history == <<seen, irSeen, calm>>
vars == <<confVars, warm, profile, room, client, task, history>>

NoJob == [kind |-> "none", user |-> Nobody, svc |-> "missing", root |-> FALSE]

Waiting == {"intent", "auth"}
Active == {"intent", "auth", "pause"}

-----------------------------------------------------------------------------
(* biopolicy.rs: classify, decide, unseal_if_secure.                       *)

\* Mutant of Classify: a screen unlock is taken for a login.
ClassifyAllLogins(s, w) == CASE s = "greeter" -> "login"
                             [] s \in {"elevation", "remote"} -> s
                             [] OTHER -> "unknown"

Classify(s, w) == CASE s = "greeter" -> IF w THEN "screenUnlock" ELSE "login"
                    [] s \in {"elevation", "remote"} -> s
                    [] OTHER -> "unknown"

\* current_policy: the row of policy.conf a class looks at, and its default
RowKey(c) == CASE c = "screenUnlock" -> "screen_unlock"
               [] c = "login" -> "login"
               [] OTHER -> "sudo"
Row(f, c) == LET v == f[RowKey(c)]
             IN  IF v \in {"off", "rgb", "ir"} THEN v
                 ELSE IF c = "screenUnlock" THEN "rgb" ELSE "ir"

Decide(c, t, row) ==
    CASE c \in {"remote", "unknown"} -> "deny"
      [] c = "screenUnlock" ->
           IF row = "rgb" \/ (row = "ir" /\ t = "secure") THEN "verify" ELSE "deny"
      [] OTHER -> IF t = "secure" /\ row # "off" THEN "unseal" ELSE "deny"

\* effective_tier, user_tier: a binding that does not parse has no IR camera
EffectiveTier(f, u) == IF f["tier"] \in {"secure", "convenience"} THEN f["tier"]
                       ELSE IF bind[u] = "ir" THEN "secure" ELSE "convenience"

FaceIsActive(f) == f["method"] # "fingerprint"

\* Mutant of Gate: the secret is not kept for root.
GateAnyPeer(a, active, root) == IF ~active THEN "deny" ELSE a

\* the end of plan_action: the method, and no secret for a peer but root
Gate(a, active, root) == IF ~active \/ (a = "unseal" /\ ~root) THEN "deny" ELSE a

PeerMayActAs(p, u) == p = Root \/ p = u

-----------------------------------------------------------------------------
Init ==
    /\ conf \in Policies
    /\ pend = NoWrite
    /\ meant = conf
    /\ warm \in [Users -> BOOLEAN]
    /\ bind \in [Users -> Bindings]
    /\ ready \in [Users -> BOOLEAN]
    /\ ir \in BOOLEAN
    /\ face \in People
    /\ st = [c \in Clients |-> "idle"]
    /\ usr \in [Clients -> Users]
    /\ svc = [c \in Clients |-> "missing"]
    /\ peer = [c \in Clients |-> Root]
    /\ late = [c \in Clients |-> TRUE]
    /\ conn = [c \in Clients |-> Closed]
    /\ out = [c \in Clients |-> "none"]
    /\ pc = [t \in Tasks |-> "idle"]
    /\ job = [t \in Tasks |-> NoJob]
    /\ cls = [t \in Tasks |-> "unknown"]
    /\ tier = [t \in Tasks |-> "convenience"]
    /\ act = [t \in Tasks |-> "deny"]
    /\ live = [t \in Tasks |-> Nobody]
    /\ irf = [t \in Tasks |-> FALSE]
    /\ ans = [t \in Tasks |-> "none"]
    /\ seen = [c \in Clients |-> {}]
    /\ irSeen = [c \in Clients |-> FALSE]
    /\ calm = [c \in Clients |-> FALSE]

-----------------------------------------------------------------------------
(* The client: pam_sm_authenticate, linhello-pam, client::request_at.      *)

\* A conversation begins: the pre-flight goes out, or the direct request of
\* linhello_verify_face, linhello_unseal_keyring and the command line.
\* Without `wait` the deadline is now.
Begin(c, u, p, s, w) ==
    /\ st[c] = "idle"
    /\ st' = [st EXCEPT ![c] = CASE s = "missing" -> "done"
                                 [] s \in PamServices -> "intent"
                                 [] OTHER -> "auth"]
    /\ \E o \in IF s = "missing" THEN {"ignore", "auth_err"} ELSE {"none"} :
         out' = [out EXCEPT ![c] = o]
    /\ usr' = [usr EXCEPT ![c] = u]
    /\ svc' = [svc EXCEPT ![c] = s]
    /\ peer' = [peer EXCEPT ![c] = p]
    /\ late' = [late EXCEPT ![c] = ~w \/ s \notin PamServices]
    /\ conn' = [conn EXCEPT ![c] = NoTask]
    /\ seen' = [seen EXCEPT ![c] = {face}]
    /\ irSeen' = [irSeen EXCEPT ![c] = ir]
    /\ calm' = [calm EXCEPT ![c] = pend = NoWrite /\ conf = meant]
    /\ UNCHANGED <<confVars, warm, profile, room, task>>

\* What the client does with an answer: "engage" and "refrain" answer the
\* pre-flight; "verified" and "password" end the conversation (no NUL fits
\* after the password, or PAM_AUTHTOK cannot be set: PAM_AUTH_ERR); anything
\* else ends it at the deadline, and is retried before.
React(c, a) ==
    LET declined == a \notin {"engage", "verified", "password"}
        again == declined /\ st[c] = "auth" /\ ~late[c]
    IN  /\ st' = [st EXCEPT ![c] = CASE a = "engage" -> "auth"
                                     [] again -> "pause"
                                     [] OTHER -> "done"]
        /\ \E o \in CASE a = "engage" \/ again -> {"none"}
                      [] a = "verified" -> {"granted"}
                      [] a = "password" -> {"released", "auth_err"}
                      [] OTHER -> {"auth_err"} :
             out' = [out EXCEPT ![c] = o]
        /\ conn' = [conn EXCEPT ![c] = IF a = "engage" THEN NoTask ELSE Closed]

\* Mutant of NoAnswer: a request without an answer is sent once more.
NoAnswerAgain(c) ==
    /\ st[c] \in Waiting
    /\ conn' = [conn EXCEPT ![c] = NoTask]
    /\ UNCHANGED <<confVars, warm, profile, room, st, usr, svc, peer, late, out,
                   task, history>>

\* No connection, no answer within DEFAULT_TIMEOUT, or the daemon closed the
\* connection: -1.  The task, if there is one, is not told.
NoAnswer(c) ==
    /\ st[c] \in Waiting
    /\ React(c, "error")
    /\ UNCHANGED <<confVars, warm, profile, room, usr, svc, peer, late, task,
                   history>>

\* nanosleep ends: the next round opens a connection of its own
Retry(c) ==
    /\ st[c] = "pause"
    /\ st' = [st EXCEPT ![c] = "auth"]
    /\ conn' = [conn EXCEPT ![c] = NoTask]
    /\ UNCHANGED <<confVars, warm, profile, room, usr, svc, peer, late, out,
                   task, history>>

\* time(NULL) reaches the deadline, which is set before the first round
DeadlinePasses(c) ==
    /\ st[c] \in {"auth", "pause"}
    /\ ~late[c]
    /\ late' = [late EXCEPT ![c] = TRUE]
    /\ UNCHANGED <<confVars, warm, profile, room, st, usr, svc, peer, conn, out,
                   task, history>>

\* The PAM stack takes the result and goes on.
End(c) ==
    /\ st[c] = "done"
    /\ st' = [st EXCEPT ![c] = "idle"]
    /\ out' = [out EXCEPT ![c] = "none"]
    /\ svc' = [svc EXCEPT ![c] = "missing"]
    /\ peer' = [peer EXCEPT ![c] = Root]
    /\ late' = [late EXCEPT ![c] = TRUE]
    /\ conn' = [conn EXCEPT ![c] = Closed]
    /\ seen' = [seen EXCEPT ![c] = {}]
    /\ irSeen' = [irSeen EXCEPT ![c] = FALSE]
    /\ calm' = [calm EXCEPT ![c] = FALSE]
    /\ UNCHANGED <<confVars, warm, profile, room, usr, task>>

-----------------------------------------------------------------------------
(* The daemon: handle, dispatch, plan_action.                              *)

Goto(t, p) == pc' = [pc EXCEPT ![t] = p]
Answer(t, a) == Goto(t, "reply") /\ ans' = [ans EXCEPT ![t] = a]
Fail(t) == Answer(t, "error")

\* accept, then dispatch's checks of the peer; direct requests have no plan
Accept(t, c) ==
    /\ pc[t] = "idle"
    /\ st[c] \in Waiting
    /\ conn[c] = NoTask
    /\ conn' = [conn EXCEPT ![c] = t]
    /\ LET root == peer[c] = Root
           kind == IF st[c] = "intent" THEN "intent"
                   ELSE IF svc[c] \in DirectRequests THEN svc[c] ELSE "auth"
           allowed == IF kind = "UnsealPassword" THEN root
                      ELSE PeerMayActAs(peer[c], usr[c])
       IN  /\ job' = [job EXCEPT ![t] = [kind |-> kind, user |-> usr[c],
                                         svc |-> svc[c], root |-> root]]
           /\ act' = [act EXCEPT ![t] = CASE kind = "UnsealPassword" -> "unseal"
                                          [] kind = "Verify" -> "verify"
                                          [] OTHER -> "deny"]
           /\ \/ /\ allowed
                 /\ Goto(t, IF kind \in DirectRequests THEN "binding" ELSE "warm")
                 /\ UNCHANGED ans
              \/ /\ ~allowed
                 /\ Fail(t)
    /\ UNCHANGED <<confVars, warm, profile, room, st, usr, svc, peer, late, out,
                   cls, tier, live, irf, history>>

\* plan_action, one read at a time: the session ...
ReadSession(t) ==
    /\ pc[t] = "warm"
    /\ cls' = [cls EXCEPT ![t] = Classify(job[t].svc, warm[job[t].user])]
    /\ Goto(t, "tier")
    /\ UNCHANGED <<confVars, warm, profile, room, client, job, tier, act, live,
                   irf, ans, history>>

\* ... the tier and the binding ...
ReadTier(t) ==
    /\ pc[t] = "tier"
    /\ tier' = [tier EXCEPT ![t] = EffectiveTier(conf, job[t].user)]
    /\ Goto(t, "row")
    /\ UNCHANGED <<confVars, warm, profile, room, client, job, cls, act, live,
                   irf, ans, history>>

\* ... the policy's row ...
ReadRow(t) ==
    /\ pc[t] = "row"
    /\ act' = [act EXCEPT ![t] = Decide(cls[t], tier[t], Row(conf, cls[t]))]
    /\ Goto(t, "method")
    /\ UNCHANGED <<confVars, warm, profile, room, client, job, cls, tier, live,
                   irf, ans, history>>

\* ... and the method.  AuthIntent answers with the plan, Authenticate goes
\* on to do_verify or do_unseal_password; class and tier are done with.
ReadMethod(t) ==
    /\ pc[t] = "method"
    /\ LET a == Gate(act[t], FaceIsActive(conf), job[t].root)
       IN  /\ act' = [act EXCEPT ![t] = a]
           /\ \/ /\ job[t].kind = "intent"
                 /\ Answer(t, IF a = "deny" THEN "refrain" ELSE "engage")
              \/ /\ job[t].kind = "auth"
                 /\ IF a = "deny" THEN Fail(t)
                    ELSE Goto(t, "binding") /\ UNCHANGED ans
    /\ cls' = [cls EXCEPT ![t] = "unknown"]
    /\ tier' = [tier EXCEPT ![t] = "convenience"]
    /\ UNCHANGED <<confVars, warm, profile, room, client, job, live, irf, history>>

-----------------------------------------------------------------------------
(* The daemon: do_verify, do_unseal_password.                              *)

\* Mutant of CheckBinding: a missing IR camera does not count.
CheckBindingAnyIr(t) ==
    /\ pc[t] = "binding"
    /\ \/ bind[job[t].user] # "bad" /\ Goto(t, "rgb") /\ UNCHANGED ans
       \/ Fail(t)
    /\ UNCHANGED <<confVars, warm, profile, room, client, job, cls, tier, act,
                   live, irf, history>>

\* check_camera_binding (no file passes, an unreadable one does not, nor does
\* an enrolled IR camera that is missing), then the template.  The identity
\* of a camera may be read wrongly, the template may not unseal or decrypt.
CheckBinding(t) ==
    /\ pc[t] = "binding"
    /\ LET b == bind[job[t].user]
       IN  \/ b # "bad" /\ (b = "ir" => ir) /\ Goto(t, "rgb") /\ UNCHANGED ans
           \/ Fail(t)
    /\ UNCHANGED <<confVars, warm, profile, room, client, job, cls, tier, act,
                   live, irf, history>>

\* capture_burst_detect: the burst shows who is there now, or fails
CaptureRgb(t) ==
    /\ pc[t] = "rgb"
    /\ \/ /\ live' = [live EXCEPT ![t] = face]
          /\ Goto(t, "ir")
          /\ UNCHANGED ans
       \/ Fail(t) /\ UNCHANGED live
    /\ UNCHANGED <<confVars, warm, profile, room, client, job, cls, tier, act,
                   irf, history>>

\* capture_ir_frame: any error is no frame.  LivenessEvaluator::evaluate may
\* reject either way.
CaptureIr(t) ==
    /\ pc[t] = "ir"
    /\ \/ /\ \E got \in {FALSE, ir} : irf' = [irf EXCEPT ![t] = got]
          /\ Goto(t, "gate")
          /\ UNCHANGED ans
       \/ Fail(t) /\ UNCHANGED irf
    /\ UNCHANGED <<confVars, warm, profile, room, client, job, cls, tier, act,
                   live, history>>

\* Mutant of Matches: any face will do.
MatchesAnyone(t) == live[t] # Nobody

\* match_against: the captured face is the user's
Matches(t) == live[t] = job[t].user

\* ir_gate_check, then the match: a calibrated profile needs an IR frame
GateAndMatch(t) ==
    /\ pc[t] = "gate"
    /\ \/ /\ (ready[job[t].user] => irf[t])
          /\ Matches(t)
          /\ IF act[t] = "unseal" THEN Goto(t, "unseal") /\ UNCHANGED ans
             ELSE Answer(t, "verified")
       \/ Fail(t)
    /\ UNCHANGED <<confVars, warm, profile, room, client, job, cls, tier, act,
                   live, irf, history>>

\* unseal_password: the TPM releases it, or not
Unseal(t) ==
    /\ pc[t] = "unseal"
    /\ Answer(t, "password") \/ Fail(t)
    /\ UNCHANGED <<confVars, warm, profile, room, client, job, cls, tier, act,
                   live, irf, history>>

\* write_all: the answer reaches the client that still holds the connection,
\* and nobody otherwise; a password longer than its buffer is -1 to it.  The
\* task is gone.
Reply(t) ==
    /\ pc[t] = "reply"
    /\ \/ \E c \in Clients : conn[c] = t /\ React(c, ans[t])
       \/ \E c \in Clients : conn[c] = t /\ ans[t] = "password" /\ React(c, "error")
       \/ /\ \A c \in Clients : conn[c] # t
          /\ UNCHANGED <<st, out, conn>>
    /\ Goto(t, "idle")
    /\ job' = [job EXCEPT ![t] = NoJob]
    /\ cls' = [cls EXCEPT ![t] = "unknown"]
    /\ tier' = [tier EXCEPT ![t] = "convenience"]
    /\ act' = [act EXCEPT ![t] = "deny"]
    /\ live' = [live EXCEPT ![t] = Nobody]
    /\ irf' = [irf EXCEPT ![t] = FALSE]
    /\ ans' = [ans EXCEPT ![t] = "none"]
    /\ UNCHANGED <<confVars, warm, profile, room, usr, svc, peer, late, history>>

\* The daemon dies or is restarted: its tasks and its connections are gone.
Restart ==
    /\ pc' = [t \in Tasks |-> "idle"]
    /\ job' = [t \in Tasks |-> NoJob]
    /\ cls' = [t \in Tasks |-> "unknown"]
    /\ tier' = [t \in Tasks |-> "convenience"]
    /\ act' = [t \in Tasks |-> "deny"]
    /\ live' = [t \in Tasks |-> Nobody]
    /\ irf' = [t \in Tasks |-> FALSE]
    /\ ans' = [t \in Tasks |-> "none"]
    /\ conn' = [c \in Clients |-> Closed]
    /\ UNCHANGED <<confVars, warm, profile, room, st, usr, svc, peer, late, out,
                   history>>

-----------------------------------------------------------------------------
(* The world: policy.conf, logind, cameras and people.                     *)

Unsettled == calm' = [c \in Clients |-> FALSE]

\* The administrator's editor replaces the file.
EditConf(k, v) ==
    /\ pend = NoWrite
    /\ conf' = [conf EXCEPT ![k] = v]
    /\ meant' = [meant EXCEPT ![k] = v]
    /\ Unsettled
    /\ UNCHANGED <<pend, warm, profile, room, client, task, seen, irSeen>>

\* write_kv("policy.conf", "method", v): read the file, truncate it ...
OpenConf(v) ==
    /\ pend = NoWrite
    /\ pend' = [conf EXCEPT !["method"] = v]
    /\ meant' = [meant EXCEPT !["method"] = v]
    /\ conf' = EmptyConf
    /\ Unsettled
    /\ UNCHANGED <<warm, profile, room, client, task, seen, irSeen>>

\* ... and write it, or be interrupted.
WriteConf ==
    /\ pend # NoWrite
    /\ conf' \in {pend, conf}
    /\ pend' = NoWrite
    /\ UNCHANGED <<meant, warm, profile, room, client, task, history>>

\* A session of u becomes active, or ends.
ChangeSession(u) ==
    /\ warm' = [warm EXCEPT ![u] = ~@]
    /\ Unsettled
    /\ UNCHANGED <<confVars, profile, room, client, task, seen, irSeen>>

\* The IR camera is unplugged or plugged in.
ChangeCamera ==
    /\ ir' = ~ir
    /\ irSeen' = [c \in Clients |-> irSeen[c] \/ (st[c] \in Active /\ ir')]
    /\ UNCHANGED <<confVars, warm, profile, face, client, task, seen, calm>>

\* Somebody else is in front of the camera.
ChangeFace(f) ==
    /\ f # face
    /\ face' = f
    /\ seen' = [c \in Clients |->
                  IF st[c] \in Active THEN seen[c] \cup {f} ELSE seen[c]]
    /\ UNCHANGED <<confVars, warm, profile, ir, client, task, irSeen, calm>>

-----------------------------------------------------------------------------
ClientStep(c) == \/ NoAnswer(c) \/ Retry(c) \/ DeadlinePasses(c) \/ End(c)

PlanStep(t) == \/ ReadSession(t) \/ ReadTier(t) \/ ReadRow(t) \/ ReadMethod(t)

MatchStep(t) == \/ CheckBinding(t) \/ CaptureRgb(t) \/ CaptureIr(t)
                \/ GateAndMatch(t) \/ Unseal(t)

TaskStep(t) == \/ \E c \in Clients : Accept(t, c)
               \/ PlanStep(t) \/ MatchStep(t) \/ Reply(t)

World == \/ \E s \in Settings : EditConf(s[1], s[2])
         \/ \E s \in Settings : s[1] = "method" /\ OpenConf(s[2])
         \/ WriteConf
         \/ \E u \in Users : ChangeSession(u)
         \/ ChangeCamera
         \/ \E f \in People : ChangeFace(f)

Next == \/ \E c \in Clients :
             \/ \E u \in Users, p \in Peers, s \in Services, w \in BOOLEAN :
                  Begin(c, u, p, s, w)
             \/ ClientStep(c)
        \/ \E t \in Tasks : TaskStep(t)
        \/ Restart
        \/ World

Spec == Init /\ [][Next]_vars

\* Only the client's own clock is fair: the timeout of a request and the pause
\* between rounds end, and the deadline comes.  The daemon owes nothing.
FairSpec == /\ Spec
            /\ \A c \in Clients : /\ WF_vars(NoAnswer(c))
                                  /\ WF_vars(Retry(c))
                                  /\ WF_vars(DeadlinePasses(c))

-----------------------------------------------------------------------------
(* Properties.                                                             *)

PCs == {"idle", "warm", "tier", "row", "method", "binding", "rgb", "ir", "gate",
        "unseal", "reply"}
Answers == {"none", "error", "engage", "refrain", "verified", "password"}

TypeOK ==
    /\ conf \in Confs /\ pend \in Confs \cup {NoWrite} /\ meant \in Confs
    /\ warm \in [Users -> BOOLEAN]
    /\ bind \in [Users -> Bindings]
    /\ ready \in [Users -> BOOLEAN]
    /\ ir \in BOOLEAN /\ face \in People
    /\ st \in [Clients -> Active \cup {"idle", "done"}]
    /\ usr \in [Clients -> Users]
    /\ svc \in [Clients -> AllServices]
    /\ peer \in [Clients -> Peers]
    /\ late \in [Clients -> BOOLEAN]
    /\ conn \in [Clients -> Tasks \cup {NoTask, Closed}]
    /\ out \in [Clients -> {"none", "granted", "released", "auth_err", "ignore"}]
    /\ pc \in [Tasks -> PCs]
    /\ job \in [Tasks -> [kind : DirectRequests \cup {"none", "intent", "auth"},
                          user : Users \cup {Nobody}, svc : AllServices,
                          root : BOOLEAN]]
    /\ cls \in [Tasks -> {"screenUnlock", "login", "elevation", "remote", "unknown"}]
    /\ tier \in [Tasks -> {"secure", "convenience"}]
    /\ act \in [Tasks -> {"deny", "verify", "unseal"}]
    /\ live \in [Tasks -> People \cup {Nobody}]
    /\ irf \in [Tasks -> BOOLEAN]
    /\ ans \in [Tasks -> Answers]
    /\ seen \in [Clients -> SUBSET People]
    /\ irSeen \in [Clients -> BOOLEAN]
    /\ calm \in [Clients -> BOOLEAN]

Success(c) == out[c] \in {"granted", "released"}

\* A conversation succeeds only if its user was in front of the camera while
\* it lasted: a late answer to an earlier round or an earlier conversation
\* never counts (one connection per request, client::request_at).
GrantedToPresent == \A c \in Clients : Success(c) => usr[c] \in seen[c]

\* The password goes to root only, whatever the plan and the entry ("the
\* sealed password is only ever released to a root peer", plan_action).
SecretToRoot == \A c \in Clients : out[c] = "released" => peer[c] = Root

\* A user enrolled with an IR camera is not let in while it is missing all
\* along, calibrated or not ("a Secure-tier user who loses their IR camera
\* fails closed to the password, never downgrades", user_tier).
NoIrNoUnlock ==
    \A c \in Clients : Success(c) /\ bind[usr[c]] = "ir" => irSeen[c]

\* The table of docs/design/tiered-biometric-policy.md, section 2, with the
\* rows of policy.conf: what a service may come to.
Permitted(f, u, s, o) ==
    LET secure == EffectiveTier(f, u) = "secure"
        Off(k) == f[k] = "off"
    IN  /\ f["method"] # "fingerprint"
        /\ CASE o = "granted" -> /\ s = "greeter" /\ warm[u]
                                 /\ ~Off("screen_unlock")
                                 /\ f["screen_unlock"] = "ir" => secure
             [] o = "released" -> /\ secure
                                  /\ \/ s = "greeter" /\ ~warm[u] /\ ~Off("login")
                                     \/ s = "elevation" /\ ~Off("sudo")

\* While policy.conf and the session stay as they are, a conversation comes to
\* what the policy table permits: no release for a live session's unlock, none
\* from the convenience tier, nothing for a service that is off.
ObeysPolicy ==
    \A c \in Clients : calm[c] /\ Success(c) /\ svc[c] \in PamServices
                          => Permitted(meant, usr[c], svc[c], out[c])

\* The state of PamPromise: how far a conversation is, whether it runs as root,
\* and whether its user has been in front of the camera since it began.
Stage == [c \in Clients |-> CASE st[c] = "idle" -> "idle"
                              [] st[c] \in Active -> "open"
                              [] OTHER -> IF Success(c) THEN out[c] ELSE "declined"]
AsRoot == [c \in Clients |-> st[c] # "idle" /\ peer[c] = Root]
Vouched == [c \in Clients |-> usr[c] \in seen[c]]
Promise == INSTANCE PamPromise WITH stage <- Stage, who <- usr, root <- AsRoot,
                                    vouched <- Vouched

\* pam_linhello keeps its promise to the stack, and every conversation ends
\* whatever the daemon does ("You can never be locked out").
KeepsPromise == Promise!Spec

=============================================================================
