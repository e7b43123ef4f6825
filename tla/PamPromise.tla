---------------------------- MODULE PamPromise ------------------------------
(***************************************************************************)
(* What pam_linhello promises a PAM stack, without the daemon, the socket, *)
(* the policy or the camera behind it.  A conversation is opened for a     *)
(* user, is vouched for once that user has been in front of the camera,    *)
(* and ends: granted without a secret, granted with the login password     *)
(* (to root only), or declined, which leaves the decision to the password. *)
(* Declining is always possible and every conversation ends.               *)
(***************************************************************************)
CONSTANTS Clients, Users

VARIABLES stage,   \* stage[c]: "idle", "open" or the outcome
          who,     \* who[c]: the user c asks about
          root,    \* root[c]: c runs as root
          vouched  \* vouched[c]: who[c] was in front of the camera since

vars == <<stage, who, root, vouched>>

Init == /\ stage = [c \in Clients |-> "idle"]
        /\ who \in [Clients -> Users]
        /\ root = [c \in Clients |-> FALSE]
        /\ vouched = [c \in Clients |-> FALSE]

\* A conversation begins; it may be over at once.
Open(c, u, r, s) ==
    /\ stage[c] = "idle"
    /\ s \in {"open", "declined"}
    /\ stage' = [stage EXCEPT ![c] = s]
    /\ who' = [who EXCEPT ![c] = u]
    /\ root' = [root EXCEPT ![c] = r]
    /\ \E v \in BOOLEAN : vouched' = [vouched EXCEPT ![c] = v]

\* u is seen: every open conversation about u may be granted now.
Vouch(u) ==
    /\ vouched' = [c \in Clients |->
                     vouched[c] \/ (stage[c] = "open" /\ who[c] = u)]
    /\ UNCHANGED <<stage, who, root>>

Close(c) ==
    /\ stage[c] = "open"
    /\ \E o \in {"granted", "released", "declined"} :
         /\ o # "declined" => vouched[c]
         /\ o = "released" => root[c]
         /\ stage' = [stage EXCEPT ![c] = o]
    /\ UNCHANGED <<who, root, vouched>>

\* The stack goes on; the next conversation starts from nothing.
Forget(c) ==
    /\ stage[c] \in {"granted", "released", "declined"}
    /\ stage' = [stage EXCEPT ![c] = "idle"]
    /\ root' = [root EXCEPT ![c] = FALSE]
    /\ vouched' = [vouched EXCEPT ![c] = FALSE]
    /\ UNCHANGED who

Next == \/ \E c \in Clients :
             \/ \E u \in Users, r \in BOOLEAN, s \in {"open", "declined"} :
                  Open(c, u, r, s)
             \/ Close(c)
             \/ Forget(c)
        \/ \E u \in Users : Vouch(u)

Safety == Init /\ [][Next]_vars

Spec == Safety /\ \A c \in Clients : WF_vars(Close(c))
=============================================================================
