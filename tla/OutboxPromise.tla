--------------------------- MODULE OutboxPromise ---------------------------
(***************************************************************************)
(* What the outbox promises for each mail, with tasks, rows, drafts, clocks *)
(* and crashes left out: a mail waits, is on its way, is held for the       *)
(* person, or has left; the server takes it while it is on its way; and     *)
(* one the server has taken is on its way again only with the person's      *)
(* consent (the module comment of send_later_ops.rs, "Nothing gets lost and *)
(* nothing goes twice").                                                    *)
(***************************************************************************)
CONSTANT Mails

Statuses == {"new", "waiting", "sending", "held", "gone"}

VARIABLES
    status,    \* of each mail
    out,       \* mails the server has taken
    consent,   \* mails the person wants sent, and the server hasn't taken since
    open       \* whether the mailbox is still set up

vars == <<status, out, consent, open>>

PromiseTypeOK ==
    /\ status \in [Mails -> Statuses]
    /\ out \subseteq Mails /\ consent \subseteq Mails /\ open \in BOOLEAN

Init ==
    /\ status = [m \in Mails |-> "new"]
    /\ out = {} /\ consent = {} /\ open = TRUE

\* May go without asking the person again.
Free(m) == m \in out => m \in consent

Accept(m) ==
    /\ open /\ status[m] = "new"
    /\ status' = [status EXCEPT ![m] = "waiting"]
    /\ consent' = consent \union {m}
    /\ UNCHANGED <<out, open>>

\* The person lets a waiting or held mail go.
Ask(m) ==
    /\ status[m] \in {"waiting", "held"}
    /\ status' = [status EXCEPT ![m] = "waiting"]
    /\ consent' = consent \union {m}
    /\ UNCHANGED <<out, open>>

\* Several waiting mails are claimed at once.
Claim(S) ==
    /\ \A m \in S : status[m] = "waiting" /\ Free(m)
    /\ status' = [m \in Mails |-> IF m \in S THEN "sending" ELSE status[m]]
    /\ UNCHANGED <<out, consent, open>>

\* The server takes a mail that is on its way (or was, when the mailbox was removed).
Take(m) ==
    /\ status[m] = "sending" \/ ~open
    /\ Free(m)
    /\ out' = out \union {m} /\ consent' = consent \ {m}
    /\ UNCHANGED <<status, open>>

\* Back to waiting without the person: a retry, or a stop that didn't work out.
Resume(m) ==
    /\ status[m] \in {"sending", "held"} /\ Free(m)
    /\ status' = [status EXCEPT ![m] = "waiting"]
    /\ UNCHANGED <<out, consent, open>>

\* Mails are held for the person: a delivery failed, a stop began, the program was restarted.
HoldBack(S) ==
    /\ \A m \in S : status[m] \in {"waiting", "sending", "held"}
    /\ status' = [m \in Mails |-> IF m \in S THEN "held" ELSE status[m]]
    /\ UNCHANGED <<out, consent, open>>

\* Done, kept as a draft, stopped, or taken back.
Leave(m) ==
    /\ status[m] \in {"waiting", "sending", "held"}
    /\ status' = [status EXCEPT ![m] = "gone"]
    /\ UNCHANGED <<out, consent, open>>

Close ==
    /\ open /\ open' = FALSE
    /\ status' = [m \in Mails |-> IF status[m] = "new" THEN "new" ELSE "gone"]
    /\ UNCHANGED <<out, consent>>

Next ==
    \/ \E m \in Mails : Accept(m) \/ Ask(m) \/ Take(m) \/ Resume(m) \/ Leave(m)
    \/ \E S \in SUBSET Mails : Claim(S) \/ HoldBack(S)
    \/ Close

Spec == Init /\ [][Next]_vars

=============================================================================
