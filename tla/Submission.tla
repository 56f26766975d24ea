----------------------------- MODULE Submission -----------------------------
(***************************************************************************)
(* What a command that lets its user write promises: a run shows its user  *)
(* a text as often as the user likes, then settles on one, and files that  *)
(* one once or not at all.  It settles on the text last shown, unless      *)
(* another process disturbed it; a run never disturbs itself.  What is     *)
(* reported as done has been filed, but not all that was filed is          *)
(* reported.                                                               *)
(***************************************************************************)
EXTENDS Naturals, Sequences

CONSTANTS Proc, Content, \* what a text may say
          Nothing        \* what a process without a run has to say

VARIABLES
    begun,     \* runs begun so far
    phase,     \* of each process: idle, writing, or settled
    run,       \* the number of its run
    content,   \* what it shows its user, or has settled on
    disturbed, \* processes that another one has disturbed
    filed,     \* what was filed, in order
    reported   \* runs that reported to have filed

work == <<phase, run, content>>
subvars == <<begun, phase, run, content, disturbed, filed, reported>>

Init ==
    /\ begun = 0
    /\ phase = [p \in Proc |-> "idle"]
    /\ run = [p \in Proc |-> 0]
    /\ content = [p \in Proc |-> Nothing]
    /\ disturbed = {}
    /\ filed = <<>> /\ reported = {}

Become(p, ph, n, c) ==
    /\ phase' = [phase EXCEPT ![p] = ph]
    /\ run' = [run EXCEPT ![p] = n]
    /\ content' = [content EXCEPT ![p] = c]

Begin(p) ==
    /\ phase[p] = "idle"
    /\ begun' = begun + 1
    /\ Become(p, "writing", begun', Nothing)
    /\ UNCHANGED <<disturbed, filed, reported>>

\* Any step but the last may disturb others; the user of p sees at most what p
\* shows, and starts afresh where that makes up for a disturbance.
Disturb(p) ==
    /\ disturbed' \subseteq disturbed \cup (Proc \ {p})
    /\ disturbed \ {p} \subseteq disturbed'

Show(p) ==
    /\ phase[p] = "writing"
    /\ Become(p, "writing", run[p], content'[p])
    /\ content'[p] \in Content
    /\ Disturb(p)
    /\ UNCHANGED <<begun, filed, reported>>

Settle(p) ==
    /\ phase[p] = "writing"
    /\ Become(p, "settled", run[p], content'[p])
    /\ content'[p] \in Content
    /\ p \notin disturbed => content'[p] = content[p]
    /\ UNCHANGED <<begun, disturbed, filed, reported>>

Tidy(p) ==
    /\ phase[p] = "settled"
    /\ Disturb(p)
    /\ UNCHANGED <<begun, work, filed, reported>>

File(p) ==
    /\ phase[p] = "settled"
    /\ filed' = Append(filed, [run |-> run[p], content |-> content[p]])
    /\ reported' \in {reported, reported \cup {run[p]}}
    /\ Become(p, "idle", 0, Nothing)
    /\ UNCHANGED <<begun, disturbed>>

GiveUp(p) ==
    /\ phase[p] # "idle"
    /\ Become(p, "idle", 0, Nothing)
    /\ UNCHANGED <<begun, disturbed, filed, reported>>

Next ==
    \E p \in Proc :
      Begin(p) \/ Show(p) \/ Settle(p) \/ Tidy(p) \/ File(p) \/ GiveUp(p)

Spec == Init /\ [][Next]_subvars
=============================================================================
