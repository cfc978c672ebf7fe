----------------------------- MODULE AbstractBuild -----------------------------
(***************************************************************************)
(* What every builder of the plugins promises, whatever its steps do: a    *)
(* build runs its steps one after the other and cleans up after them in    *)
(* the opposite order, once each.  What a build has to give back, a        *)
(* machine, a lease, a listener, a directory, belongs to the step that     *)
(* makes it: it appears only during the Run of that step, and when the     *)
(* Cleanup of that step has returned it is gone, or was accounted for.     *)
(*                                                                         *)
(* "Accounted for" means that the user was told, or that the code could    *)
(* not know (the caller of this module says what counts).  What a build    *)
(* is to deliver, `Lasting`, may stay if no step has halted it.            *)
(*                                                                         *)
(* This is a specification of the interface, not of any one function: the  *)
(* modules AmazonBuild, VMwareBuild and DesktopBuild implement it.         *)
(***************************************************************************)
EXTENDS Naturals

CONSTANTS Things,   \* what a build may have to give back
          Lasting   \* what it delivers if it goes well

VARIABLES
  total,    \* number of steps
  makes,    \* the things each of them can make
  phase,    \* "ahead", "back" (cleaning up) or "over"
  open,     \* steps that were entered and not yet cleaned up after: 1..open
  asked,    \* an interrupt has been asked for
  halted,   \* a step has halted the build
  holds,    \* the things that exist
  excused,  \* the things accounted for
  outcome   \* what the build returned

list == <<total, makes>>
bvars == <<list, phase, open, asked, halted, holds, excused, outcome>>

Accounts(h, e) == \A r \in h : r \in e \/ (r \in Lasting /\ ~halted)

Init ==
  /\ total \in Nat
  /\ makes \in [1..total -> SUBSET Things]
  /\ phase = "ahead" /\ open = 0
  /\ asked = FALSE /\ halted = FALSE
  /\ holds = {} /\ excused = {}
  /\ outcome = "none"

\* No step is entered once an interrupt was asked for.
Enter ==
  /\ phase = "ahead" /\ open < total /\ ~asked
  /\ open' = open + 1
  /\ UNCHANGED <<list, phase, asked, halted, holds, excused, outcome>>

\* A part of the Run of the step entered last.  It turns back only if that step halts
\* the build, or for an interrupt.
Run ==
  /\ phase = "ahead" /\ open > 0
  /\ \A r \in holds' : r \in holds \/ r \in makes[open]
  /\ excused \subseteq excused'
  /\ halted' \in BOOLEAN
  /\ \/ phase' = "ahead" /\ ~halted'
     \/ phase' = "back" /\ (halted' \/ asked)
  /\ UNCHANGED <<list, open, asked, outcome>>

\* There is no step left to enter, or none may be.
TurnBack ==
  /\ phase = "ahead"
  /\ open = total \/ asked
  /\ phase' = "back"
  /\ UNCHANGED <<list, open, asked, halted, holds, excused, outcome>>

\* A part of the Cleanup of the step entered last, ...
CleaningUp ==
  /\ phase = "back" /\ open > 0
  /\ holds' \subseteq holds
  /\ excused \subseteq excused'
  /\ UNCHANGED <<list, phase, open, asked, halted, outcome>>

\* ... and the part it returns with.
CleanedUp ==
  /\ phase = "back" /\ open > 0
  /\ open' = open - 1
  /\ holds' \subseteq holds
  /\ excused \subseteq excused'
  /\ Accounts(holds' \cap makes[open], excused')
  /\ UNCHANGED <<list, phase, asked, halted, outcome>>

End ==
  /\ phase = "back" /\ open = 0
  /\ phase' = "over"
  /\ UNCHANGED <<list, open, asked, halted, holds, excused, outcome>>

Ask ==
  /\ ~asked
  /\ asked' = TRUE
  /\ UNCHANGED <<list, phase, open, halted, holds, excused, outcome>>

\* A build that was halted is reported as an error, and one that nobody interrupted as
\* an artifact or an error.
Return(o) ==
  /\ phase = "over"
  /\ halted => o = "error"
  /\ ~asked => o \in {"artifact", "error"}
  /\ outcome' = o
  /\ UNCHANGED <<list, phase, open, asked, halted, holds, excused>>

\* It returns without having entered a step, ...
Refuse ==
  /\ phase = "ahead" /\ open = 0
  /\ outcome' = "error"
  /\ UNCHANGED <<list, phase, open, asked, halted, holds, excused>>

\* ... or the process panics in one.
Panic ==
  /\ phase = "ahead" /\ open > 0
  /\ outcome' = "panic"
  /\ UNCHANGED <<list, phase, open, asked, halted, holds, excused>>

\* Things may also go by themselves, even when the build has returned.
Lose ==
  /\ holds' \subseteq holds
  /\ UNCHANGED <<list, phase, open, asked, halted, excused, outcome>>

Outcomes == {"artifact", "error", "cancelled", "halted", "nothing"}

Next ==
  \/ /\ outcome = "none"
     /\ \/ Enter \/ Run \/ TurnBack \/ CleaningUp \/ CleanedUp \/ End \/ Ask
        \/ Refuse \/ Panic \/ \E o \in Outcomes : Return(o)
  \/ Lose

Spec == Init /\ [][Next]_bvars

\* What exists is accounted for, or is delivered, or the Cleanup of the step that made it
\* is still to come.
Owned ==
  \A r \in holds :
    \/ r \in excused
    \/ r \in Lasting /\ ~halted /\ phase # "ahead"
    \/ \E n \in 1..open : r \in makes[n]

\* What it comes to: everything is accounted for when the build is over.
AllAccounted == phase = "over" => Accounts(holds, excused)

=============================================================================
