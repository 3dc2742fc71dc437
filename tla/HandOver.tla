------------------------------ MODULE HandOver ------------------------------
(***************************************************************************)
(* What an inbound channel adapter that says `acknowledges` promises       *)
(* (WRITING_A_PLUGIN.md, "receive"): its position at the service moves     *)
(* past a message only once the host holds the message, or somebody was    *)
(* told that it will not come.  MailSync and TelegramPoll implement it.    *)
(***************************************************************************)
EXTENDS Naturals

VARIABLES arrived,   \* how many messages reached the service
          kept,      \* the messages the host holds
          excused,   \* messages that are gone, or said to be left out
          passed     \* the messages the adapter's position is past

handVars == <<arrived, kept, excused, passed>>

Init ==
    /\ arrived = 0
    /\ kept = {} /\ excused = {} /\ passed = {}

\* Messages come and are never taken back.
Arrives == arrived' >= arrived

\* The host lets no message go that it holds, and holds none that never came.
Keeps == kept \subseteq kept' /\ kept' \subseteq 1 .. arrived

Excuses == excused \subseteq excused' /\ excused' \subseteq 1 .. arrived'

\* The position moves, backwards too after a restart, but never past a message
\* that nobody holds and nobody was told of.
Passes == passed' \subseteq kept' \cup excused'

Next == Arrives /\ Keeps /\ Excuses /\ Passes

Spec == Init /\ [][Next]_handVars
=============================================================================
