--------------------------- MODULE MCSessionLane ---------------------------
(* Small instances of SessionLane.                                         *)
EXTENDS SessionLane, TLC

Symmetric == Permutations(Calls) \cup Permutations(Events)

\* The two parts of the instance: what the plugin's own goroutines ask, and what the
\* host sends beside the plugin's events.  The callers and flushes outside "idle" have
\* returned: the calls and events could not be encoded, the flushes found nothing queued.
Parts == \E idle \in {Calls \cup Flushes, Events} :
    /\ InitLane
    /\ snd = [x \in Senders |-> IF x \in idle THEN "idle" ELSE "returned"]
    /\ out = [c \in Calls |-> IF c \in idle THEN "none" ELSE "BadOp"]
    /\ fl = [f \in Flushes |-> IF f \in idle THEN "idle" ELSE "ok"]

PartsSpec == Parts /\ [][Next]_vars

\* The answerers of a control are alike, so it may be always the same one that is first.
FirstAnswerer == CHOOSE a \in Answerers : TRUE
InTurn == \A x \in Answers : ans[x] # "idle" => ans[<<x[1], FirstAnswerer>>] # "idle"

\* Bounds.  The plugin's part: no controls, a reader that ends at the end of its input or
\* not at all, which serveSession waits for (an error of the reader's and an interrupted
\* read count only in what Serve returns), until it waits for its writer (of what follows,
\* lane_ends and the other part explore the rest).  The host's: two controls at once, or events beside one control that
\* is answered once and not inline.
Apart ==
    IF \A e \in Events : snd[e] = "returned"
    THEN received = {} /\ readErr = "none" /\ ~intr /\ mn \notin {"writer", "join", "returned"}
    ELSE /\ InTurn
         /\ \/ \A e \in Events : snd[e] = "idle"
            \/ /\ received \subseteq Controls \ Inline
               /\ \A x \in Answers : x[2] # FirstAnswerer => ans[x] = "idle"

\* A start in the middle: the events of "sent" are on the pipe, those of "q" were
\* accepted behind them and the writer is in the pipe with the first of these.
\* The callers and flushes outside "idle" have returned, the calls before they
\* wrote anything (CallBadOp) and the flushes over an empty queue.
Started(sent, q, idle) ==
    LET accepted == {q[i] : i \in DOMAIN q} \cup {sent[i] : i \in DOMAIN sent}
        before   == {sent[i] : i \in DOMAIN sent}
    IN
    /\ log = sent \o q /\ taken = Len(sent) + 1 /\ wrote = Len(sent)
    /\ claimed = before \cup {q[1]} /\ touched = before \cup {q[1]} /\ wire = before
    /\ done = [c \in Calls |-> "none"]
    /\ notified = Waiters
    /\ slots = 0 /\ admitCh = <<>> /\ admitClosed = FALSE
    /\ closed = FALSE /\ outClosed = FALSE /\ settled = FALSE
    /\ fault = "none"
    /\ received = {} /\ rd = "loop" /\ readErr = "none"
    /\ ad = "sel" /\ cur = "none" /\ handed = {}
    /\ answered = {} /\ ans = [x \in Answers |-> "idle"]
    /\ wr = "write" /\ mode = "sel" /\ owed = FALSE
    /\ mn = "wait" /\ sawRead = FALSE /\ intr = FALSE
    /\ retErr = FALSE /\ ret = "none"
    /\ snd = [x \in Senders |-> IF x \in accepted THEN "accepted"
                                ELSE IF x \in idle THEN "idle" ELSE "returned"]
    /\ out = [c \in Calls |-> IF c \in idle THEN "none" ELSE "BadOp"]
    /\ pending = {} /\ replied = {}
    /\ fl = [f \in Flushes |-> IF f \in idle THEN "idle" ELSE "ok"]
    /\ target = [f \in Flushes |-> 0]

First  == CHOOSE e \in Events : TRUE
Second == CHOOSE e \in Events \ {First} : TRUE
Third  == CHOOSE e \in Events \ {First, Second} : TRUE

\* An event in the pipe, and an Emit behind a full queue, a host call or a Flush.
Blocked ==
    \/ Started(<<>>, <<First, Second>>, {Third})
    \/ Started(<<Second, Third>>, <<First>>, Calls)
    \/ Started(<<Second, Third>>, <<First>>, Flushes)

BlockedSpec == Blocked /\ [][Next]_vars /\ Fairness
============================================================================
