------------------------------ MODULE LogBuffer ------------------------------
(***************************************************************************)
(* The bounded log of tools/uvk5_logs.py, the /api/logs handler of         *)
(* tools/webui.py and the page that polls it.  Server threads add lines    *)
(* while a handler reads the entries and then, in a second locked call,    *)
(* the cursor.  The page sends a poll every two seconds whether or not the *)
(* last one was answered, so polls may overlap.                            *)
(*                                                                         *)
(* A line is its seq: what it says does not matter here.                   *)
(***************************************************************************)
EXTENDS Integers, Sequences, SequencesExt

CONSTANTS
    Capacity,   \* deque(maxlen=capacity)
    PaneLines,  \* MAX_LOG_LINES of the page, the empty last one included
    Polls,      \* polls that may be in flight at once
    MaxLines    \* bound on the lines added

ASSUME LogAssumption ==
    /\ Capacity \in Nat \ {0}
    /\ PaneLines \in Nat \ {0, 1}
    /\ MaxLines \in Nat

VARIABLES
    seq,        \* _seq
    entries,    \* _entries: the seq of each line, oldest first
    poll,       \* each poll: its step, since, the entries read and the cursor
    logCursor,  \* the page's logCursor
    pane        \* the lines in the page's log pane

vars == <<seq, entries, poll, logCursor, pane>>

Idle == [pc |-> "idle", since |-> 0, batch |-> <<>>, cursor |-> 0]

\* What a bounded queue keeps of s: its last n elements.
Newest(s, n) == IF Len(s) > n THEN SubSeq(s, Len(s) - n + 1, Len(s)) ELSE s

-----------------------------------------------------------------------------
\* LogBuffer.add: number the line and append it, evicting the oldest.
add ==
    /\ seq < MaxLines
    /\ seq' = seq + 1
    /\ entries' = Newest(Append(entries, seq + 1), Capacity)
    /\ UNCHANGED <<poll, logCursor, pane>>

\* pollLogs sends since = logCursor.
PollSend(p) ==
    /\ poll[p].pc = "idle"
    /\ poll' = [poll EXCEPT ![p] = [Idle EXCEPT !.pc = "entries", !.since = logCursor]]
    /\ UNCHANGED <<seq, entries, logCursor, pane>>

\* Mutant: ">=" for ">".
EntriesFrom(since) ==
    LET after == {i \in DOMAIN entries : entries[i] >= since}
    IN SubSeq(entries, Min(after \cup {Len(entries) + 1}), Len(entries))

\* LogBuffer.entries: the lines after since.  Lines are kept in the order of
\* their seq, so these are all from the first of them on.
EntriesSince(since) ==
    LET after == {i \in DOMAIN entries : entries[i] > since}
    IN SubSeq(entries, Min(after \cup {Len(entries) + 1}), Len(entries))

\* api_logs, first locked call: entries(since).
ApiEntries(p) ==
    /\ poll[p].pc = "entries"
    /\ poll' = [poll EXCEPT ![p].pc = "cursor", ![p].batch = EntriesSince(poll[p].since)]
    /\ UNCHANGED <<seq, entries, logCursor, pane>>

\* Mutant: the request's own since is echoed as the cursor.
ApiCursorEchoed(p) ==
    /\ poll[p].pc = "cursor"
    /\ poll' = [poll EXCEPT ![p].pc = "reply", ![p].cursor = poll[p].since]
    /\ UNCHANGED <<seq, entries, logCursor, pane>>

\* api_logs, second locked call: cursor().
ApiCursor(p) ==
    /\ poll[p].pc = "cursor"
    /\ poll' = [poll EXCEPT ![p].pc = "reply", ![p].cursor = seq]
    /\ UNCHANGED <<seq, entries, logCursor, pane>>

\* The answer reaches the page: adopt the cursor, append the entries and cap
\* the pane.  The text ends in a newline, so one of PaneLines is empty.
PollReply(p) ==
    /\ poll[p].pc = "reply"
    /\ poll' = [poll EXCEPT ![p] = Idle]
    /\ logCursor' = poll[p].cursor
    /\ pane' = Newest(pane \o poll[p].batch, PaneLines - 1)
    /\ UNCHANGED <<seq, entries>>

\* The fetch fails at any point: the pane is left as it is.
PollFails(p) ==
    /\ poll[p].pc # "idle"
    /\ poll' = [poll EXCEPT ![p] = Idle]
    /\ UNCHANGED <<seq, entries, logCursor, pane>>

-----------------------------------------------------------------------------
Init ==
    /\ seq = 0
    /\ entries = <<>>
    /\ poll = [p \in Polls |-> Idle]
    /\ logCursor = 0
    /\ pane = <<>>

PollStep(p) == PollSend(p) \/ ApiEntries(p) \/ ApiCursor(p) \/ PollReply(p)

Next == add \/ \E p \in Polls : PollStep(p) \/ PollFails(p)

\* The page's timer keeps sending polls, and not every one of them fails.
Fairness ==
    \A p \in Polls :
        /\ WF_vars(PollSend(p))
        /\ SF_vars(ApiEntries(p)) /\ SF_vars(ApiCursor(p)) /\ SF_vars(PollReply(p))

Spec == Init /\ [][Next]_vars /\ Fairness

-----------------------------------------------------------------------------
(***************************************************************************)
(* The pane shows no line twice and none out of order, although entries    *)
(* and cursor are read at different times.                                 *)
(***************************************************************************)
PaneInOrder == \A i, j \in DOMAIN pane : i < j => pane[i] < pane[j]

(***************************************************************************)
(* A line that was logged does not stay ahead of the page's cursor for     *)
(* ever, even if polls fail.                                               *)
(***************************************************************************)
CursorCatchesUp == \A n \in 1..MaxLines : (seq = n) ~> (logCursor >= n)

=============================================================================
