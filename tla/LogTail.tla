------------------------------ MODULE LogTail ------------------------------
(***************************************************************************)
(* tailLines of api/server.go, which handleLogs cuts the log with.  Of a   *)
(* text only its length and where its newlines are matter, and of a line   *)
(* (a Go slice of the text) from where to where it goes; positions count   *)
(* from 1.  The function is checked on small texts by MCEdits and proved   *)
(* for every text in LogTailProofs.                                        *)
(***************************************************************************)
EXTENDS Integers, Sequences

Text == [len : Nat, newlines : SUBSET Nat]

\* No limit means a hundred lines.
Limit(n) == IF n <= 0 THEN 100 ELSE n

Slice(from, to) == [from |-> from, to |-> to]

\* The lines that end in a newline's successor, from the end of the text backwards:
\* after k characters, those lines, and where the one before them ends.
Scan(text, n) ==
    LET seen[k \in 0..text.len] ==
            IF k = 0 THEN [lines |-> <<>>, start |-> text.len]
            ELSE IF text.len - k + 1 \in text.newlines /\ Len(seen[k - 1].lines) < n
            THEN [lines |-> <<Slice(text.len - k + 2, seen[k - 1].start)>> \o seen[k - 1].lines,
                  start |-> text.len - k]
            ELSE seen[k - 1]
    IN  seen[text.len]

\* The rest of the text is a line too, unless it is empty or there are enough.
tailLines(text, n) ==
    LET r == Scan(text, Limit(n)) IN
    IF r.start > 0 /\ Len(r.lines) < Limit(n) THEN <<Slice(1, r.start)>> \o r.lines ELSE r.lines

\* The lines of ls are what text ends with, one newline apart; none has a newline in
\* it; and there are n of them, or they are the whole text but for a newline that it
\* begins with.
LastLines(ls, text, n) ==
    /\ Len(ls) <= n
    /\ \A k \in 1..Len(ls) : \A i \in ls[k].from..ls[k].to : i \notin text.newlines
    /\ \A k \in 1..(Len(ls) - 1) : ls[k].to + 2 = ls[k + 1].from /\ ls[k].to + 1 \in text.newlines
    /\ ls # <<>> => ls[Len(ls)].to = text.len
    /\ Len(ls) < n => IF ls = <<>> THEN text.len = 0
                      ELSE ls[1].from = 1 \/ (ls[1].from = 2 /\ 1 \in text.newlines)
=============================================================================
