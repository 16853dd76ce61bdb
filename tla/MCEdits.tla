------------------------------ MODULE MCEdits ------------------------------
(***************************************************************************)
(* Instances of Edits: the inbound "p" is the panel's, "n" the node's.     *)
(* LogTail, a function of another handler of the same server, has no       *)
(* behaviours of its own; it is evaluated here on small texts.             *)
(***************************************************************************)
EXTENDS Edits, LogTail

\* tailLines cuts every text of up to six characters as it should, for no limit and
\* for one to four lines.
ASSUME TailOfSmallTexts ==
    \A l \in 0..6 : \A newlines \in SUBSET (1..l) : \A n \in 0..4 :
        LET text == [len |-> l, newlines |-> newlines] IN
        LastLines(tailLines(text, n), text, Limit(n))

MCTag == {"p", "n"}
MCVal == {"a", "b"}

E(t, panel, v) == [tag |-> t, panel |-> panel, val |-> v]
R(op, list, path, e, all) == [op |-> op, list |-> list, path |-> path, entry |-> e, all |-> all]

Panel == E("p", TRUE, "a")
Node  == E("n", FALSE, "a")
Off   == E("n", FALSE, "b")

MCInbounds == <<Panel>>
MCUsers == {<<Node, Off>>}
MCBodies == {Blank}
MCRequest ==
    {R("post", "inbounds", "n", Node, <<>>), R("post", "inbounds", "n", Off, <<>>),
     R("put", "inbounds", "p", E("p", FALSE, "b"), <<>>), R("put", "inbounds", "n", Panel, <<>>),
     R("delete", "inbounds", "n", Node, <<>>),
     R("sync", "inbounds", "p", E("p", TRUE, "b"), <<>>),
     R("handshake", "inbounds", "p", Panel, <<>>),
     R("replace", "advanced", "n", Node, <<Node, Off>>),
     R("upsert", "outbounds", "n", Node, <<>>), R("upsert", "outbounds", "n", Off, <<>>),
     R("delete", "outbounds", "n", Node, <<>>),
     R("replace", "dns", "n", Node, <<Off>>), R("delete", "rules", "n", Node, <<>>)}
=============================================================================
