--------------------------- MODULE LogTailProofs ---------------------------
(***************************************************************************)
(* tailLines returns the last lines of any text, by induction on how much  *)
(* of it has been looked at.                                               *)
(***************************************************************************)
EXTENDS LogTail, Induction, SequenceTheorems

\* seen[i] is what the scan has found after i characters.
Scans(seen, text, n, m) ==
    seen = [k \in 0..m |->
              IF k = 0 THEN [lines |-> <<>>, start |-> text.len]
              ELSE IF text.len - k + 1 \in text.newlines /\ Len(seen[k - 1].lines) < n
              THEN [lines |-> <<Slice(text.len - k + 2, seen[k - 1].start)>> \o seen[k - 1].lines,
                    start |-> text.len - k]
              ELSE seen[k - 1]]

\* One character more.
More(r, text, n, k) ==
    IF text.len - k + 1 \in text.newlines /\ Len(r.lines) < n
    THEN [lines |-> <<Slice(text.len - k + 2, r.start)>> \o r.lines, start |-> text.len - k]
    ELSE r

LEMMA ScanNext ==
    ASSUME NEW seen, NEW text, NEW n, NEW m \in Nat, Scans(seen, text, n, m), NEW k \in 1..m
    PROVE  seen[k] = More(seen[k - 1], text, n, k)
<1>1. k \in 0..m /\ k # 0
  OBVIOUS
<1>2. seen[k] = IF k = 0 THEN [lines |-> <<>>, start |-> text.len] ELSE More(seen[k - 1], text, n, k)
  BY <1>1, Zenon DEF Scans, More
<1>3. QED
  BY <1>1, <1>2

LEMMA ScanExists ==
    ASSUME NEW text, NEW n, NEW m \in Nat PROVE \E seen : Scans(seen, text, n, m)
<1> DEFINE T == {j \in Nat : \E seen : Scans(seen, text, n, j)}
           first == [lines |-> <<>>, start |-> text.len]
<1>1. 0 \in T
  <2>1. Scans([k \in 0..0 |-> first], text, n, 0)
    BY DEF Scans
  <2>2. QED
    BY <2>1
<1>2. ASSUME NEW j \in Nat, j \in T PROVE j + 1 \in T
  <2>1. PICK seen : Scans(seen, text, n, j)
    BY <1>2
  <2> DEFINE g == [k \in 0..(j + 1) |-> IF k <= j THEN seen[k] ELSE More(seen[j], text, n, k)]
  <2>2. ASSUME NEW k \in 0..(j + 1)
        PROVE  g[k] = IF k = 0 THEN first ELSE More(g[k - 1], text, n, k)
    <3>1. CASE k = 0
      BY <2>1, <3>1 DEF Scans
    <3>2. CASE k \in 1..j
      <4>1. g[k] = seen[k] /\ g[k - 1] = seen[k - 1]
        BY <3>2
      <4>2. seen[k] = More(seen[k - 1], text, n, k)
        BY <2>1, <3>2, ScanNext
      <4>3. QED
        BY <3>2, <4>1, <4>2
    <3>3. CASE k = j + 1
      <4>1. g[k] = More(seen[j], text, n, k) /\ g[k - 1] = seen[j]
        BY <3>3
      <4>2. QED
        BY <3>3, <4>1
    <3>4. QED
      BY <3>1, <3>2, <3>3
  <2>3. g = [k \in 0..(j + 1) |-> IF k = 0 THEN first ELSE More(g[k - 1], text, n, k)]
    <3>1. g = [k \in 0..(j + 1) |-> g[k]]
      OBVIOUS
    <3> HIDE DEF g
    <3>2. QED
      BY <2>2, <3>1
  <2> HIDE DEF g
  <2>4. Scans(g, text, n, j + 1)
    BY <2>3, Zenon DEF Scans, More
  <2>5. QED
    BY <2>4
<1> HIDE DEF T
<1>3. Nat \subseteq T
  BY <1>1, <1>2, SetInduction
<1>4. QED
  BY <1>3 DEF T

LEMMA ScanIsScan ==
    ASSUME NEW text \in Text, NEW n
    PROVE  \E seen : Scans(seen, text, n, text.len) /\ Scan(text, n) = seen[text.len]
<1> DEFINE seen == CHOOSE seen : Scans(seen, text, n, text.len)
<1>1. Scans(seen, text, n, text.len)
  BY ScanExists DEF Text
<1>2. Scan(text, n) = seen[text.len]
  BY Zenon DEF Scan, Scans
<1>3. QED
  BY <1>1, <1>2

-----------------------------------------------------------------------------
Line == [from : Nat, to : Nat]

\* What has been found after k characters is what the text ends with, one newline
\* after start; while there are too few lines, no newline has been passed over.
Found(r, text, n, k) ==
    /\ r.lines \in Seq(Line) /\ Len(r.lines) <= n
    /\ r.start \in 0..text.len
    /\ \A j \in 1..Len(r.lines) : \A i \in r.lines[j].from..r.lines[j].to : i \notin text.newlines
    /\ \A j \in 1..(Len(r.lines) - 1) : r.lines[j].to + 2 = r.lines[j + 1].from
                                        /\ r.lines[j].to + 1 \in text.newlines
    /\ r.lines = <<>> => r.start = text.len
    /\ r.lines # <<>> => /\ r.lines[1].from = r.start + 2 /\ r.start + 1 \in text.newlines
                         /\ r.lines[Len(r.lines)].to = text.len
    /\ Len(r.lines) < n => \A i \in (text.len - k + 1)..r.start : i \notin text.newlines

\* A line in front of lines that are one newline apart.
LEMMA InFront ==
    ASSUME NEW ls \in Seq(Line), NEW x \in Line
    PROVE  LET xs == <<x>> \o ls IN
           /\ xs \in Seq(Line) /\ Len(xs) = Len(ls) + 1 /\ xs[1] = x
           /\ \A j \in 2..Len(xs) : xs[j] = ls[j - 1]
<1>1. <<x>> \in Seq(Line) /\ Len(<<x>>) = 1 /\ <<x>>[1] = x
  OBVIOUS
<1>2. QED
  BY <1>1, ConcatProperties

LEMMA FoundMore ==
    ASSUME NEW text \in Text, NEW n \in Nat, NEW k \in 1..text.len, NEW r, Found(r, text, n, k - 1)
    PROVE  Found(More(r, text, n, k), text, n, k)
<1> DEFINE p == text.len - k + 1
           x == Slice(p + 1, r.start)
           xs == <<x>> \o r.lines
<1>0. text.len \in Nat /\ p \in 1..text.len /\ text.len - (k - 1) + 1 = p + 1 /\ text.len - k + 2 = p + 1
      /\ text.len - k = p - 1 /\ r.lines \in Seq(Line) /\ Len(r.lines) \in Nat /\ r.start \in 0..text.len
  BY DEF Text, Found
<1>1. CASE p \in text.newlines /\ Len(r.lines) < n
  <2>1. More(r, text, n, k) = [lines |-> xs, start |-> p - 1]
    BY <1>0, <1>1 DEF More
  <2>2. x \in Line /\ x.from = p + 1 /\ x.to = r.start
    BY <1>0 DEF Slice, Line
  <2> HIDE DEF x, p
  <2>3. xs \in Seq(Line) /\ Len(xs) = Len(r.lines) + 1 /\ xs[1] = x /\ \A j \in 2..Len(xs) : xs[j] = r.lines[j - 1]
    BY <1>0, <2>2, InFront
  <2> HIDE DEF xs
  <2>0. Len(r.lines) \in Nat
    BY <1>0
  <2>4. ASSUME NEW j \in 1..Len(xs), NEW i \in xs[j].from..xs[j].to PROVE i \notin text.newlines
    <3>1. CASE j = 1
      <4>1. \A h \in (p + 1)..r.start : h \notin text.newlines
        BY <1>0, <1>1 DEF Found
      <4>2. QED
        BY <2>2, <2>3, <2>4, <3>1, <4>1
    <3>2. CASE j # 1
      <4>1. xs[j] = r.lines[j - 1] /\ j - 1 \in 1..Len(r.lines)
        BY <1>0, <2>3, <3>2
      <4>2. QED
        BY <2>4, <4>1 DEF Found
    <3>3. QED
      BY <3>1, <3>2
  <2>5. ASSUME NEW j \in 1..(Len(xs) - 1)
        PROVE  xs[j].to + 2 = xs[j + 1].from /\ xs[j].to + 1 \in text.newlines
    <3>1. CASE j = 1
      <4>1. xs[2] = r.lines[1] /\ r.lines # <<>>
        BY <1>0, <2>3, <3>1
      <4>2. r.lines[1].from = r.start + 2 /\ r.start + 1 \in text.newlines
        BY <4>1 DEF Found
      <4>3. QED
        BY <2>2, <2>3, <3>1, <4>1, <4>2
    <3>2. CASE j # 1
      <4>1. xs[j] = r.lines[j - 1] /\ xs[j + 1] = r.lines[j] /\ j - 1 \in 1..(Len(r.lines) - 1) /\ (j - 1) + 1 = j
        BY <2>0, <2>3, <3>2
      <4>2. QED
        BY <4>1 DEF Found
    <3>3. QED
      BY <3>1, <3>2
  <2>6. xs[Len(xs)].to = text.len
    <3>1. CASE r.lines = <<>>
      BY <2>2, <2>3, <3>1 DEF Found
    <3>2. CASE r.lines # <<>>
      <4>1. xs[Len(xs)] = r.lines[Len(r.lines)]
        <5>1. Len(r.lines) > 0
          BY <2>0, <1>0, <3>2
        <5>2. QED
          BY <2>0, <2>3, <5>1
      <4>2. QED
        BY <3>2, <4>1 DEF Found
    <3>3. QED
      BY <3>1, <3>2
  <2>7. xs # <<>> /\ Len(xs) <= n
    BY <1>1, <2>0, <2>3
  <2>10. p - 1 \in 0..text.len /\ (p - 1) + 1 = p /\ (p - 1) + 2 = p + 1
    BY <1>0
  <2>8. \A i \in (text.len - k + 1)..(p - 1) : i \notin text.newlines
    BY <1>0 DEF p
  <2> DEFINE z == [lines |-> xs, start |-> p - 1]
  <2>9. z.lines = xs /\ z.start = p - 1
    OBVIOUS
  <2> HIDE DEF z
  <2>11. xs[1].from = z.start + 2 /\ z.start + 1 \in text.newlines
    BY <1>1, <2>2, <2>3, <2>9, <2>10
  <2>12. Found(z, text, n, k)
    BY <2>3, <2>4, <2>5, <2>6, <2>7, <2>8, <2>9, <2>10, <2>11 DEF Found
  <2>13. QED
    BY <2>1, <2>12 DEF z
<1>2. CASE ~(p \in text.newlines /\ Len(r.lines) < n)
  <2>1. More(r, text, n, k) = r
    BY <1>2 DEF More
  <2>2. ASSUME Len(r.lines) < n, NEW i \in p..r.start PROVE i \notin text.newlines
    <3>1. \A h \in (p + 1)..r.start : h \notin text.newlines
      BY <1>0, <2>2 DEF Found
    <3>2. QED
      BY <1>0, <1>2, <2>2, <3>1
  <2>3. QED
    BY <2>1, <2>2 DEF Found
<1>3. QED
  BY <1>1, <1>2

LEMMA ScanFinds ==
    ASSUME NEW text \in Text, NEW n \in Nat PROVE Found(Scan(text, n), text, n, text.len)
<1>1. PICK seen : Scans(seen, text, n, text.len) /\ Scan(text, n) = seen[text.len]
  BY ScanIsScan
<1>2. text.len \in Nat
  BY DEF Text
<1> DEFINE T == {k \in Nat : k <= text.len => Found(seen[k], text, n, k)}
<1>3. 0 \in T
  <2>1. 0 \in 0..text.len
    BY <1>2
  <2>2. seen[0] = [lines |-> <<>>, start |-> text.len]
    BY <1>1, <2>1, Zenon DEF Scans
  <2> DEFINE z == [lines |-> <<>>, start |-> text.len]
  <2>3. z.lines = <<>> /\ z.start = text.len /\ z.lines \in Seq(Line) /\ Len(z.lines) = 0
    OBVIOUS
  <2> HIDE DEF z
  <2>4. Found(z, text, n, 0)
    BY <1>2, <2>3 DEF Found
  <2>5. QED
    BY <2>2, <2>4 DEF z
<1>4. ASSUME NEW k \in Nat, k \in T PROVE k + 1 \in T
  <2>1. SUFFICES ASSUME k + 1 <= text.len PROVE Found(seen[k + 1], text, n, k + 1)
    OBVIOUS
  <2>2. k + 1 \in 1..text.len /\ (k + 1) - 1 = k /\ Found(seen[k], text, n, k)
    BY <1>2, <1>4, <2>1
  <2>3. seen[k + 1] = More(seen[k], text, n, k + 1)
    BY <1>1, <1>2, <2>2, ScanNext
  <2>4. QED
    BY <2>2, <2>3, FoundMore
<1>5. text.len \in T
  <2> HIDE DEF T
  <2> QED BY <1>2, <1>3, <1>4, SetInduction
<1>6. QED
  BY <1>1, <1>2, <1>5

\* Of any text, and for any limit, tailLines returns the last lines: no more than the
\* limit, without a gap up to the end of the text, and fewer only if they are all of it
\* but a newline that it begins with (server.go:667-683).
THEOREM TailIsLastLines ==
    \A text \in Text, n \in Int : LastLines(tailLines(text, n), text, Limit(n))
<1> SUFFICES ASSUME NEW text \in Text, NEW n \in Int
             PROVE  LastLines(tailLines(text, n), text, Limit(n))
  OBVIOUS
<1> DEFINE m == Limit(n)
           r == Scan(text, m)
           x == Slice(1, r.start)
           xs == <<x>> \o r.lines
<1>0. m \in Nat /\ m > 0 /\ text.len \in Nat
  BY DEF Limit, Text
<1> HIDE DEF m
<1>1. Found(r, text, m, text.len)
  BY <1>0, ScanFinds
<1>2. r.lines \in Seq(Line) /\ Len(r.lines) \in Nat /\ r.start \in 0..text.len /\ text.len - text.len + 1 = 1
  BY <1>0, <1>1 DEF Found
<1> HIDE DEF r
<1>3. CASE r.start > 0 /\ Len(r.lines) < m
  <2>1. tailLines(text, n) = xs
    BY <1>3 DEF tailLines, m, r
  <2>2. x \in Line /\ x.from = 1 /\ x.to = r.start
    BY <1>2 DEF Slice, Line
  <2> HIDE DEF x
  <2>3. xs \in Seq(Line) /\ Len(xs) = Len(r.lines) + 1 /\ xs[1] = x /\ \A j \in 2..Len(xs) : xs[j] = r.lines[j - 1]
    BY <1>2, <2>2, InFront
  <2> HIDE DEF xs
  <2>4. ASSUME NEW j \in 1..Len(xs), NEW i \in xs[j].from..xs[j].to PROVE i \notin text.newlines
    <3>1. CASE j = 1
      <4>1. \A h \in 1..r.start : h \notin text.newlines
        BY <1>1, <1>2, <1>3 DEF Found
      <4>2. QED
        BY <2>2, <2>3, <2>4, <3>1, <4>1
    <3>2. CASE j # 1
      <4>1. xs[j] = r.lines[j - 1] /\ j - 1 \in 1..Len(r.lines)
        BY <1>2, <2>3, <3>2
      <4>2. QED
        BY <1>1, <2>4, <4>1 DEF Found
    <3>3. QED
      BY <3>1, <3>2
  <2>5. ASSUME NEW j \in 1..(Len(xs) - 1)
        PROVE  xs[j].to + 2 = xs[j + 1].from /\ xs[j].to + 1 \in text.newlines
    <3>1. CASE j = 1
      <4>1. xs[2] = r.lines[1] /\ r.lines # <<>>
        BY <1>2, <2>3, <3>1
      <4>2. r.lines[1].from = r.start + 2 /\ r.start + 1 \in text.newlines
        BY <1>1, <4>1 DEF Found
      <4>3. QED
        BY <2>2, <2>3, <3>1, <4>1, <4>2
    <3>2. CASE j # 1
      <4>1. xs[j] = r.lines[j - 1] /\ xs[j + 1] = r.lines[j] /\ j - 1 \in 1..(Len(r.lines) - 1) /\ (j - 1) + 1 = j
        BY <1>2, <2>3, <3>2
      <4>2. QED
        BY <1>1, <4>1 DEF Found
    <3>3. QED
      BY <3>1, <3>2
  <2>6. xs[Len(xs)].to = text.len
    <3>1. CASE r.lines = <<>>
      BY <1>1, <2>2, <2>3, <3>1 DEF Found
    <3>2. CASE r.lines # <<>>
      <4>1. xs[Len(xs)] = r.lines[Len(r.lines)]
        BY <1>2, <2>3, <3>2
      <4>2. QED
        BY <1>1, <3>2, <4>1 DEF Found
    <3>3. QED
      BY <3>1, <3>2
  <2>7. Len(xs) <= m /\ xs # <<>>
    BY <1>0, <1>2, <1>3, <2>3
  <2>8. QED
    BY <2>1, <2>2, <2>3, <2>4, <2>5, <2>6, <2>7 DEF LastLines, m
<1>4. CASE ~(r.start > 0 /\ Len(r.lines) < m)
  <2>1. tailLines(text, n) = r.lines
    BY <1>4 DEF tailLines, m, r
  <2>2. ASSUME Len(r.lines) < m, r.lines # <<>> PROVE r.lines[1].from = 2 /\ 1 \in text.newlines
    BY <1>1, <1>2, <1>4, <2>2 DEF Found
  <2>3. ASSUME Len(r.lines) < m, r.lines = <<>> PROVE text.len = 0
    BY <1>0, <1>1, <1>2, <1>4, <2>3 DEF Found
  <2>4. QED
    BY <1>1, <2>1, <2>2, <2>3 DEF Found, LastLines, m
<1>5. QED
  BY <1>3, <1>4
=============================================================================
