------------------------------ MODULE StripProofs ------------------------------
(***************************************************************************)
(* What stripping a file (module Strip) leaves of it, proved for every     *)
(* syntax whose marks can be told apart and every file, of however many    *)
(* rows and symbols, in which the text tells the comments from the code.   *)
(*                                                                         *)
(* A reader goes through the text symbol by symbol, the stripper row by    *)
(* row: it looks for a comment opened before the label, on this row or on  *)
(* one above, and cuts it or blanks it.  The argument goes from the symbol *)
(* to the file:                                                            *)
(*  - in a row a reader is not misled by (PlainRow), what the stripper     *)
(*    takes for strings and openers is what a reader does;                 *)
(*  - a row one of whose comments goes is read as before, and has no label *)
(*    (Rewritten);                                                         *)
(*  - a comment over several rows goes as a whole, so no row is begun in   *)
(*    what it was not begun in before (Midway, the inductive invariant);   *)
(*  - a label a reader meets stands in a comment the stripper finds, so    *)
(*    its row has been done by the last (LabelGoes).                       *)
(***************************************************************************)
EXTENDS Strip, FiniteSetTheorems, TLAPS

\* A list, of whatever it holds.
IsList(s) == \E S : s \in Seq(S)

\* A set of naturals has a least element.
LEMMA Least == ASSUME NEW A \in SUBSET Nat, A # {} PROVE \E m \in A : \A n \in A : m <= n
<1> DEFINE T == {0..n : n \in A}
<1>1. T \subseteq FiniteSubsetsOf(Nat)
  <2>1. ASSUME NEW n \in A PROVE IsFiniteSet(0..n) /\ 0..n \in SUBSET Nat
    BY FS_Interval
  <2> QED
    BY <2>1 DEF FiniteSubsetsOf
<1>2. T # {}
  OBVIOUS
<1>3. IsWellFoundedOn(StrictSubsetOrdering(Nat), FiniteSubsetsOf(Nat))
  BY FS_StrictSubsetOrderingWellFounded
<1> HIDE DEF T
<1>4. PICK x \in T : \A y \in T : <<y, x>> \notin StrictSubsetOrdering(Nat)
  BY <1>1, <1>2, <1>3, WFMin
<1>5. PICK m \in A : x = 0..m
  BY DEF T
<1>6. ASSUME NEW n \in A PROVE m <= n
  <2>1. SUFFICES ASSUME n < m PROVE FALSE
    OBVIOUS
  <2>2. 0..n \in T /\ 0..n \subseteq 0..m /\ m \in 0..m /\ m \notin 0..n
    BY <2>1 DEF T
  <2>3. <<0..n, 0..m>> \in StrictSubsetOrdering(Nat)
    BY <2>2 DEF StrictSubsetOrdering
  <2> QED
    BY <1>4, <1>5, <2>2, <2>3
<1> QED
  BY <1>6

LEMMA LeastIs == ASSUME NEW S \in SUBSET Nat, S # {} PROVE Min(S) \in S /\ \A n \in S : Min(S) <= n
<1>1. \E m \in S : \A n \in S : m <= n
  BY Least
<1> QED
  BY <1>1 DEF Min

-----------------------------------------------------------------------------
(* The stripper: what a reader makes of a row. *)

\* What holds at first, and of the next where it holds of one, holds up to the last.
LEMMA Upwards ==
  ASSUME NEW n \in Nat, NEW S, 0 \in S, \A i \in 0..(n - 1) : i \in S => i + 1 \in S
  PROVE  \A i \in 0..n : i \in S
<1> DEFINE Wrong == {i \in 0..n : i \notin S}
<1> SUFFICES ASSUME Wrong # {} PROVE FALSE
  OBVIOUS
<1>1. PICK m \in Wrong : \A i \in Wrong : m <= i
  <2>1. Wrong \subseteq Nat
    OBVIOUS
  <2> HIDE DEF Wrong
  <2> QED
    BY <2>1, Least
<1>2. m \in 1..n /\ m - 1 \in 0..(n - 1) /\ m - 1 \notin Wrong
  BY <1>1
<1> QED
  BY <1>1, <1>2

\* The marks of a syntax are what they are for, and no more.
IsSyntax(sx) ==
  /\ \A p, q \in Pairs(sx) : p.o = q.o => p.c = q.c
  /\ (Quotes \cup {"esc"}) \cap (sx.line \cup sx.embLine \cup Openers(Pairs(sx)) \cup Closers(sx)) = {}
  /\ (sx.line \cup sx.embLine) \cap (Openers(Pairs(sx)) \cup Closers(sx)) = {}
  /\ Openers(Pairs(sx)) \cap Closers(sx) = {}
  /\ {" ", Marker, "", "eol"} \cap Signs(sx) = {}

\* A line has nothing in it that only a reader has names for.
IsLine(l) == IsList(l) /\ \A i \in DOMAIN l : l[i] \notin {"", "eol"}

\* What a comment waits for.
Waits(sx) == {"eol"} \cup Closers(sx)

IsState(st) ==
  \E in, code : \E skip, had, label, odd \in BOOLEAN :
    st = [in |-> in, skip |-> skip, code |-> code, had |-> had, label |-> label, odd |-> odd]

LEMMA SyntaxIs ==
  ASSUME NEW sx, IsSyntax(sx)
  PROVE  /\ Quotes \cap Waits(sx) = {} /\ "" \notin Quotes \cup Waits(sx)
         /\ \A x \in Waits(sx) : x \notin Quotes /\ x # "" /\ x # "esc" /\ x \notin Openers(Pairs(sx)) /\ x \notin sx.line \cup sx.embLine
         /\ \A s \in Closers(sx) : s \in Signs(sx) /\ s # "eol" /\ s # " " /\ s # Marker
         /\ \A s \in sx.line \cup sx.embLine \cup Openers(Pairs(sx)) :
              s \in Signs(sx) /\ s \notin Quotes /\ s # "esc" /\ s \notin Waits(sx) /\ s # " " /\ s # Marker
         /\ \A s \in Quotes \cup {"esc"} : s \in Signs(sx)
<1>1. "" \notin Quotes /\ "eol" \notin Quotes /\ "esc" \notin Quotes /\ "eol" # "" /\ "eol" # "esc"
  BY DEF Quotes
<1> QED
  BY <1>1, Zenon DEF IsSyntax, Waits, Signs

LEMMA OpensIs ==
  ASSUME NEW sx, IsSyntax(sx), NEW s, NEW first
  PROVE  /\ Opens(s, first, sx) \in {""} \cup Waits(sx)
         /\ Opens(s, first, sx) # "" => s \in sx.line \cup sx.embLine \cup Openers(Pairs(sx))
         /\ s \in sx.line \cup (IF first THEN sx.embLine ELSE {}) <=> Opens(s, first, sx) = "eol"
         /\ s \in Openers(sx.block) \cup (IF first THEN Openers(sx.embBlock) ELSE {}) <=> Opens(s, first, sx) \in Closers(sx)
         /\ \A p \in Pairs(sx) : s = p.o /\ Opens(s, first, sx) # "" => Opens(s, first, sx) = p.c
<1> DEFINE L == sx.line \cup (IF first THEN sx.embLine ELSE {})
           B == Openers(sx.block) \cup (IF first THEN Openers(sx.embBlock) ELSE {})
<1>1. L \subseteq sx.line \cup sx.embLine /\ B \subseteq Openers(Pairs(sx))
  BY DEF Openers, Pairs
<1>2. L \cap B = {}
  BY <1>1 DEF IsSyntax
<1>3. ASSUME NEW p \in Pairs(sx), s = p.o PROVE CloserOf(sx, s) = p.c /\ CloserOf(sx, s) \in Closers(sx)
  <2>1. PICK x \in Pairs(sx) : x.o = s /\ CloserOf(sx, s) = x.c
    BY <1>3 DEF CloserOf
  <2> QED
    BY <1>3, <2>1 DEF IsSyntax, Closers
<1>4. s \in B => \E p \in Pairs(sx) : s = p.o
  BY <1>1 DEF Openers
<1>5. Opens(s, first, sx) = IF s \in L THEN "eol" ELSE IF s \in B THEN CloserOf(sx, s) ELSE ""
  BY DEF Opens
<1>6. "eol" \notin Closers(sx) /\ "" \notin Closers(sx) /\ "eol" # ""
  BY SyntaxIs DEF Waits
<1>7. s \in B => CloserOf(sx, s) \in Closers(sx)
  BY <1>3, <1>4
<1>8. \A p \in Pairs(sx) : s = p.o => s \notin L
  BY <1>1 DEF IsSyntax, Openers
<1> HIDE DEF L, B
<1>9. /\ Opens(s, first, sx) \in {""} \cup Waits(sx)
      /\ Opens(s, first, sx) # "" => s \in L \cup B
      /\ s \in L <=> Opens(s, first, sx) = "eol"
      /\ s \in B <=> Opens(s, first, sx) \in Closers(sx)
  BY <1>2, <1>5, <1>6, <1>7 DEF Waits
<1>10. \A p \in Pairs(sx) : s = p.o /\ Opens(s, first, sx) # "" => Opens(s, first, sx) = p.c
  BY <1>3, <1>5, <1>8
<1> QED
  BY <1>1, <1>9, <1>10 DEF L, B

LEMMA StateHas ==
  ASSUME NEW in, NEW code, NEW skip \in BOOLEAN, NEW had \in BOOLEAN, NEW label \in BOOLEAN, NEW odd \in BOOLEAN,
         NEW st, st = [in |-> in, skip |-> skip, code |-> code, had |-> had, label |-> label, odd |-> odd]
  PROVE  /\ IsState(st) /\ st.in = in /\ st.skip = skip /\ st.code = code
         /\ st.had = had /\ st.label = label /\ st.odd = odd
BY DEF IsState

\* One symbol: t is what the reader makes of s in st.
Reads(st, s, t, opens, sx) ==
  /\ IsState(t)
  /\ (st.odd => t.odd) /\ (st.had => t.had) /\ (st.label => t.label)
  /\ st.skip => /\ t.in = st.in /\ ~t.skip /\ t.code = Append(st.code, s) /\ t.label = st.label
                /\ st.in = "" /\ s \in Signs(sx) => t.odd
  /\ ~st.skip /\ st.in \in Quotes =>
       /\ t.in = (IF s = st.in THEN "" ELSE st.in) /\ t.skip = (s = "esc") /\ t.code = Append(st.code, s)
       /\ t.label = st.label
  /\ ~st.skip /\ st.in = "" /\ opens # "" =>
       /\ t.in = opens /\ ~t.skip /\ t.code = st.code /\ t.had /\ (st.had => t.odd) /\ t.label = st.label
  /\ ~st.skip /\ st.in = "" /\ opens = "" =>
       /\ t.in = (IF s \in Quotes THEN s ELSE "") /\ t.skip = (s = "esc")
       /\ t.code = (IF s = " " THEN st.code ELSE Append(st.code, s)) /\ t.label = st.label
       /\ s \in Signs(sx) \ (Quotes \cup {"esc"}) => t.odd
  /\ ~st.skip /\ st.in \notin Quotes \cup {""} /\ s = st.in => t.in = "" /\ ~t.skip /\ t.code = st.code /\ t.label = st.label
  /\ ~st.skip /\ st.in \notin Quotes \cup {""} /\ s # st.in =>
       /\ t.in = st.in /\ ~t.skip /\ t.code = st.code /\ (t.label <=> st.label \/ s = Marker)
       /\ s \in Signs(sx) => t.odd

LEMMA ReadIs ==
  ASSUME NEW sx, IsSyntax(sx), NEW st, IsState(st), NEW s, NEW first,
         NEW t, t = Read(st, s, first, sx), NEW opens, opens = Opens(s, first, sx)
  PROVE  Reads(st, s, t, opens, sx)
<1>1. PICK in, code : \E skip, had, label, odd \in BOOLEAN :
        st = [in |-> in, skip |-> skip, code |-> code, had |-> had, label |-> label, odd |-> odd]
  BY DEF IsState
<1>2. PICK skip \in BOOLEAN, had \in BOOLEAN, label \in BOOLEAN, odd \in BOOLEAN :
        st = [in |-> in, skip |-> skip, code |-> code, had |-> had, label |-> label, odd |-> odd]
  BY <1>1
<1>3. st.in = in /\ st.skip = skip /\ st.code = code /\ st.had = had /\ st.label = label /\ st.odd = odd
  BY <1>2
<1>4. "" \notin Quotes
  BY SyntaxIs
<1>5. CASE skip
  <2> DEFINE i == in
             k == FALSE
             c == Append(code, s)
             h == had
             b == label
             o == odd \/ (in = "" /\ s \in Signs(sx))
  <2>1. t = [in |-> i, skip |-> k, code |-> c, had |-> h, label |-> b, odd |-> o]
    BY <1>2, <1>3, <1>4, <1>5 DEF Read
  <2>2. k \in BOOLEAN /\ h \in BOOLEAN /\ b \in BOOLEAN /\ o \in BOOLEAN
    OBVIOUS
  <2>3. IsState(t) /\ t.in = i /\ t.skip = k /\ t.code = c /\ t.had = h /\ t.label = b /\ t.odd = o
    <3> HIDE DEF i, k, c, h, b, o
    <3> QED
      BY <2>1, <2>2, StateHas
  <2> QED
    BY <1>3, <1>4, <1>5, <2>3 DEF Reads
<1>6. CASE ~skip /\ in \in Quotes
  <2> DEFINE i == IF s = in THEN "" ELSE in
             k == s = "esc"
             c == Append(code, s)
             h == had
             b == label
             o == odd
  <2>1. t = [in |-> i, skip |-> k, code |-> c, had |-> h, label |-> b, odd |-> o]
    BY <1>2, <1>3, <1>4, <1>6 DEF Read
  <2>2. k \in BOOLEAN /\ h \in BOOLEAN /\ b \in BOOLEAN /\ o \in BOOLEAN
    OBVIOUS
  <2>3. IsState(t) /\ t.in = i /\ t.skip = k /\ t.code = c /\ t.had = h /\ t.label = b /\ t.odd = o
    <3> HIDE DEF i, k, c, h, b, o
    <3> QED
      BY <2>1, <2>2, StateHas
  <2> QED
    BY <1>3, <1>4, <1>6, <2>3 DEF Reads
<1>7. CASE ~skip /\ in = "" /\ opens # ""
  <2> DEFINE i == opens
             k == FALSE
             c == code
             h == TRUE
             b == label
             o == odd \/ had
  <2>1. t = [in |-> i, skip |-> k, code |-> c, had |-> h, label |-> b, odd |-> o]
    BY <1>2, <1>3, <1>4, <1>7 DEF Read, ReadCode
  <2>2. k \in BOOLEAN /\ h \in BOOLEAN /\ b \in BOOLEAN /\ o \in BOOLEAN
    OBVIOUS
  <2>3. IsState(t) /\ t.in = i /\ t.skip = k /\ t.code = c /\ t.had = h /\ t.label = b /\ t.odd = o
    <3> HIDE DEF i, k, c, h, b, o
    <3> QED
      BY <2>1, <2>2, StateHas
  <2> QED
    BY <1>3, <1>4, <1>7, <2>3 DEF Reads
<1>8. CASE ~skip /\ in = "" /\ opens = ""
  <2> DEFINE i == IF s \in Quotes THEN s ELSE ""
             k == s = "esc"
             c == IF s = " " THEN code ELSE Append(code, s)
             h == had
             b == label
             o == odd \/ s \in Signs(sx) \ (Quotes \cup {"esc"})
  <2>1. t = [in |-> i, skip |-> k, code |-> c, had |-> h, label |-> b, odd |-> o]
    BY <1>2, <1>3, <1>4, <1>8 DEF Read, ReadCode
  <2>2. k \in BOOLEAN /\ h \in BOOLEAN /\ b \in BOOLEAN /\ o \in BOOLEAN
    OBVIOUS
  <2>3. IsState(t) /\ t.in = i /\ t.skip = k /\ t.code = c /\ t.had = h /\ t.label = b /\ t.odd = o
    <3> HIDE DEF i, k, c, h, b, o
    <3> QED
      BY <2>1, <2>2, StateHas
  <2> QED
    BY <1>3, <1>4, <1>8, <2>3 DEF Reads
<1>9. CASE ~skip /\ in \notin Quotes \cup {""} /\ s = in
  <2> DEFINE i == ""
             k == FALSE
             c == code
             h == had
             b == label
             o == odd
  <2>1. t = [in |-> i, skip |-> k, code |-> c, had |-> h, label |-> b, odd |-> o]
    BY <1>2, <1>3, <1>4, <1>9 DEF Read
  <2>2. k \in BOOLEAN /\ h \in BOOLEAN /\ b \in BOOLEAN /\ o \in BOOLEAN
    OBVIOUS
  <2>3. IsState(t) /\ t.in = i /\ t.skip = k /\ t.code = c /\ t.had = h /\ t.label = b /\ t.odd = o
    <3> HIDE DEF i, k, c, h, b, o
    <3> QED
      BY <2>1, <2>2, StateHas
  <2> QED
    BY <1>3, <1>4, <1>9, <2>3 DEF Reads
<1>10. CASE ~skip /\ in \notin Quotes \cup {""} /\ s # in
  <2> DEFINE i == in
             k == FALSE
             c == code
             h == had
             b == label \/ s = Marker
             o == odd \/ s \in Signs(sx)
  <2>1. t = [in |-> i, skip |-> k, code |-> c, had |-> h, label |-> b, odd |-> o]
    BY <1>2, <1>3, <1>4, <1>10 DEF Read
  <2>2. k \in BOOLEAN /\ h \in BOOLEAN /\ b \in BOOLEAN /\ o \in BOOLEAN
    OBVIOUS
  <2>3. IsState(t) /\ t.in = i /\ t.skip = k /\ t.code = c /\ t.had = h /\ t.label = b /\ t.odd = o
    <3> HIDE DEF i, k, c, h, b, o
    <3> QED
      BY <2>1, <2>2, StateHas
  <2> QED
    BY <1>3, <1>4, <1>10, <2>3 DEF Reads
<1> QED
  BY <1>5, <1>6, <1>7, <1>8, <1>9, <1>10

LEMMA LineIs == ASSUME NEW l, IsLine(l) PROVE Len(l) \in Nat /\ DOMAIN l = 1..Len(l) /\ IsList(l)
<1>1. PICK S : l \in Seq(S)
  BY DEF IsLine, IsList
<1> QED
  BY <1>1 DEF IsList

\* The reader before a row, and a row gone through.
Begin(c) == [in |-> c, skip |-> FALSE, code |-> <<>>, had |-> c # "", label |-> FALSE, odd |-> FALSE]
Through(st, l, c, sx) ==
  /\ st[0] = Begin(c)
  /\ \A i \in 1..Len(l) : st[i] = Read(st[i - 1], l[i], i = Lead(l), sx)
ScannedTo(f, n, l, c, sx) == f = [i \in 0..n |-> IF i = 0 THEN Begin(c) ELSE Read(f[i - 1], l[i], i = Lead(l), sx)]

LEMMA ScanGoesThrough ==
  ASSUME NEW sx, NEW l, Len(l) \in Nat, NEW c
  PROVE  Through(Scan(l, c, sx), l, c, sx)
<1> DEFINE There == {n \in 0..Len(l) : \E f : ScannedTo(f, n, l, c, sx)}
<1>1. 0 \in There
  <2> DEFINE f == [i \in 0..0 |-> Begin(c)]
  <2>1. ScannedTo(f, 0, l, c, sx)
    BY DEF ScannedTo
  <2> QED
    BY <2>1
<1>2. ASSUME NEW n \in 0..(Len(l) - 1), n \in There PROVE n + 1 \in There
  <2>1. PICK f : ScannedTo(f, n, l, c, sx)
    BY <1>2
  <2> DEFINE next == Read(f[n], l[n + 1], n + 1 = Lead(l), sx)
             g == [i \in 0..(n + 1) |-> IF i = n + 1 THEN next ELSE f[i]]
             first(i) == i = Lead(l)
  <2>2. ASSUME NEW i \in 0..(n + 1)
        PROVE  g[i] = IF i = 0 THEN Begin(c) ELSE Read(g[i - 1], l[i], first(i), sx)
    <3>1. CASE i = n + 1
      <4>1. g[i] = next /\ i # 0 /\ i - 1 = n /\ g[n] = f[n]
        BY <3>1
      <4> HIDE DEF g
      <4> QED
        BY <3>1, <4>1
    <3>2. CASE i = 0
      <4>1. g[i] = f[0] /\ f[0] = Begin(c)
        BY <2>1, <3>2 DEF ScannedTo
      <4> QED
        BY <3>2, <4>1
    <3>3. CASE i \in 1..n
      <4>1. g[i] = f[i] /\ g[i - 1] = f[i - 1] /\ i # 0
        BY <3>3
      <4>2. f[i] = Read(f[i - 1], l[i], first(i), sx)
        BY <2>1, <3>3 DEF ScannedTo
      <4> HIDE DEF g
      <4> QED
        BY <4>1, <4>2
    <3> QED
      BY <3>1, <3>2, <3>3
  <2>3. g = [i \in 0..(n + 1) |-> g[i]]
    OBVIOUS
  <2>4. ScannedTo(g, n + 1, l, c, sx)
    <3> HIDE DEF g
    <3> QED
      BY <2>2, <2>3 DEF ScannedTo
  <2> QED
    BY <2>4
<1>3. Len(l) \in There
  <2> HIDE DEF There
  <2>1. \A i \in 0..(Len(l) - 1) : i \in There => i + 1 \in There
    BY <1>2
  <2>2. \A i \in 0..Len(l) : i \in There
    BY <1>1, <2>1, Upwards
  <2> QED
    BY <2>2
<1> DEFINE after == CHOOSE f : ScannedTo(f, Len(l), l, c, sx)
<1>4. ScannedTo(after, Len(l), l, c, sx)
  BY <1>3
<1>5. Scan(l, c, sx) = after
  BY Zenon DEF Scan, Begin, ScannedTo
<1> HIDE DEF after
<1> QED
  BY <1>4, <1>5 DEF Through, ScannedTo

\* The quotes, likewise.
Quoted(st, s) ==
  IF st.skip THEN [st EXCEPT !.skip = FALSE]
  ELSE IF s = "esc" THEN [st EXCEPT !.skip = TRUE]
  ELSE IF st.in # "" THEN [st EXCEPT !.in = IF s = @ THEN "" ELSE @]
  ELSE [st EXCEPT !.in = IF s \in Quotes THEN s ELSE ""]
Unquoted == [in |-> "", skip |-> FALSE]
QuotedTo(f, n, l) == f = [i \in 0..n |-> IF i = 0 THEN Unquoted ELSE Quoted(f[i - 1], l[i])]

LEMMA QuotingGoesThrough ==
  ASSUME NEW l, Len(l) \in Nat
  PROVE  /\ Quoting(l)[0] = Unquoted
         /\ \A i \in 1..Len(l) : Quoting(l)[i] = Quoted(Quoting(l)[i - 1], l[i])
<1> DEFINE There == {n \in 0..Len(l) : \E f : QuotedTo(f, n, l)}
<1>1. 0 \in There
  <2> DEFINE f == [i \in 0..0 |-> Unquoted]
  <2>1. QuotedTo(f, 0, l)
    BY DEF QuotedTo
  <2> QED
    BY <2>1
<1>2. ASSUME NEW n \in 0..(Len(l) - 1), n \in There PROVE n + 1 \in There
  <2>1. PICK f : QuotedTo(f, n, l)
    BY <1>2
  <2> DEFINE g == [i \in 0..(n + 1) |-> IF i = n + 1 THEN Quoted(f[n], l[n + 1]) ELSE f[i]]
  <2>2. ASSUME NEW i \in 0..(n + 1) PROVE g[i] = IF i = 0 THEN Unquoted ELSE Quoted(g[i - 1], l[i])
    BY <2>1 DEF QuotedTo
  <2>3. g = [i \in 0..(n + 1) |-> g[i]]
    OBVIOUS
  <2>4. QuotedTo(g, n + 1, l)
    <3> HIDE DEF g
    <3> QED
      BY <2>2, <2>3 DEF QuotedTo
  <2> QED
    BY <2>4
<1>3. Len(l) \in There
  <2> HIDE DEF There
  <2>1. \A i \in 0..(Len(l) - 1) : i \in There => i + 1 \in There
    BY <1>2
  <2>2. \A i \in 0..Len(l) : i \in There
    BY <1>1, <2>1, Upwards
  <2> QED
    BY <2>2
<1> DEFINE after == CHOOSE f : QuotedTo(f, Len(l), l)
<1>4. QuotedTo(after, Len(l), l)
  BY <1>3
<1>5. Quoting(l) = after
  BY Zenon DEF Quoting, Quoted, Unquoted, QuotedTo
<1> HIDE DEF after
<1> QED
  BY <1>4, <1>5 DEF QuotedTo

\* What the reader's state may be, after any of the symbols.
IsReader(st, sx) ==
  IsState(st) /\ st.in \in {""} \cup Quotes \cup Waits(sx) /\ (st.skip => st.in \in {""} \cup Quotes)

LEMMA BeginIs ==
  ASSUME NEW c
  PROVE  /\ IsState(Begin(c)) /\ Begin(c).in = c /\ ~Begin(c).skip /\ Begin(c).code = <<>> /\ (Begin(c).had <=> c # "")
         /\ ~Begin(c).label /\ ~Begin(c).odd
<1> DEFINE h == c # ""
           k == FALSE
           b == Begin(c)
           e == <<>>
<1>1. h \in BOOLEAN /\ k \in BOOLEAN /\ b = [in |-> c, skip |-> k, code |-> e, had |-> h, label |-> k, odd |-> k]
  BY DEF Begin
<1>2. IsState(b) /\ b.in = c /\ b.skip = k /\ b.code = e /\ b.had = h /\ b.label = k /\ b.odd = k
  <2> HIDE DEF h, k, b, e
  <2> QED
    BY <1>1, StateHas
<1> QED
  BY <1>2

\* What a row may begin in.
MayBegin(c, sx) == c \in {""} \cup Closers(sx)

\* A row gone through, step by step.
Goes(st, l, n, c, sx) ==
  /\ n \in Nat /\ n = Len(l) /\ st[0] = Begin(c)
  /\ \A i \in 0..n : IsReader(st[i], sx)
  /\ \A i \in 1..n : Reads(st[i - 1], l[i], st[i], Opens(l[i], i = Lead(l), sx), sx)

LEMMA StateIs ==
  ASSUME NEW st, IsState(st)
  PROVE  st.skip \in BOOLEAN /\ st.had \in BOOLEAN /\ st.label \in BOOLEAN /\ st.odd \in BOOLEAN
<1>1. PICK in, code : \E skip, had, label, odd \in BOOLEAN :
        st = [in |-> in, skip |-> skip, code |-> code, had |-> had, label |-> label, odd |-> odd]
  BY DEF IsState
<1>2. PICK skip \in BOOLEAN, had \in BOOLEAN, label \in BOOLEAN, odd \in BOOLEAN :
        st = [in |-> in, skip |-> skip, code |-> code, had |-> had, label |-> label, odd |-> odd]
  BY <1>1
<1> QED
  BY <1>2

LEMMA ReaderStays ==
  ASSUME NEW sx, IsSyntax(sx), NEW x, IsReader(x, sx), NEW s, NEW first, NEW y, y = Read(x, s, first, sx)
  PROVE  IsReader(y, sx) /\ Reads(x, s, y, Opens(s, first, sx), sx)
<1>1. PICK opens : opens = Opens(s, first, sx)
  OBVIOUS
<1>2. opens \in {""} \cup Waits(sx)
  BY <1>1, OpensIs
<1>3. IsState(x) /\ x.in \in {""} \cup Quotes \cup Waits(sx) /\ (x.skip => x.in \in {""} \cup Quotes)
  BY DEF IsReader
<1>4. Reads(x, s, y, opens, sx)
  BY <1>1, <1>3, ReadIs
<1>5. x.skip \in BOOLEAN /\ IsState(y)
  <2>1. IsState(y)
    BY <1>4 DEF Reads
  <2> QED
    BY <1>3, <2>1, StateIs
<1>6. y.in \in {""} \cup Quotes \cup Waits(sx) /\ (y.skip => y.in \in {""} \cup Quotes)
  <2>1. CASE x.skip
    BY <1>3, <1>4, <2>1 DEF Reads
  <2>2. CASE ~x.skip /\ x.in \in Quotes
    BY <1>4, <2>2 DEF Reads
  <2>3. CASE ~x.skip /\ x.in = "" /\ opens # ""
    BY <1>2, <1>4, <2>3 DEF Reads
  <2>4. CASE ~x.skip /\ x.in = "" /\ opens = ""
    BY <1>4, <2>4 DEF Reads
  <2>5. CASE ~x.skip /\ x.in \notin Quotes \cup {""}
    BY <1>3, <1>4, <2>5 DEF Reads
  <2> QED
    BY <1>5, <2>1, <2>2, <2>3, <2>4, <2>5
<1> QED
  BY <1>1, <1>4, <1>5, <1>6 DEF IsReader

LEMMA ScanGoes ==
  ASSUME NEW sx, IsSyntax(sx), NEW l, Len(l) \in Nat, NEW c, MayBegin(c, sx)
  PROVE  Goes(Scan(l, c, sx), l, Len(l), c, sx)
<1>1. PICK st : st = Scan(l, c, sx)
  OBVIOUS
<1>2. PICK n \in Nat : n = Len(l)
  OBVIOUS
<1>3. st[0] = Begin(c) /\ \A i \in 1..n : st[i] = Read(st[i - 1], l[i], i = Lead(l), sx)
  <2>1. Through(st, l, c, sx)
    BY <1>1, ScanGoesThrough
  <2> QED
    BY <1>2, <2>1 DEF Through
<1>4. IsReader(st[0], sx)
  <2>1. IsState(Begin(c)) /\ Begin(c).in = c /\ ~Begin(c).skip
    BY BeginIs
  <2>2. c \in {""} \cup Quotes \cup Waits(sx)
    BY DEF Waits, MayBegin
  <2>3. IsReader(Begin(c), sx)
    BY <2>1, <2>2 DEF IsReader
  <2> QED
    BY <1>3, <2>3
<1>5. ASSUME NEW i \in 0..(n - 1), IsReader(st[i], sx) PROVE IsReader(st[i + 1], sx)
  <2>1. i + 1 \in 1..n /\ i + 1 - 1 = i
    OBVIOUS
  <2>2. PICK s, first : st[i + 1] = Read(st[i], s, first, sx)
    BY <1>3, <2>1
  <2> QED
    BY <1>5, <2>2, ReaderStays
<1>7. \A i \in 0..n : IsReader(st[i], sx)
  <2> DEFINE S == {i \in 0..n : IsReader(st[i], sx)}
  <2>1. 0 \in S /\ \A i \in 0..(n - 1) : i \in S => i + 1 \in S
    BY <1>4, <1>5
  <2>2. \A i \in S : IsReader(st[i], sx)
    OBVIOUS
  <2> HIDE DEF S
  <2>3. \A i \in 0..n : i \in S
    BY <2>1, Upwards
  <2> QED
    BY <2>2, <2>3
<1>8. ASSUME NEW i \in 1..n PROVE Reads(st[i - 1], l[i], st[i], Opens(l[i], i = Lead(l), sx), sx)
  <2>1. i - 1 \in 0..n
    OBVIOUS
  <2>2. IsReader(st[i - 1], sx) /\ st[i] = Read(st[i - 1], l[i], i = Lead(l), sx)
    BY <1>3, <1>7, <2>1
  <2> QED
    BY <2>2, ReaderStays
<1> QED
  BY <1>1, <1>2, <1>3, <1>7, <1>8 DEF Goes

LEMMA UpFrom ==
  ASSUME NEW n \in Nat, NEW a \in 0..n, NEW S, a \in S, \A i \in a..(n - 1) : i \in S => i + 1 \in S
  PROVE  \A i \in a..n : i \in S
<1> DEFINE R == {i \in 0..n : i < a \/ i \in S}
<1>1. 0 \in R
  OBVIOUS
<1>2. ASSUME NEW i \in 0..(n - 1), i \in R PROVE i + 1 \in R
  <2>1. CASE i + 1 < a
    BY <2>1
  <2>2. CASE i + 1 = a
    BY <2>2
  <2>3. CASE i >= a
    <3>1. i \in a..(n - 1) /\ i \in S
      BY <1>2, <2>3
    <3> QED
      BY <3>1
  <2> QED
    BY <2>1, <2>2, <2>3
<1>3. \A i \in a..n : i \in R => i \in S
  OBVIOUS
<1> HIDE DEF R
<1>4. \A i \in 0..n : i \in R
  BY <1>1, <1>2, Upwards
<1> QED
  BY <1>3, <1>4

LEMMA EachStep ==
  ASSUME NEW sx, NEW l, NEW n, NEW c, NEW st, Goes(st, l, n, c, sx), NEW i \in 0..(n - 1)
  PROVE  /\ n \in Nat /\ i \in 0..n /\ i + 1 \in 0..n /\ i + 1 \in 1..n /\ IsReader(st[i], sx) /\ IsReader(st[i + 1], sx)
         /\ Reads(st[i], l[i + 1], st[i + 1], Opens(l[i + 1], i + 1 = Lead(l), sx), sx)
<1>1. n \in Nat
  BY DEF Goes
<1>2. i \in 0..n /\ i + 1 \in 0..n /\ i + 1 \in 1..n /\ i + 1 - 1 = i
  BY <1>1
<1> QED
  BY <1>1, <1>2 DEF Goes

\* What has been met stays met.
LEMMA Lasts ==
  ASSUME NEW sx, NEW l, NEW n, NEW c, NEW st, Goes(st, l, n, c, sx), NEW i \in 0..n, NEW j \in i..n
  PROVE  (st[i].odd => st[j].odd) /\ (st[i].had => st[j].had) /\ (st[i].label => st[j].label)
<1>0. n \in Nat
  BY DEF Goes
<1>1. \A k \in 0..(n - 1) : (st[k].odd => st[k + 1].odd) /\ (st[k].had => st[k + 1].had) /\ (st[k].label => st[k + 1].label)
  BY EachStep DEF Reads
<1> DEFINE S == {k \in i..n : (st[i].odd => st[k].odd) /\ (st[i].had => st[k].had) /\ (st[i].label => st[k].label)}
<1>2. i \in S /\ \A k \in i..(n - 1) : k \in S => k + 1 \in S
  BY <1>0, <1>1
<1>3. \A k \in S : (st[i].odd => st[k].odd) /\ (st[i].had => st[k].had) /\ (st[i].label => st[k].label)
  OBVIOUS
<1> HIDE DEF S
<1>4. \A k \in i..n : k \in S
  BY <1>0, <1>2, UpFrom
<1> QED
  BY <1>3, <1>4

\* A row in which a reader meets nothing a stripper could not tell from the text.
PlainRow(st, l, n, c, sx) == IsSyntax(sx) /\ IsLine(l) /\ Goes(st, l, n, c, sx) /\ ~st[n].odd

LEMMA PlainAllAlong ==
  ASSUME NEW sx, NEW l, NEW n, NEW c, NEW st, PlainRow(st, l, n, c, sx)
  PROVE  n \in Nat /\ n = Len(l) /\ st[0] = Begin(c) /\ \A i \in 0..n : ~st[i].odd /\ IsReader(st[i], sx)
<1>1. n \in Nat /\ n = Len(l) /\ st[0] = Begin(c) /\ (\A i \in 0..n : IsReader(st[i], sx)) /\ Goes(st, l, n, c, sx) /\ ~st[n].odd
  BY DEF PlainRow, Goes
<1>2. ASSUME NEW i \in 0..n PROVE ~st[i].odd
  <2>1. n \in i..n
    BY <1>1
  <2> QED
    BY <1>1, <2>1, Lasts
<1> QED
  BY <1>1, <1>2

Commented(x, sx) == x.in \in Waits(sx)

LEMMA CommentedIs ==
  ASSUME NEW sx, IsSyntax(sx), NEW x, IsReader(x, sx), Commented(x, sx)
  PROVE  ~x.skip /\ x.in # "" /\ x.in \notin Quotes
BY SyntaxIs DEF IsReader, Commented

\* One step of a plain row, by what the symbol is read in.
Plainly(x, s, y, opens, sx) ==
  /\ (x.had => y.had) /\ (x.label => y.label)
  /\ Commented(x, sx) /\ s = x.in => ~Commented(y, sx) /\ y.in = "" /\ ~y.skip /\ y.code = x.code /\ y.label = x.label
  /\ Commented(x, sx) /\ s # x.in => /\ Commented(y, sx) /\ y.in = x.in /\ y.code = x.code /\ s \notin Signs(sx)
                                      /\ (y.label <=> x.label \/ s = Marker)
  /\ ~Commented(x, sx) => y.label = x.label
  /\ ~Commented(x, sx) /\ Commented(y, sx) =>
       x.in = "" /\ ~x.skip /\ opens # "" /\ y.in = opens /\ y.code = x.code /\ ~x.had /\ y.had
  /\ x.in = "" /\ ~x.skip /\ opens # "" => Commented(y, sx)
  /\ x.in = "" /\ x.skip => s \notin Signs(sx)
  /\ x.in = "" /\ ~x.skip /\ opens = "" => s \notin Signs(sx) \ (Quotes \cup {"esc"})

LEMMA PlainStep ==
  ASSUME NEW sx, NEW l, NEW n, NEW c, NEW st, PlainRow(st, l, n, c, sx), NEW i \in 0..(n - 1)
  PROVE  Plainly(st[i], l[i + 1], st[i + 1], Opens(l[i + 1], i + 1 = Lead(l), sx), sx)
<1>0. PICK x, y, s, opens : x = st[i] /\ y = st[i + 1] /\ s = l[i + 1] /\ opens = Opens(s, i + 1 = Lead(l), sx)
  OBVIOUS
<1>1. IsReader(x, sx) /\ IsReader(y, sx) /\ Reads(x, s, y, opens, sx) /\ IsSyntax(sx)
  BY <1>0, EachStep DEF PlainRow
<1>2. ~y.odd
  BY <1>0, PlainAllAlong, EachStep DEF PlainRow
<1>3. x.skip \in BOOLEAN /\ y.label \in BOOLEAN /\ x.label \in BOOLEAN /\ x.in \in {""} \cup Quotes \cup Waits(sx) /\ (x.skip => x.in \in {""} \cup Quotes)
  BY <1>1, StateIs DEF IsReader
<1> SUFFICES Plainly(x, s, y, opens, sx)
  BY <1>0
<1>4. opens \in {""} \cup Waits(sx) /\ Quotes \cap Waits(sx) = {} /\ "" \notin Quotes \cup Waits(sx)
  BY <1>0, <1>1, OpensIs, SyntaxIs
<1>5. (x.had => y.had) /\ (x.label => y.label)
  BY <1>1 DEF Reads
<1>6. CASE x.skip
  <2>1. y.in = x.in /\ y.label = x.label /\ (x.in = "" => s \notin Signs(sx))
    BY <1>1, <1>2, <1>6 DEF Reads
  <2> QED
    BY <1>3, <1>4, <1>5, <1>6, <2>1 DEF Commented, Plainly
<1>7. CASE ~x.skip /\ x.in \in Quotes
  <2>1. y.in \in {x.in, ""} /\ y.label = x.label
    BY <1>1, <1>7 DEF Reads
  <2> QED
    BY <1>3, <1>4, <1>5, <1>7, <2>1 DEF Commented, Plainly
<1>8. CASE ~x.skip /\ x.in = "" /\ opens # ""
  <2>1. y.in = opens /\ y.code = x.code /\ y.had /\ ~x.had /\ y.label = x.label
    BY <1>1, <1>2, <1>8 DEF Reads
  <2> QED
    BY <1>3, <1>4, <1>5, <1>8, <2>1 DEF Commented, Plainly
<1>9. CASE ~x.skip /\ x.in = "" /\ opens = ""
  <2>1. y.in \in Quotes \cup {""} /\ y.label = x.label /\ s \notin Signs(sx) \ (Quotes \cup {"esc"})
    BY <1>1, <1>2, <1>9 DEF Reads
  <2> QED
    BY <1>3, <1>4, <1>5, <1>9, <2>1 DEF Commented, Plainly
<1>10. CASE ~x.skip /\ x.in \in Waits(sx)
  <2>1. x.in \notin Quotes \cup {""}
    BY <1>4, <1>10
  <2>2. s = x.in => y.in = "" /\ ~y.skip /\ y.code = x.code /\ y.label = x.label
    BY <1>1, <1>10, <2>1 DEF Reads
  <2>3. s # x.in => y.in = x.in /\ y.code = x.code /\ (y.label <=> x.label \/ s = Marker) /\ s \notin Signs(sx)
    BY <1>1, <1>2, <1>10, <2>1 DEF Reads
  <2> QED
    BY <1>4, <1>5, <1>10, <2>1, <2>2, <2>3 DEF Commented, Plainly
<1> QED
  BY <1>3, <1>6, <1>7, <1>8, <1>9, <1>10

\* Whoever is in a comment has met one.
LEMMA CommentMet ==
  ASSUME NEW sx, NEW l, NEW n, NEW c, NEW st, PlainRow(st, l, n, c, sx)
  PROVE  \A i \in 0..n : Commented(st[i], sx) => st[i].had
<1>1. n \in Nat /\ st[0] = Begin(c) /\ IsSyntax(sx)
  BY PlainAllAlong DEF PlainRow
<1> DEFINE S == {i \in 0..n : Commented(st[i], sx) => st[i].had}
<1>2. Commented(st[0], sx) => st[0].had
  <2>1. Begin(c).in = c /\ (Begin(c).had <=> c # "")
    BY BeginIs
  <2>2. "" \notin Waits(sx)
    BY <1>1, SyntaxIs
  <2> QED
    BY <1>1, <2>1, <2>2 DEF Commented
<1>3. ASSUME NEW i \in 0..(n - 1), Commented(st[i], sx) => st[i].had PROVE Commented(st[i + 1], sx) => st[i + 1].had
  BY <1>3, PlainStep DEF Plainly
<1>4. 0 \in S /\ \A i \in 0..(n - 1) : i \in S => i + 1 \in S
  BY <1>1, <1>2, <1>3
<1>5. \A i \in S : Commented(st[i], sx) => st[i].had
  OBVIOUS
<1> HIDE DEF S
<1>6. \A i \in 0..n : i \in S
  BY <1>1, <1>4, Upwards
<1> QED
  BY <1>5, <1>6

\* A comment stays open until its closer.
LEMMA StaysOpen ==
  ASSUME NEW sx, NEW l, NEW n, NEW c, NEW st, PlainRow(st, l, n, c, sx), NEW i \in 0..n, Commented(st[i], sx),
         NEW k \in i..n, \A j \in (i + 1)..k : l[j] # st[i].in
  PROVE  \A j \in i..k : /\ Commented(st[j], sx) /\ st[j].in = st[i].in /\ st[j].code = st[i].code
                         /\ j # i => l[j] \notin Signs(sx)
<1>1. n \in Nat
  BY PlainAllAlong
<1> DEFINE Ok(j) == /\ Commented(st[j], sx) /\ st[j].in = st[i].in /\ st[j].code = st[i].code
                    /\ j # i => l[j] \notin Signs(sx)
<1>2. Ok(i)
  OBVIOUS
<1>3. ASSUME NEW j \in i..(k - 1), Ok(j) PROVE Ok(j + 1)
  <2>1. j \in 0..(n - 1) /\ j + 1 \in (i + 1)..k
    BY <1>1
  <2>2. l[j + 1] # st[j].in /\ Commented(st[j], sx)
    BY <1>3, <2>1
  <2>3. PICK x, y, s, opens : x = st[j] /\ y = st[j + 1] /\ s = l[j + 1] /\ opens = Opens(s, j + 1 = Lead(l), sx)
    OBVIOUS
  <2>4. Plainly(x, s, y, opens, sx)
    BY <2>1, <2>3, PlainStep
  <2>5. Commented(x, sx) /\ s # x.in
    BY <2>2, <2>3
  <2>6. Commented(y, sx) /\ y.in = x.in /\ y.code = x.code /\ s \notin Signs(sx)
    BY ONLY <2>4, <2>5 DEF Plainly
  <2> QED
    BY <1>3, <2>3, <2>6
<1> HIDE DEF Ok
<1> DEFINE S == {j \in i..k : Ok(j)}
<1>4. i \in S /\ \A j \in i..(k - 1) : j \in S => j + 1 \in S
  BY <1>1, <1>2, <1>3
<1>5. \A j \in S : Ok(j)
  OBVIOUS
<1>6. k \in Nat /\ i \in 0..k
  BY <1>1
<1> HIDE DEF S
<1>7. \A j \in i..k : j \in S
  BY <1>4, <1>6, UpFrom
<1> QED
  BY <1>5, <1>7 DEF Ok

\* Once over, it is the last of its row.
LEMMA StaysClosed ==
  ASSUME NEW sx, NEW l, NEW n, NEW c, NEW st, PlainRow(st, l, n, c, sx), NEW i \in 0..n, ~Commented(st[i], sx), st[i].had
  PROVE  \A j \in i..n : ~Commented(st[j], sx) /\ (st[j].label => st[i].label)
<1>1. n \in Nat
  BY PlainAllAlong
<1> DEFINE Ok(j) == ~Commented(st[j], sx) /\ st[j].had /\ (st[j].label => st[i].label)
<1>2. Ok(i)
  OBVIOUS
<1>3. ASSUME NEW j \in i..(n - 1), Ok(j) PROVE Ok(j + 1)
  <2>1. j \in 0..(n - 1)
    BY <1>1
  <2> QED
    BY <1>3, <2>1, PlainStep DEF Plainly
<1> HIDE DEF Ok
<1> DEFINE S == {j \in i..n : Ok(j)}
<1>4. i \in S /\ \A j \in i..(n - 1) : j \in S => j + 1 \in S
  BY <1>1, <1>2, <1>3
<1>5. \A j \in S : Ok(j)
  OBVIOUS
<1> HIDE DEF S
<1>6. \A j \in i..n : j \in S
  BY <1>1, <1>4, UpFrom
<1> QED
  BY <1>5, <1>6 DEF Ok

InCode == ""

\* The reader meets a comment at the k-th symbol.
OpensAt(st, l, k, sx) == st[k - 1].in = "" /\ ~st[k - 1].skip /\ Opens(l[k], k = Lead(l), sx) # ""

LEMMA OpeningIs ==
  ASSUME NEW sx, NEW l, NEW n, NEW c, NEW st, PlainRow(st, l, n, c, sx), NEW k \in 1..n, OpensAt(st, l, k, sx)
  PROVE  /\ Commented(st[k], sx) /\ st[k].in = Opens(l[k], k = Lead(l), sx) /\ st[k].code = st[k - 1].code
         /\ ~st[k - 1].had /\ ~Commented(st[k - 1], sx) /\ st[k].had /\ ~st[k].label /\ c = InCode
         /\ l[k] \in sx.line \cup sx.embLine \cup Openers(Pairs(sx))
<1>1. n \in Nat /\ st[0] = Begin(c) /\ IsSyntax(sx)
  BY PlainAllAlong DEF PlainRow
<1>2. k - 1 \in 0..(n - 1) /\ k - 1 + 1 = k /\ 0 \in 0..n /\ k - 1 \in 0..n
  BY <1>1
<1>3. "" \notin Waits(sx)
  BY <1>1, SyntaxIs
<1>4. ~Commented(st[k - 1], sx)
  BY <1>3 DEF Commented, OpensAt
<1>5. /\ Commented(st[k], sx) /\ st[k].in = Opens(l[k], k = Lead(l), sx) /\ st[k].code = st[k - 1].code
      /\ ~st[k - 1].had /\ st[k].had /\ st[k].label = st[k - 1].label
  <2>1. PICK j \in 0..(n - 1) : j = k - 1 /\ j + 1 = k
    BY <1>2
  <2>2. Plainly(st[j], l[k], st[k], Opens(l[k], k = Lead(l), sx), sx)
    BY <2>1, PlainStep
  <2>3. st[j].in = "" /\ ~st[j].skip /\ Opens(l[k], k = Lead(l), sx) # "" /\ ~Commented(st[j], sx)
    BY <1>4, <2>1 DEF OpensAt
  <2>4. Commented(st[k], sx)
    BY <2>2, <2>3 DEF Plainly
  <2>5. /\ st[k].in = Opens(l[k], k = Lead(l), sx) /\ st[k].code = st[j].code /\ ~st[j].had /\ st[k].had
        /\ st[k].label = st[j].label
    BY <2>2, <2>3, <2>4 DEF Plainly
  <2> QED
    BY <2>1, <2>4, <2>5
<1>6. ~st[0].had /\ ~Commented(st[0], sx) /\ c = InCode
  <2>1. st[0].had => st[k - 1].had
    BY <1>2, Lasts DEF PlainRow
  <2>2. Begin(c).in = c /\ (Begin(c).had <=> c # "")
    BY BeginIs
  <2> QED
    BY <1>1, <1>3, <1>5, <2>1, <2>2 DEF Commented, InCode
<1>7. ~st[k - 1].label
  <2> DEFINE S == {j \in 0..(k - 1) : ~st[j].label}
  <2>1. ~st[0].label
    BY <1>1, BeginIs
  <2>2. ASSUME NEW j \in 0..(k - 1 - 1), ~st[j].label PROVE ~st[j + 1].label
    <3>1. j \in 0..(n - 1) /\ j \in 0..n /\ k - 1 \in j..n
      BY <1>1
    <3>2. ~st[j].had
      BY <1>2, <1>5, <3>1, Lasts DEF PlainRow
    <3>3. ~Commented(st[j], sx)
      BY <3>1, <3>2, CommentMet
    <3> QED
      BY <2>2, <3>1, <3>3, PlainStep DEF Plainly
  <2>3. k - 1 \in Nat
    BY <1>1
  <2>4. 0 \in S /\ \A j \in 0..(k - 1 - 1) : j \in S => j + 1 \in S
    BY <1>1, <2>1, <2>2
  <2>5. \A j \in S : ~st[j].label
    OBVIOUS
  <2> HIDE DEF S
  <2>6. \A j \in 0..(k - 1) : j \in S
    BY <2>3, <2>4, Upwards
  <2> QED
    BY <2>3, <2>5, <2>6
<1>8. l[k] \in sx.line \cup sx.embLine \cup Openers(Pairs(sx))
  BY <1>1, OpensIs DEF OpensAt
<1> QED
  BY <1>4, <1>5, <1>6, <1>7, <1>8

\* There is one opening to a row.
LEMMA OneOpening ==
  ASSUME NEW sx, NEW l, NEW n, NEW c, NEW st, PlainRow(st, l, n, c, sx),
         NEW k \in 1..n, OpensAt(st, l, k, sx), NEW m \in 1..n, OpensAt(st, l, m, sx)
  PROVE  k = m
<1>1. n \in Nat
  BY PlainAllAlong
<1>2. ASSUME NEW a \in 1..n, NEW b \in 1..n, OpensAt(st, l, a, sx), OpensAt(st, l, b, sx), a < b PROVE FALSE
  <2>1. st[a].had /\ ~st[b - 1].had
    BY <1>2, OpeningIs
  <2>2. a \in 0..n /\ b - 1 \in a..n
    BY <1>1, <1>2
  <2> QED
    BY <2>1, <2>2, Lasts DEF PlainRow
<1> QED
  BY <1>1, <1>2

\* A comment the row did not begin in was opened on it.
LEMMA WhereOpened ==
  ASSUME NEW sx, NEW l, NEW n, NEW c, NEW st, PlainRow(st, l, n, c, sx), NEW i \in 0..n, Commented(st[i], sx)
  PROVE  st[i].in = c \/ \E k \in 1..i : OpensAt(st, l, k, sx) /\ st[k].in = st[i].in
<1>1. n \in Nat /\ st[0] = Begin(c)
  BY PlainAllAlong
<1> DEFINE Ok(j) == Commented(st[j], sx) => st[j].in = c \/ \E k \in 1..j : OpensAt(st, l, k, sx) /\ st[k].in = st[j].in
<1>2. Ok(0)
  BY <1>1, BeginIs
<1>3. ASSUME NEW j \in 0..(n - 1), Ok(j) PROVE Ok(j + 1)
  <2> SUFFICES ASSUME Commented(st[j + 1], sx) PROVE st[j + 1].in = c \/ \E k \in 1..(j + 1) : OpensAt(st, l, k, sx) /\ st[k].in = st[j + 1].in
    OBVIOUS
  <2>1. CASE Commented(st[j], sx)
    <3>1. st[j + 1].in = st[j].in
      BY <2>1, PlainStep DEF Plainly
    <3>2. CASE st[j].in = c
      BY <3>1, <3>2
    <3>3. CASE \E k \in 1..j : OpensAt(st, l, k, sx) /\ st[k].in = st[j].in
      <4>1. PICK k \in 1..j : OpensAt(st, l, k, sx) /\ st[k].in = st[j].in
        BY <3>3
      <4>2. k \in 1..(j + 1)
        BY <1>1
      <4> QED
        BY <3>1, <4>1, <4>2
    <3> QED
      BY <1>3, <2>1, <3>2, <3>3
  <2>2. CASE ~Commented(st[j], sx)
    <3>1. st[j].in = "" /\ ~st[j].skip /\ Opens(l[j + 1], j + 1 = Lead(l), sx) # ""
      BY <2>2, PlainStep DEF Plainly
    <3>2. PICK k \in 1..(j + 1) : k = j + 1 /\ k - 1 = j
      BY <1>1
    <3>3. st[k - 1].in = "" /\ ~st[k - 1].skip /\ Opens(l[k], k = Lead(l), sx) # ""
      BY <3>1, <3>2
    <3>4. OpensAt(st, l, k, sx)
      BY <3>3 DEF OpensAt
    <3> QED
      BY <3>2, <3>4
  <2> QED
    BY <2>1, <2>2
<1> HIDE DEF Ok
<1> DEFINE S == {j \in 0..n : Ok(j)}
<1>4. 0 \in S /\ \A j \in 0..(n - 1) : j \in S => j + 1 \in S
  BY <1>1, <1>2, <1>3
<1>5. \A j \in S : Ok(j)
  OBVIOUS
<1> HIDE DEF S
<1>6. \A j \in 0..n : j \in S
  BY <1>1, <1>4, Upwards
<1> QED
  BY <1>5, <1>6 DEF Ok

\* What the stripper knows of a row, and when it agrees with a reader.
IsQuoting(q) == \E in : \E skip \in BOOLEAN : q = [in |-> in, skip |-> skip]
QuotesTell(q, x) == IsQuoting(q) /\ q.in = (IF x.in \in Quotes THEN x.in ELSE "") /\ (q.skip <=> x.skip)

LEMMA QuotingHas ==
  ASSUME NEW in, NEW skip \in BOOLEAN, NEW q, q = [in |-> in, skip |-> skip]
  PROVE  IsQuoting(q) /\ q.in = in /\ q.skip = skip
BY DEF IsQuoting

\* One symbol.
QuotedBy(q, s, t) ==
  /\ IsQuoting(t)
  /\ q.skip => t.in = q.in /\ ~t.skip
  /\ ~q.skip /\ s = "esc" => t.in = q.in /\ t.skip
  /\ ~q.skip /\ s # "esc" /\ q.in # "" => t.in = (IF s = q.in THEN "" ELSE q.in) /\ ~t.skip
  /\ ~q.skip /\ s # "esc" /\ q.in = "" => t.in = (IF s \in Quotes THEN s ELSE "") /\ ~t.skip

LEMMA QuotedIs ==
  ASSUME NEW q, IsQuoting(q), NEW s, NEW t, t = Quoted(q, s)
  PROVE  QuotedBy(q, s, t)
<1>1. PICK in : \E skip \in BOOLEAN : q = [in |-> in, skip |-> skip]
  BY DEF IsQuoting
<1>2. PICK skip \in BOOLEAN : q = [in |-> in, skip |-> skip]
  BY <1>1
<1>3. q.in = in /\ q.skip = skip
  BY <1>2
<1>4. CASE skip
  <2> DEFINE i == in
             k == FALSE
  <2>1. t = [in |-> i, skip |-> k] /\ k \in BOOLEAN
    BY <1>2, <1>3, <1>4 DEF Quoted
  <2>2. IsQuoting(t) /\ t.in = i /\ t.skip = k
    <3> HIDE DEF i, k
    <3> QED
      BY <2>1, QuotingHas
  <2> QED
    BY <1>3, <1>4, <2>2 DEF QuotedBy
<1>5. CASE ~skip /\ s = "esc"
  <2> DEFINE i == in
             k == TRUE
  <2>1. t = [in |-> i, skip |-> k] /\ k \in BOOLEAN
    BY <1>2, <1>3, <1>5 DEF Quoted
  <2>2. IsQuoting(t) /\ t.in = i /\ t.skip = k
    <3> HIDE DEF i, k
    <3> QED
      BY <2>1, QuotingHas
  <2> QED
    BY <1>3, <1>5, <2>2 DEF QuotedBy
<1>6. CASE ~skip /\ s # "esc" /\ in # ""
  <2> DEFINE i == IF s = in THEN "" ELSE in
             k == FALSE
  <2>1. t = [in |-> i, skip |-> k] /\ k \in BOOLEAN
    BY <1>2, <1>3, <1>6 DEF Quoted
  <2>2. IsQuoting(t) /\ t.in = i /\ t.skip = k
    <3> HIDE DEF i, k
    <3> QED
      BY <2>1, QuotingHas
  <2> QED
    BY <1>3, <1>6, <2>2 DEF QuotedBy
<1>7. CASE ~skip /\ s # "esc" /\ in = ""
  <2> DEFINE i == IF s \in Quotes THEN s ELSE ""
             k == FALSE
  <2>1. t = [in |-> i, skip |-> k] /\ k \in BOOLEAN
    BY <1>2, <1>3, <1>7 DEF Quoted
  <2>2. IsQuoting(t) /\ t.in = i /\ t.skip = k
    <3> HIDE DEF i, k
    <3> QED
      BY <2>1, QuotingHas
  <2> QED
    BY <1>3, <1>7, <2>2 DEF QuotedBy
<1> QED
  BY <1>4, <1>5, <1>6, <1>7

LEMMA QuotesStep ==
  ASSUME NEW sx, NEW l, NEW n, NEW c, NEW st, PlainRow(st, l, n, c, sx), NEW i \in 0..(n - 1), NEW q, QuotesTell(q, st[i])
  PROVE  QuotesTell(Quoted(q, l[i + 1]), st[i + 1])
<1>0. PICK x, y, s, opens, t : x = st[i] /\ y = st[i + 1] /\ s = l[i + 1] /\ opens = Opens(s, i + 1 = Lead(l), sx) /\ t = Quoted(q, s)
  OBVIOUS
<1>1. IsReader(x, sx) /\ IsReader(y, sx) /\ Reads(x, s, y, opens, sx) /\ IsSyntax(sx) /\ Plainly(x, s, y, opens, sx)
  BY <1>0, EachStep, PlainStep DEF PlainRow
<1>2. IsQuoting(q) /\ q.in = (IF x.in \in Quotes THEN x.in ELSE "") /\ (q.skip <=> x.skip)
  BY <1>0 DEF QuotesTell
<1>3. x.in \in {""} \cup Quotes \cup Waits(sx) /\ (x.skip => x.in \in {""} \cup Quotes)
  BY <1>1 DEF IsReader
<1>4. opens \in {""} \cup Waits(sx) /\ Quotes \cap Waits(sx) = {} /\ "" \notin Quotes \cup Waits(sx) /\ "esc" \notin Quotes /\ "esc" \notin Waits(sx)
  <2>1. "esc" \notin Quotes
    BY DEF Quotes
  <2> QED
    BY <1>0, <1>1, <2>1, OpensIs, SyntaxIs
<1>5. QuotedBy(q, s, t)
  BY <1>0, <1>2, QuotedIs
<1> SUFFICES t.in = (IF y.in \in Quotes THEN y.in ELSE "") /\ (t.skip <=> y.skip)
  BY <1>0, <1>5 DEF QuotesTell, QuotedBy
<1>6. CASE x.skip
  <2>1. y.in = x.in /\ ~y.skip
    BY <1>1, <1>6 DEF Reads
  <2> QED
    BY <1>2, <1>5, <1>6, <2>1 DEF QuotedBy
<1>7. CASE ~x.skip /\ x.in \in Quotes
  <2>1. y.in = (IF s = x.in THEN "" ELSE x.in) /\ y.skip = (s = "esc")
    BY <1>1, <1>7 DEF Reads
  <2>2. q.in = x.in /\ q.in # "" /\ ~q.skip
    BY <1>2, <1>4, <1>7
  <2> QED
    BY <1>4, <1>5, <1>7, <2>1, <2>2 DEF QuotedBy
<1>8. CASE ~x.skip /\ x.in \notin Quotes
  <2>1. q.in = "" /\ ~q.skip
    BY <1>2, <1>8
  <2>2. CASE x.in = "" /\ opens # ""
    <3>1. y.in = opens /\ ~y.skip /\ opens \notin Quotes
      BY <1>1, <1>4, <1>8, <2>2 DEF Reads
    <3>2. s \in sx.line \cup sx.embLine \cup Openers(Pairs(sx))
      BY <1>0, <1>1, <2>2, OpensIs
    <3>3. s \notin Quotes /\ s # "esc"
      BY <1>1, <3>2, SyntaxIs
    <3> QED
      BY <1>5, <2>1, <3>1, <3>3 DEF QuotedBy
  <2>3. CASE x.in = "" /\ opens = ""
    <3>1. y.in = (IF s \in Quotes THEN s ELSE "") /\ y.skip = (s = "esc")
      BY <1>1, <1>8, <2>3 DEF Reads
    <3> QED
      BY <1>4, <1>5, <2>1, <3>1 DEF QuotedBy
  <2>4. CASE x.in \in Waits(sx) /\ s = x.in
    <3>1. y.in = "" /\ ~y.skip /\ s \notin Quotes /\ s # "esc"
      BY <1>1, <1>4, <2>4 DEF Plainly, Commented
    <3> QED
      BY <1>4, <1>5, <2>1, <3>1 DEF QuotedBy
  <2>5. CASE x.in \in Waits(sx) /\ s # x.in
    <3>1. Commented(y, sx) /\ s \notin Signs(sx)
      BY <1>1, <2>5 DEF Plainly, Commented
    <3>2. ~y.skip /\ y.in \notin Quotes
      BY <1>1, <3>1, CommentedIs
    <3>3. s \notin Quotes /\ s # "esc"
      BY <1>1, <3>1, SyntaxIs
    <3> QED
      BY <1>5, <2>1, <3>2, <3>3 DEF QuotedBy
  <2> QED
    BY <1>3, <1>8, <2>2, <2>3, <2>4, <2>5
<1> QED
  BY <1>6, <1>7, <1>8

\* The two agree on the strings of a plain row.
LEMMA QuotesAgree ==
  ASSUME NEW sx, NEW l, NEW n, NEW c, NEW st, PlainRow(st, l, n, c, sx), MayBegin(c, sx)
  PROVE  \A i \in 0..n : QuotesTell(Quoting(l)[i], st[i])
<1>1. n \in Nat /\ n = Len(l) /\ st[0] = Begin(c) /\ IsSyntax(sx)
  BY PlainAllAlong DEF PlainRow
<1>2. Quoting(l)[0] = Unquoted /\ \A i \in 1..n : Quoting(l)[i] = Quoted(Quoting(l)[i - 1], l[i])
  BY <1>1, QuotingGoesThrough
<1>3. QuotesTell(Quoting(l)[0], st[0])
  <2> DEFINE i == ""
             k == FALSE
  <2>1. Begin(c).in = c /\ ~Begin(c).skip
    BY BeginIs
  <2>2. c \notin Quotes
    BY <1>1, SyntaxIs DEF MayBegin, Waits
  <2>3. Unquoted = [in |-> i, skip |-> k] /\ k \in BOOLEAN
    BY DEF Unquoted
  <2>4. IsQuoting(Unquoted) /\ Unquoted.in = i /\ Unquoted.skip = k
    <3> HIDE DEF i, k
    <3> QED
      BY <2>3, QuotingHas
  <2> QED
    BY <1>1, <1>2, <2>1, <2>2, <2>4 DEF QuotesTell
<1>4. ASSUME NEW i \in 0..(n - 1), QuotesTell(Quoting(l)[i], st[i]) PROVE QuotesTell(Quoting(l)[i + 1], st[i + 1])
  <2>1. PICK j \in 1..n : j = i + 1 /\ j - 1 = i
    BY <1>1
  <2>2. Quoting(l)[j] = Quoted(Quoting(l)[i], l[j])
    BY <1>2, <2>1
  <2>3. QuotesTell(Quoted(Quoting(l)[i], l[j]), st[j])
    BY <1>4, <2>1, QuotesStep
  <2> QED
    BY <2>1, <2>2, <2>3
<1> DEFINE S == {i \in 0..n : QuotesTell(Quoting(l)[i], st[i])}
<1>5. 0 \in S /\ \A i \in 0..(n - 1) : i \in S => i + 1 \in S
  BY <1>1, <1>3, <1>4
<1>6. \A i \in S : QuotesTell(Quoting(l)[i], st[i])
  OBVIOUS
<1> HIDE DEF S
<1>7. \A i \in 0..n : i \in S
  BY <1>1, <1>5, Upwards
<1> QED
  BY <1>6, <1>7

\* An opener outside the strings opens a comment.
LEMMA TokenOpens ==
  ASSUME NEW sx, NEW l, NEW n, NEW c, NEW st, PlainRow(st, l, n, c, sx), MayBegin(c, sx), NEW k \in 1..n, OutsideQuotes(l, k),
         l[k] \in sx.line \cup sx.embLine \cup Openers(Pairs(sx))
  PROVE  OpensAt(st, l, k, sx)
<1>1. n \in Nat /\ IsSyntax(sx)
  BY PlainAllAlong DEF PlainRow
<1>2. PICK i \in 0..(n - 1) : i = k - 1 /\ i + 1 = k
  BY <1>1
<1>3. PICK x, y, s, opens : x = st[i] /\ y = st[k] /\ s = l[k] /\ opens = Opens(s, k = Lead(l), sx)
  OBVIOUS
<1>4. IsReader(x, sx) /\ Plainly(x, s, y, opens, sx) /\ i \in 0..n
  BY <1>2, <1>3, EachStep, PlainStep DEF PlainRow
<1>5. s \in Signs(sx) \ (Quotes \cup {"esc"}) /\ s \notin Waits(sx) /\ "" \notin Quotes
  BY <1>1, <1>3, SyntaxIs
<1>6. x.in \in {""} \cup Quotes \cup Waits(sx)
  BY <1>4 DEF IsReader
<1>7. x.in \notin Quotes
  <2>1. QuotesTell(Quoting(l)[i], x)
    BY <1>3, <1>2, <1>4, QuotesAgree
  <2>2. Quoting(l)[i].in = ""
    BY <1>2 DEF OutsideQuotes
  <2> QED
    BY <1>5, <2>1, <2>2 DEF QuotesTell
<1>8. ~Commented(x, sx)
  BY <1>4, <1>5 DEF Plainly, Commented
<1>9. x.in = "" /\ ~x.skip /\ opens # ""
  BY <1>4, <1>5, <1>6, <1>7, <1>8 DEF Plainly, Commented
<1> QED
  BY <1>2, <1>3, <1>9 DEF OpensAt

\* ... and what the stripper takes for openers is what opens.
LEMMA OpenersAre ==
  ASSUME NEW sx, NEW l, NEW n, NEW c, NEW st, PlainRow(st, l, n, c, sx), MayBegin(c, sx), NEW m \in 1..n, NEW k
  PROVE  k \in OpenersOn(l, m, sx) <=> k \in 1..(m - 1) /\ OpensAt(st, l, k, sx)
<1>1. n \in Nat /\ IsSyntax(sx)
  BY PlainAllAlong DEF PlainRow
<1>2. ASSUME k \in OpenersOn(l, m, sx) PROVE k \in 1..(m - 1) /\ OpensAt(st, l, k, sx)
  <2>1. /\ k \in 1..(m - 1) /\ OutsideQuotes(l, k)
        /\ l[k] \in sx.line \cup Openers(sx.block) \/ l[k] \in sx.embLine \cup Openers(sx.embBlock)
    BY <1>2 DEF OpenersOn
  <2>2. l[k] \in sx.line \cup sx.embLine \cup Openers(Pairs(sx))
    BY <2>1 DEF Openers, Pairs
  <2>3. k \in 1..n
    BY <1>1, <2>1
  <2> QED
    BY <2>1, <2>2, <2>3, TokenOpens
<1>3. ASSUME k \in 1..(m - 1), OpensAt(st, l, k, sx) PROVE k \in OpenersOn(l, m, sx)
  <2>1. k \in 1..n /\ k - 1 \in 0..n
    BY <1>1, <1>3
  <2>2. OutsideQuotes(l, k)
    <3>1. "" \notin Quotes
      BY <1>1, SyntaxIs
    <3>2. QuotesTell(Quoting(l)[k - 1], st[k - 1])
      BY <2>1, QuotesAgree
    <3> QED
      BY <1>3, <3>1, <3>2 DEF OutsideQuotes, QuotesTell, OpensAt
  <2>3. \/ l[k] \in sx.line \cup Openers(sx.block)
        \/ k = Lead(l) /\ l[k] \in sx.embLine \cup Openers(sx.embBlock)
    BY <1>3 DEF OpensAt, Opens
  <2> QED
    BY <1>3, <2>2, <2>3 DEF OpenersOn
<1> QED
  BY <1>2, <1>3

\* A label that is read stands in a comment.
LEMMA LabelRead ==
  ASSUME NEW sx, IsSyntax(sx), NEW l, NEW n, NEW c, NEW st, Goes(st, l, n, c, sx), NEW i \in 0..n, st[i].label
  PROVE  \E m \in 1..i : l[m] = Marker /\ Commented(st[m - 1], sx)
<1>1. n \in Nat /\ st[0] = Begin(c)
  BY DEF Goes
<1> DEFINE Ok(j) == st[j].label => \E m \in 1..j : l[m] = Marker /\ Commented(st[m - 1], sx)
<1>2. Ok(0)
  BY <1>1, BeginIs
<1>3. ASSUME NEW j \in 0..(n - 1), Ok(j) PROVE Ok(j + 1)
  <2> SUFFICES ASSUME st[j + 1].label PROVE \E m \in 1..(j + 1) : l[m] = Marker /\ Commented(st[m - 1], sx)
    OBVIOUS
  <2>1. CASE st[j].label
    <3>1. PICK m \in 1..j : l[m] = Marker /\ Commented(st[m - 1], sx)
      BY <1>3, <2>1
    <3>2. m \in 1..(j + 1)
      BY <1>1
    <3> QED
      BY <3>1, <3>2
  <2>2. CASE ~st[j].label
    <3>1. PICK k \in 1..(j + 1) : k = j + 1 /\ k - 1 = j
      BY <1>1
    <3>2. PICK x, y, s, opens : x = st[j] /\ y = st[k] /\ s = l[k] /\ IsReader(x, sx) /\ Reads(x, s, y, opens, sx)
      BY <3>1, EachStep
    <3>3. ~x.label /\ y.label
      BY <2>2, <3>1, <3>2
    <3>4. x.skip \in BOOLEAN /\ x.in \in {""} \cup Quotes \cup Waits(sx)
      BY <3>2, StateIs DEF IsReader
    <3>5. x.in \notin Quotes \cup {""} /\ s = Marker
      <4>1. s = x.in \/ s # x.in
        OBVIOUS
      <4>2. ~x.skip
        BY <3>2, <3>3 DEF Reads
      <4>3. x.in \notin Quotes \cup {""}
        BY <3>2, <3>3, <4>2 DEF Reads
      <4> QED
        BY <3>2, <3>3, <4>1, <4>2, <4>3 DEF Reads
    <3>6. l[k] = Marker /\ Commented(st[k - 1], sx)
      BY <3>1, <3>2, <3>4, <3>5 DEF Commented
    <3> QED
      BY <3>6
  <2> QED
    BY <2>1, <2>2
<1> HIDE DEF Ok
<1> DEFINE S == {j \in 0..n : Ok(j)}
<1>4. 0 \in S /\ \A j \in 0..(n - 1) : j \in S => j + 1 \in S
  BY <1>1, <1>2, <1>3
<1>5. \A j \in S : Ok(j)
  OBVIOUS
<1> HIDE DEF S
<1>6. \A j \in 0..n : j \in S
  BY <1>1, <1>4, Upwards
<1> QED
  BY <1>5, <1>6 DEF Ok

\* Two readers that go on alike.
Alike(x, y) == x.in = y.in /\ (x.skip <=> y.skip) /\ x.code = y.code

LEMMA ReadsAlike ==
  ASSUME NEW sx, NEW x, IsReader(x, sx), NEW u, NEW y, IsReader(y, sx), NEW v, NEW s, NEW opens,
         Reads(x, s, u, opens, sx), Reads(y, s, v, opens, sx), Alike(x, y)
  PROVE  Alike(u, v)
<1>1. x.in = y.in /\ (x.skip <=> y.skip) /\ x.code = y.code
  BY DEF Alike
<1>2. x.skip \in BOOLEAN /\ y.skip \in BOOLEAN
  BY StateIs DEF IsReader
<1>3. CASE x.skip
  BY <1>1, <1>3 DEF Reads, Alike
<1>4. CASE ~x.skip /\ x.in \in Quotes
  BY <1>1, <1>4 DEF Reads, Alike
<1>5. CASE ~x.skip /\ x.in = "" /\ opens # ""
  BY <1>1, <1>5 DEF Reads, Alike
<1>6. CASE ~x.skip /\ x.in = "" /\ opens = ""
  BY <1>1, <1>6 DEF Reads, Alike
<1>7. CASE ~x.skip /\ x.in \notin Quotes \cup {""} /\ s = x.in
  BY <1>1, <1>7 DEF Reads, Alike
<1>8. CASE ~x.skip /\ x.in \notin Quotes \cup {""} /\ s # x.in
  BY <1>1, <1>8 DEF Reads, Alike
<1> QED
  BY <1>2, <1>3, <1>4, <1>5, <1>6, <1>7, <1>8

LEMMA OpensSame ==
  ASSUME NEW s, NEW sx, NEW p, NEW q, p <=> q
  PROVE  Opens(s, p, sx) = Opens(s, q, sx)
BY DEF Opens

\* The same symbols follow, and both are first in their rows or neither.
SameFrom(l, a, k, b, len) == \A j \in 1..len : l[a + j] = k[b + j] /\ (a + j = Lead(l) <=> b + j = Lead(k))

LEMMA RowsAlike ==
  ASSUME NEW sx, NEW l, NEW n, NEW c, NEW st, Goes(st, l, n, c, sx), NEW k, NEW m, NEW d, NEW su, Goes(su, k, m, d, sx),
         NEW a \in 0..n, NEW b \in 0..m, NEW len \in Nat, a + len <= n, b + len <= m, Alike(st[a], su[b]),
         SameFrom(l, a, k, b, len)
  PROVE  \A j \in 0..len : Alike(st[a + j], su[b + j])
<1>1. n \in Nat /\ m \in Nat
  BY DEF Goes
<1> DEFINE Ok(j) == Alike(st[a + j], su[b + j])
<1>2. Ok(0)
  BY <1>1
<1>3. ASSUME NEW j \in 0..(len - 1), Ok(j) PROVE Ok(j + 1)
  <2>1. PICK p \in 0..(n - 1), q \in 0..(m - 1) : p = a + j /\ q = b + j /\ p + 1 = a + (j + 1) /\ q + 1 = b + (j + 1)
    BY <1>1
  <2>2. j + 1 \in 1..len
    BY <1>1
  <2>3. l[p + 1] = k[q + 1] /\ (p + 1 = Lead(l) <=> q + 1 = Lead(k))
    BY <2>1, <2>2 DEF SameFrom
  <2>4. PICK s, opens, other : s = l[p + 1] /\ opens = Opens(s, p + 1 = Lead(l), sx) /\ other = Opens(s, q + 1 = Lead(k), sx)
    OBVIOUS
  <2>5. opens = other
    BY <2>3, <2>4, OpensSame
  <2>6. IsReader(st[p], sx) /\ Reads(st[p], s, st[p + 1], opens, sx)
    BY <2>4, EachStep
  <2>7. IsReader(su[q], sx) /\ Reads(su[q], s, su[q + 1], opens, sx)
    BY <2>3, <2>4, <2>5, EachStep
  <2>8. Alike(st[p], su[q])
    BY <1>3, <2>1
  <2>9. Alike(st[p + 1], su[q + 1])
    BY <2>6, <2>7, <2>8, ReadsAlike
  <2> QED
    BY <2>1, <2>9
<1> HIDE DEF Ok
<1> DEFINE S == {j \in 0..len : Ok(j)}
<1>4. 0 \in S /\ \A j \in 0..(len - 1) : j \in S => j + 1 \in S
  BY <1>2, <1>3
<1>5. \A j \in S : Ok(j)
  OBVIOUS
<1> HIDE DEF S
<1>6. \A j \in 0..len : j \in S
  BY <1>4, Upwards
<1> QED
  BY <1>5, <1>6 DEF Ok

\* The first of the symbols.
LEMMA FirstOf ==
  ASSUME NEW n \in Nat, NEW a \in Nat, NEW S, NEW i \in a..n, i \in S
  PROVE  \E j \in a..n : j \in S /\ \A h \in a..(j - 1) : h \notin S
<1> DEFINE A == {h \in a..n : h \in S}
<1>1. A \subseteq Nat /\ A # {}
  OBVIOUS
<1>2. PICK j \in A : \A h \in A : j <= h
  <2> HIDE DEF A
  <2> QED
    BY <1>1, Least
<1> QED
  BY <1>2

\* A comment open at both ends was not closed.
LEMMA NotClosed ==
  ASSUME NEW sx, NEW l, NEW n, NEW c, NEW st, PlainRow(st, l, n, c, sx), NEW i \in 0..n, Commented(st[i], sx),
         NEW k \in i..n, Commented(st[k], sx)
  PROVE  \A j \in (i + 1)..k : l[j] # st[i].in
<1>1. n \in Nat
  BY PlainAllAlong
<1> SUFFICES ASSUME NEW x \in (i + 1)..k, l[x] = st[i].in PROVE FALSE
  OBVIOUS
<1>2. PICK j \in (i + 1)..k : l[j] = st[i].in /\ \A h \in (i + 1)..(j - 1) : l[h] # st[i].in
  <2> DEFINE S == {h \in (i + 1)..k : l[h] = st[i].in}
  <2>1. x \in S
    OBVIOUS
  <2>2. i + 1 \in Nat /\ k \in Nat
    BY <1>1
  <2>3. PICK j \in (i + 1)..k : j \in S /\ \A h \in (i + 1)..(j - 1) : h \notin S
    <3> HIDE DEF S
    <3> QED
      BY <2>1, <2>2, FirstOf
  <2> QED
    BY <1>1, <2>3
<1>3. PICK h \in i..(n - 1) : h = j - 1 /\ h + 1 = j /\ h \in 0..(n - 1) /\ h \in i..n
  BY <1>1
<1>4. Commented(st[h], sx) /\ st[h].in = st[i].in
  BY <1>2, <1>3, StaysOpen
<1>5. ~Commented(st[j], sx) /\ (st[h].had => st[j].had)
  <2>1. Plainly(st[h], l[j], st[j], Opens(l[j], j = Lead(l), sx), sx)
    BY <1>3, PlainStep
  <2>2. l[j] = st[h].in
    BY <1>2, <1>4
  <2> QED
    BY <1>4, <2>1, <2>2 DEF Plainly
<1>6. st[h].had
  BY <1>1, <1>3, <1>4, CommentMet
<1>7. j \in 0..n /\ k \in j..n
  BY <1>1
<1> QED
  BY <1>5, <1>6, <1>7, StaysClosed

\* Where the first symbol of a line is that is no space, and the first of a kind.
FirstOther(l, n, s, p) ==
  /\ p \in 0..n
  /\ p # 0 => l[p] # s /\ \A i \in 1..(p - 1) : l[i] = s
  /\ p = 0 => \A i \in 1..n : l[i] = s
  /\ \A j \in 1..n : j = p <=> l[j] # s /\ \A i \in 1..(j - 1) : l[i] = s

LEMMA OtherIs ==
  ASSUME NEW l, NEW n \in Nat, NEW s, NEW p,
         p = IF {i \in 1..n : l[i] # s} # {} THEN Min({i \in 1..n : l[i] # s}) ELSE 0
  PROVE  FirstOther(l, n, s, p)
<1> DEFINE I == {i \in 1..n : l[i] # s}
<1>1. p = IF I # {} THEN Min(I) ELSE 0
  OBVIOUS
<1>2. I \in SUBSET Nat
  OBVIOUS
<1>3. I # {} => Min(I) \in I /\ \A i \in I : Min(I) <= i
  <2> HIDE DEF I
  <2> QED
    BY <1>2, LeastIs
<1>4. CASE I = {}
  BY <1>1, <1>4 DEF FirstOther
<1>5. CASE I # {}
  <2>1. PICK q \in 1..n : q = p /\ l[q] # s /\ \A i \in 1..n : l[i] # s => q <= i
    BY <1>1, <1>3, <1>5
  <2>2. \A i \in 1..(q - 1) : l[i] = s
    BY <2>1
  <2> QED
    BY <2>1, <2>2 DEF FirstOther
<1> QED
  BY <1>4, <1>5

IsSpace(s) == s = " "

LEMMA LeadAt ==
  ASSUME NEW l, IsList(l)
  PROVE  /\ Lead(l) \in 0..Len(l) /\ Len(l) \in Nat
         /\ Lead(l) # 0 => ~IsSpace(l[Lead(l)]) /\ \A i \in 1..(Lead(l) - 1) : IsSpace(l[i])
         /\ Lead(l) = 0 => \A i \in 1..Len(l) : IsSpace(l[i])
         /\ \A j \in 1..Len(l) : j = Lead(l) <=> ~IsSpace(l[j]) /\ \A i \in 1..(j - 1) : IsSpace(l[i])
<1>1. Len(l) \in Nat
  BY DEF IsList
<1>2. PICK s, n, p : s = " " /\ n = Len(l) /\ p = Lead(l)
  OBVIOUS
<1>3. p = IF {i \in 1..n : l[i] # s} # {} THEN Min({i \in 1..n : l[i] # s}) ELSE 0
  BY <1>2 DEF Lead, SelectInSeq
<1>4. n \in Nat
  BY <1>1, <1>2
<1>5. FirstOther(l, n, s, p)
  BY <1>3, <1>4, OtherIs
<1>6. \A x : IsSpace(x) <=> x = s
  BY <1>2 DEF IsSpace
<1> QED
  BY <1>1, <1>2, <1>5, <1>6 DEF FirstOther

LEMMA AtIs ==
  ASSUME NEW l, IsList(l), NEW s
  PROVE  /\ At(l, s) \in 0..Len(l)
         /\ At(l, s) # 0 => l[At(l, s)] = s /\ \A i \in 1..(At(l, s) - 1) : l[i] # s
         /\ At(l, s) = 0 => \A i \in 1..Len(l) : l[i] # s
<1> DEFINE I == {i \in 1..Len(l) : l[i] = s}
<1>1. Len(l) \in Nat
  BY DEF IsList
<1>2. At(l, s) = IF I # {} THEN Min(I) ELSE 0
  BY DEF At, SelectInSeq
<1>3. I \in SUBSET Nat
  BY <1>1
<1>4. I # {} => Min(I) \in I /\ \A i \in I : Min(I) <= i
  <2> HIDE DEF I
  <2> QED
    BY <1>3, LeastIs
<1>5. CASE I = {}
  BY <1>1, <1>2, <1>5
<1>6. CASE I # {}
  <2>1. PICK p \in 1..Len(l) : p = At(l, s) /\ l[p] = s /\ \A i \in 1..Len(l) : l[i] = s => p <= i
    BY <1>1, <1>2, <1>4, <1>6
  <2>2. \A i \in 1..(p - 1) : l[i] # s
    BY <1>1, <2>1
  <2> QED
    BY <1>1, <2>1, <2>2
<1> QED
  BY <1>5, <1>6

LEMMA PrefixLead ==
  ASSUME NEW l, IsList(l), NEW k, IsList(k), NEW n \in Nat, n <= Len(l), n <= Len(k), \A j \in 1..n : k[j] = l[j]
  PROVE  \A j \in 1..n : j = Lead(l) <=> j = Lead(k)
<1> SUFFICES ASSUME NEW j \in 1..n PROVE j = Lead(l) <=> j = Lead(k)
  OBVIOUS
<1>1. (j = Lead(l) <=> ~IsSpace(l[j]) /\ \A i \in 1..(j - 1) : IsSpace(l[i])) /\ Len(l) \in Nat
  <2>1. Len(l) \in Nat
    BY LeadAt
  <2>2. j \in 1..Len(l)
    BY <2>1
  <2> QED
    BY <2>1, <2>2, LeadAt
<1>2. (j = Lead(k) <=> ~IsSpace(k[j]) /\ \A i \in 1..(j - 1) : IsSpace(k[i])) /\ Len(k) \in Nat
  <2>1. Len(k) \in Nat
    BY LeadAt
  <2>2. j \in 1..Len(k)
    BY <2>1
  <2> QED
    BY <2>1, <2>2, LeadAt
<1>3. \A i \in 1..(j - 1) : l[i] = k[i]
  OBVIOUS
<1> QED
  BY <1>1, <1>2, <1>3

LEMMA NotFirst ==
  ASSUME NEW l, IsList(l), NEW p \in 1..Len(l), ~IsSpace(l[p]), NEW j \in Nat, j > p
  PROVE  j # Lead(l)
<1>1. Lead(l) # 0 => \A i \in 1..(Lead(l) - 1) : IsSpace(l[i])
  BY LeadAt
<1>2. Lead(l) \in 0..Len(l) /\ Len(l) \in Nat
  BY LeadAt
<1> QED
  BY <1>1, <1>2

\* A row of which the reader says the same, and no label.
EndsAlike(x, y) == y.in = x.in /\ y.code = x.code /\ ~y.label

LEMMA CommentStep ==
  ASSUME NEW sx, IsSyntax(sx), NEW x, IsReader(x, sx), Commented(x, sx), NEW s, NEW y, NEW opens, Reads(x, s, y, opens, sx)
  PROVE  /\ ~y.skip /\ y.code = x.code
         /\ s = x.in => y.in = "" /\ ~Commented(y, sx)
         /\ s # x.in => y.in = x.in /\ Commented(y, sx)
<1>1. ~x.skip /\ x.in \notin Quotes \cup {""} /\ "" \notin Waits(sx)
  BY CommentedIs, SyntaxIs
<1>2. CASE s = x.in
  <2>1. y.in = "" /\ ~y.skip /\ y.code = x.code
    BY <1>1, <1>2 DEF Reads
  <2> QED
    BY <1>1, <1>2, <2>1 DEF Commented
<1>3. CASE s # x.in
  <2>1. y.in = x.in /\ ~y.skip /\ y.code = x.code
    BY <1>1, <1>3 DEF Reads
  <2> QED
    BY <1>3, <2>1 DEF Commented
<1> QED
  BY <1>2, <1>3

IsKept(x, s, y, sx) ==
  /\ ~y.skip /\ y.code = x.code
  /\ s = x.in => y.in = "" /\ ~Commented(y, sx)
  /\ s # x.in => y.in = x.in /\ Commented(y, sx)

LEMMA InComment ==
  ASSUME NEW sx, IsSyntax(sx), NEW l, NEW n, NEW c, NEW st, Goes(st, l, n, c, sx), NEW p \in 0..(n - 1), Commented(st[p], sx)
  PROVE  IsKept(st[p], l[p + 1], st[p + 1], sx)
<1>1. PICK x, y, s, opens : x = st[p] /\ y = st[p + 1] /\ s = l[p + 1] /\ opens = Opens(s, p + 1 = Lead(l), sx)
  OBVIOUS
<1>2. IsReader(x, sx) /\ Reads(x, s, y, opens, sx) /\ Commented(x, sx)
  BY <1>1, EachStep
<1>3. IsKept(x, s, y, sx)
  BY <1>2, CommentStep DEF IsKept
<1> QED
  BY <1>1, <1>3

LEMMA NoSpace ==
  ASSUME NEW sx, IsSyntax(sx)
  PROVE  /\ \A s \in sx.line \cup sx.embLine \cup Openers(Pairs(sx)) \cup Waits(sx) : ~IsSpace(s) /\ s # Marker
         /\ ~IsSpace(Marker)
<1>1. "eol" # " " /\ "eol" # Marker /\ " " # Marker
  BY DEF Marker
<1> QED
  BY <1>1, SyntaxIs DEF IsSpace, Waits

LEMMA PlainIs ==
  ASSUME NEW sx, NEW l, NEW n, NEW c, NEW st, PlainRow(st, l, n, c, sx)
  PROVE  n \in Nat /\ n = Len(l) /\ st[0] = Begin(c) /\ IsSyntax(sx) /\ IsList(l) /\ Goes(st, l, n, c, sx)
<1>1. IsList(l)
  BY DEF PlainRow, IsLine
<1>2. IsSyntax(sx) /\ Goes(st, l, n, c, sx)
  BY DEF PlainRow
<1> QED
  BY <1>1, <1>2, PlainAllAlong

LEMMA AlikeComment ==
  ASSUME NEW sx, NEW x, NEW y, Alike(x, y)
  PROVE  Commented(x, sx) <=> Commented(y, sx)
BY DEF Alike, Commented

\* Up to an opening, a row with the same beginning reads the same, and has no label yet.
LEMMA UpToOpening ==
  ASSUME NEW sx, NEW l, NEW n, NEW c, NEW st, PlainRow(st, l, n, c, sx), NEW k \in 1..n, OpensAt(st, l, k, sx),
         NEW new, IsList(new), NEW m, NEW su, Goes(su, new, m, c, sx), k <= m, \A j \in 1..k : new[j] = l[j]
  PROVE  \A j \in 0..k : Alike(st[j], su[j]) /\ (j # k => ~Commented(su[j], sx))
<1>1. n \in Nat /\ n = Len(l) /\ st[0] = Begin(c) /\ IsList(l) /\ Goes(st, l, n, c, sx)
  BY PlainIs
<1>2. m \in Nat /\ m = Len(new) /\ su[0] = Begin(c)
  BY DEF Goes
<1>3. \A j \in 1..k : j = Lead(l) <=> j = Lead(new)
  BY <1>1, <1>2, PrefixLead
<1>4. \A j \in 0..k : Alike(st[j], su[j])
  <2>1. Alike(st[0], su[0])
    BY <1>1, <1>2 DEF Alike
  <2>2. 0 \in 0..n /\ 0 \in 0..m /\ k \in Nat /\ 0 + k <= n /\ 0 + k <= m
    BY <1>1, <1>2
  <2>4. SameFrom(l, 0, new, 0, k)
    BY <1>1, <1>2, <1>3 DEF SameFrom
  <2>3. \A j \in 0..k : Alike(st[0 + j], su[0 + j])
    BY <1>1, <2>1, <2>2, <2>4, RowsAlike
  <2> QED
    BY <1>1, <2>3
<1>5. ASSUME NEW j \in 0..k, j # k PROVE ~Commented(su[j], sx)
  <2>1. j \in 0..n /\ k - 1 \in j..n
    BY <1>1, <1>5
  <2>2. ~st[j].had
    <3>1. ~st[k - 1].had
      BY OpeningIs
    <3> QED
      BY <1>1, <2>1, <3>1, Lasts
  <2>3. ~Commented(st[j], sx)
    BY <2>1, <2>2, CommentMet
  <2> QED
    BY <1>4, <2>3, AlikeComment
<1> QED
  BY <1>4, <1>5

\* The comment goes that the row does not end.
LEMMA CutTail ==
  ASSUME NEW sx, NEW l, NEW n, NEW c, NEW st, PlainRow(st, l, n, c, sx), NEW k \in 1..n, OpensAt(st, l, k, sx), Commented(st[n], sx),
         NEW new, IsList(new), NEW su, Goes(su, new, k, c, sx), \A j \in 1..k : new[j] = l[j]
  PROVE  EndsAlike(st[n], su[k])
<1>1. n \in Nat /\ IsSyntax(sx)
  BY PlainAllAlong DEF PlainRow
<1>2. k \in Nat /\ k <= k
  BY <1>1
<1>3. \A j \in 0..k : Alike(st[j], su[j]) /\ (j # k => ~Commented(su[j], sx))
  BY <1>2, UpToOpening
<1>4. st[n].in = st[k].in /\ st[n].code = st[k].code
  <2>1. k \in 0..n /\ n \in k..n
    BY <1>1
  <2>3. Commented(st[k], sx)
    BY OpeningIs
  <2>2. \A j \in (k + 1)..n : l[j] # st[k].in
    BY <2>1, <2>3, NotClosed
  <2> QED
    BY <2>1, <2>2, <2>3, StaysOpen
<1>5. ~su[k].label
  <2> SUFFICES ASSUME su[k].label PROVE FALSE
    OBVIOUS
  <2>1. k \in 0..k
    BY <1>2
  <2>2. PICK p \in 1..k : new[p] = Marker /\ Commented(su[p - 1], sx)
    BY <1>1, <2>1, LabelRead
  <2>3. p - 1 \in 0..k /\ p - 1 # k
    BY <1>2
  <2> QED
    BY <1>3, <2>2, <2>3
<1>6. Alike(st[k], su[k])
  BY <1>2, <1>3
<1> QED
  BY <1>4, <1>5, <1>6 DEF EndsAlike, Alike

\* The comment goes that the row opens and ends.
LEMMA CutMiddle ==
  ASSUME NEW sx, NEW l, NEW n, NEW c, NEW st, PlainRow(st, l, n, c, sx), NEW k \in 1..n, OpensAt(st, l, k, sx),
         NEW m \in (k + 1)..n, l[m] = st[k].in, \A j \in (k + 1)..(m - 1) : l[j] # st[k].in,
         NEW new, IsList(new), NEW len, len = k + 2 + (n - m), NEW su, Goes(su, new, len, c, sx),
         \A j \in 1..k : new[j] = l[j], IsSpace(new[k + 1]), \A j \in 0..(n - m) : new[k + 2 + j] = l[m + j]
  PROVE  EndsAlike(st[n], su[len])
<1>1. n \in Nat /\ n = Len(l) /\ IsSyntax(sx) /\ IsList(l) /\ Goes(st, l, n, c, sx) /\ len \in Nat /\ len = Len(new)
  BY PlainIs DEF Goes
<1>2. k \in Nat /\ k <= len /\ m \in Nat
  BY <1>1
<1>3. \A j \in 0..k : Alike(st[j], su[j]) /\ (j # k => ~Commented(su[j], sx))
  BY <1>2, UpToOpening
<1>4. Alike(st[k], su[k]) /\ Commented(st[k], sx) /\ Commented(su[k], sx)
  <2>1. Alike(st[k], su[k])
    BY <1>2, <1>3
  <2>2. Commented(st[k], sx)
    BY OpeningIs
  <2> QED
    BY <2>1, <2>2, AlikeComment
<1>5. PICK w : w = st[k].in
  OBVIOUS
<1>6. w \in Waits(sx) /\ ~IsSpace(w) /\ w # Marker /\ ~IsSpace(Marker)
  BY <1>1, <1>4, <1>5, NoSpace DEF Commented
<1>7. su[k + 1].in = w /\ Commented(su[k + 1], sx) /\ su[k + 1].code = st[k].code
  <2>1. k \in 0..(len - 1)
    BY <1>1
  <2>2. su[k].in = w /\ su[k].code = st[k].code
    BY <1>4, <1>5 DEF Alike
  <2>3. new[k + 1] # su[k].in
    BY <1>6, <2>2
  <2> QED
    <3>1. IsKept(su[k], new[k + 1], su[k + 1], sx)
      BY <1>1, <1>4, <2>1, InComment
    <3> QED
      BY <2>2, <2>3, <3>1 DEF IsKept
<1>8. su[k + 2].in = "" /\ ~su[k + 2].skip /\ su[k + 2].code = st[k].code /\ ~Commented(su[k + 2], sx)
  <2>1. PICK p \in 0..(len - 1) : p = k + 1 /\ p + 1 = k + 2
    BY <1>1
  <2>2. new[k + 2] = l[m]
    <3>1. 0 \in 0..(n - m) /\ k + 2 + 0 = k + 2 /\ m + 0 = m
      BY <1>1
    <3> QED
      BY <3>1
  <2>3. new[p + 1] = su[p].in /\ su[p].code = st[k].code /\ Commented(su[p], sx)
    BY <1>5, <1>7, <2>1, <2>2
  <2>4. su[p + 1].in = "" /\ ~su[p + 1].skip /\ su[p + 1].code = st[k].code /\ ~Commented(su[p + 1], sx)
    <3>1. IsKept(su[p], new[p + 1], su[p + 1], sx)
      BY <1>1, <2>3, InComment
    <3> QED
      BY <2>3, <3>1 DEF IsKept
  <2> QED
    BY <2>1, <2>4
<1>9. st[m].in = "" /\ ~st[m].skip /\ st[m].code = st[k].code /\ ~Commented(st[m], sx) /\ st[m].had
  <2>1. PICK p \in 0..(n - 1) : p = m - 1 /\ p + 1 = m /\ p \in k..n /\ k \in 0..n
    BY <1>1
  <2>2. st[p].in = w /\ Commented(st[p], sx) /\ st[p].code = st[k].code
    BY <1>4, <1>5, <2>1, StaysOpen
  <2>3. Plainly(st[p], l[m], st[m], Opens(l[m], m = Lead(l), sx), sx)
    BY <2>1, PlainStep
  <2>4. st[p].had
    BY <2>1, <2>2, CommentMet, <1>1
  <2> QED
    BY <1>5, <2>2, <2>3, <2>4 DEF Plainly
<1>10. \A j \in 0..(n - m) : Alike(st[m + j], su[k + 2 + j])
  <2>1. Alike(st[m], su[k + 2])
    BY <1>8, <1>9 DEF Alike
  <2>2. ASSUME NEW j \in 1..(n - m) PROVE l[m + j] = new[(k + 2) + j] /\ (m + j = Lead(l) <=> (k + 2) + j = Lead(new))
    <3>1. ~IsSpace(l[k]) /\ ~IsSpace(new[k])
      <4>1. l[k] \in sx.line \cup sx.embLine \cup Openers(Pairs(sx))
        BY OpeningIs
      <4>2. k \in 1..k
        BY <1>1
      <4> QED
        BY <1>1, <4>1, <4>2, NoSpace
    <3>2. m + j > k /\ (k + 2) + j > k /\ m + j \in Nat /\ (k + 2) + j \in Nat /\ k \in 1..Len(l) /\ k \in 1..Len(new)
      BY <1>1
    <3>3. m + j # Lead(l) /\ (k + 2) + j # Lead(new)
      BY <1>1, <3>1, <3>2, NotFirst
    <3>4. j \in 0..(n - m)
      BY <1>1
    <3> QED
      BY <3>3, <3>4
  <2>3. m \in 0..n /\ k + 2 \in 0..len /\ n - m \in Nat /\ m + (n - m) <= n /\ (k + 2) + (n - m) <= len
    BY <1>1
  <2>4. SameFrom(l, m, new, k + 2, n - m)
    BY <2>2 DEF SameFrom
  <2> QED
    BY <1>1, <2>1, <2>3, <2>4, RowsAlike
<1>11. ~su[len].label
  <2> SUFFICES ASSUME su[len].label PROVE FALSE
    OBVIOUS
  <2>1. len \in 0..len
    BY <1>1
  <2>2. PICK p \in 1..len : new[p] = Marker /\ Commented(su[p - 1], sx)
    BY <1>1, <2>1, LabelRead
  <2>3. CASE p <= k
    <3>1. p - 1 \in 0..k /\ p - 1 # k
      BY <1>1, <2>3
    <3> QED
      BY <1>3, <2>2, <3>1
  <2>4. CASE p = k + 1
    BY <1>6, <2>2, <2>4
  <2>5. CASE p = k + 2
    <3>1. 0 \in 0..(n - m) /\ k + 2 + 0 = k + 2 /\ m + 0 = m
      BY <1>1
    <3>2. new[p] = l[m]
      BY <2>5, <3>1
    <3> QED
      BY <1>5, <1>6, <2>2, <3>2
  <2>6. CASE p > k + 2
    <3>1. PICK j \in 0..(n - m) : k + 2 + j = p - 1 /\ m + j \in m..n
      <4>1. p - 1 - (k + 2) \in 0..(n - m) /\ k + 2 + (p - 1 - (k + 2)) = p - 1 /\ m + (p - 1 - (k + 2)) \in m..n
        BY <1>1, <2>6
      <4> QED
        BY <4>1
    <3>2. ~Commented(st[m + j], sx)
      <4>1. m \in 0..n
        BY <1>1
      <4> QED
        BY <1>9, <3>1, <4>1, StaysClosed
    <3>3. Alike(st[m + j], su[p - 1])
      BY <1>10, <3>1
    <3> QED
      BY <2>2, <3>2, <3>3, AlikeComment
  <2> QED
    BY <1>1, <2>3, <2>4, <2>5, <2>6
<1>12. Alike(st[n], su[len])
  <2>1. n - m \in 0..(n - m) /\ m + (n - m) = n /\ k + 2 + (n - m) = len
    BY <1>1
  <2> QED
    BY <1>10, <2>1
<1> QED
  BY <1>11, <1>12 DEF EndsAlike, Alike

\* A comment is open until its closer, in any row.
LEMMA HeldOpen ==
  ASSUME NEW sx, IsSyntax(sx), NEW l, NEW n, NEW c, NEW st, Goes(st, l, n, c, sx), NEW i \in 0..n, Commented(st[i], sx),
         NEW k \in i..n, \A j \in (i + 1)..k : l[j] # st[i].in
  PROVE  \A j \in i..k : Commented(st[j], sx) /\ st[j].in = st[i].in /\ st[j].code = st[i].code
<1>1. n \in Nat
  BY DEF Goes
<1> DEFINE Ok(j) == Commented(st[j], sx) /\ st[j].in = st[i].in /\ st[j].code = st[i].code
<1>2. Ok(i)
  OBVIOUS
<1>3. ASSUME NEW j \in i..(k - 1), Ok(j) PROVE Ok(j + 1)
  <2>1. j \in 0..(n - 1) /\ j + 1 \in (i + 1)..k
    BY <1>1
  <2>2. l[j + 1] # st[j].in
    BY <1>3, <2>1
  <2>3. IsKept(st[j], l[j + 1], st[j + 1], sx)
    BY <1>3, <2>1, InComment
  <2> QED
    BY <1>3, <2>2, <2>3 DEF IsKept
<1> HIDE DEF Ok
<1> DEFINE S == {j \in i..k : Ok(j)}
<1>4. i \in S /\ \A j \in i..(k - 1) : j \in S => j + 1 \in S
  BY <1>1, <1>2, <1>3
<1>5. \A j \in S : Ok(j)
  OBVIOUS
<1>6. k \in Nat /\ i \in 0..k
  BY <1>1
<1> HIDE DEF S
<1>7. \A j \in i..k : j \in S
  BY <1>4, <1>6, UpFrom
<1> QED
  BY <1>5, <1>7 DEF Ok

\* A row that begins in a comment.
LEMMA BeginsCommented ==
  ASSUME NEW sx, IsSyntax(sx), NEW c, c \in Closers(sx)
  PROVE  Commented(Begin(c), sx) /\ Begin(c).in = c /\ Begin(c).code = <<>> /\ ~Begin(c).label
BY BeginIs DEF Commented, Waits

\* The comment goes that the row is all of.
LEMMA CutAll ==
  ASSUME NEW sx, NEW l, NEW n, NEW c, NEW st, PlainRow(st, l, n, c, sx), c \in Closers(sx), \A j \in 1..n : l[j] # c,
         NEW new, NEW su, Goes(su, new, 0, c, sx)
  PROVE  EndsAlike(st[n], su[0])
<1>1. n \in Nat /\ st[0] = Begin(c) /\ IsSyntax(sx)
  BY PlainIs
<1>2. Commented(st[0], sx) /\ st[0].in = c
  BY <1>1, BeginsCommented
<1>3. st[n].in = st[0].in /\ st[n].code = st[0].code
  <2>1. 0 \in 0..n /\ n \in 0..n /\ 0 + 1 = 1
    BY <1>1
  <2> QED
    BY <1>2, <2>1, StaysOpen
<1>4. su[0] = Begin(c)
  BY DEF Goes
<1> QED
  BY <1>1, <1>3, <1>4, BeginsCommented DEF EndsAlike

LEMMA HeldFromBegin ==
  ASSUME NEW sx, IsSyntax(sx), NEW l, NEW n, NEW c, c \in Closers(sx), NEW st, Goes(st, l, n, c, sx),
         NEW d \in 0..n, \A j \in 1..d : l[j] # c
  PROVE  \A j \in 0..d : Commented(st[j], sx) /\ st[j].in = c /\ st[j].code = Begin(c).code
<1>1. n \in Nat /\ st[0] = Begin(c)
  BY DEF Goes
<1>2. Commented(st[0], sx) /\ st[0].in = c
  BY <1>1, BeginsCommented
<1>3. PICK i \in 0..n : i = 0 /\ d \in i..n /\ i + 1 = 1
  BY <1>1
<1>4. Commented(st[i], sx) /\ \A j \in (i + 1)..d : l[j] # st[i].in
  BY <1>2, <1>3
<1>5. \A j \in i..d : Commented(st[j], sx) /\ st[j].in = st[i].in /\ st[j].code = st[i].code
  BY <1>3, <1>4, HeldOpen
<1> QED
  BY <1>1, <1>2, <1>3, <1>5

\* The comment goes that the row ends.
LEMMA CutHead ==
  ASSUME NEW sx, NEW l, NEW n, NEW c, NEW st, PlainRow(st, l, n, c, sx), c \in Closers(sx),
         NEW m \in 1..n, l[m] = c, \A j \in 1..(m - 1) : l[j] # c,
         NEW d \in Nat, NEW new, IsList(new), NEW len, len = d + 1 + (n - m), NEW su, Goes(su, new, len, c, sx),
         \A j \in 1..d : IsSpace(new[j]), \A j \in 0..(n - m) : new[d + 1 + j] = l[m + j]
  PROVE  EndsAlike(st[n], su[len])
<1>1. n \in Nat /\ n = Len(l) /\ IsSyntax(sx) /\ IsList(l) /\ Goes(st, l, n, c, sx) /\ len \in Nat /\ len = Len(new) /\ st[0] = Begin(c)
  BY PlainIs DEF Goes
<1>2. su[0] = Begin(c) /\ m \in Nat
  BY DEF Goes
<1>3. Commented(Begin(c), sx) /\ Begin(c).in = c /\ ~IsSpace(c) /\ c # Marker /\ ~IsSpace(Marker)
  BY <1>1, BeginsCommented, NoSpace DEF Waits
<1>4. \A j \in 0..d : Commented(su[j], sx) /\ su[j].in = c /\ su[j].code = Begin(c).code
  <2>1. d \in 0..len /\ \A j \in 1..d : new[j] # c
    BY <1>1, <1>3
  <2>2. PICK e \in 0..len : e = d
    BY <2>1
  <2>3. IsSyntax(sx) /\ Goes(su, new, len, c, sx) /\ c \in Closers(sx) /\ e \in 0..len
    BY <1>1
  <2>4. \A j \in 1..e : new[j] # c
    BY <2>1, <2>2
  <2>5. \A j \in 0..e : Commented(su[j], sx) /\ su[j].in = c /\ su[j].code = Begin(c).code
    BY ONLY <2>3, <2>4, HeldFromBegin
  <2> QED
    BY <2>2, <2>5
<1>5. su[d + 1].in = "" /\ ~su[d + 1].skip /\ su[d + 1].code = Begin(c).code /\ ~Commented(su[d + 1], sx)
  <2>1. d \in 0..(len - 1) /\ d \in 0..d
    BY <1>1
  <2>2. new[d + 1] = c
    <3>1. 0 \in 0..(n - m) /\ d + 1 + 0 = d + 1 /\ m + 0 = m
      BY <1>1
    <3> QED
      BY <3>1
  <2>3. IsKept(su[d], new[d + 1], su[d + 1], sx)
    BY <1>1, <1>4, <2>1, InComment
  <2>4. su[d].in = c /\ su[d].code = Begin(c).code
    BY <1>4, <2>1
  <2> QED
    BY <2>2, <2>3, <2>4 DEF IsKept
<1>6. st[m].in = "" /\ ~st[m].skip /\ st[m].code = Begin(c).code /\ ~Commented(st[m], sx) /\ st[m].had
  <2>1. PICK p \in 0..(n - 1) : p = m - 1 /\ p + 1 = m /\ p \in 0..n /\ 0 \in 0..n
    BY <1>1
  <2>2. \A j \in (0 + 1)..p : l[j] # st[0].in
    BY <1>1, <1>3, <2>1
  <2>3. st[p].in = c /\ Commented(st[p], sx) /\ st[p].code = Begin(c).code
    BY <1>1, <1>3, <2>1, <2>2, StaysOpen
  <2>4. Plainly(st[p], l[m], st[m], Opens(l[m], m = Lead(l), sx), sx)
    BY <2>1, PlainStep
  <2>5. st[p].had
    BY <2>1, <2>3, CommentMet
  <2> QED
    BY <2>3, <2>4, <2>5 DEF Plainly
<1>7. \A j \in 0..(n - m) : Alike(st[m + j], su[d + 1 + j])
  <2>1. Alike(st[m], su[d + 1])
    BY <1>5, <1>6 DEF Alike
  <2>2. ASSUME NEW j \in 1..(n - m) PROVE l[m + j] = new[(d + 1) + j] /\ (m + j = Lead(l) <=> (d + 1) + j = Lead(new))
    <3>1. ~IsSpace(l[m]) /\ ~IsSpace(new[d + 1])
      <4>1. 0 \in 0..(n - m) /\ d + 1 + 0 = d + 1 /\ m + 0 = m
        BY <1>1
      <4> QED
        BY <1>3, <4>1
    <3>2. m + j > m /\ (d + 1) + j > d + 1 /\ m + j \in Nat /\ (d + 1) + j \in Nat /\ m \in 1..Len(l) /\ d + 1 \in 1..Len(new)
      BY <1>1
    <3>3. m + j # Lead(l) /\ (d + 1) + j # Lead(new)
      BY <1>1, <3>1, <3>2, NotFirst
    <3>4. j \in 0..(n - m)
      BY <1>1
    <3> QED
      BY <3>3, <3>4
  <2>3. m \in 0..n /\ d + 1 \in 0..len /\ n - m \in Nat /\ m + (n - m) <= n /\ (d + 1) + (n - m) <= len
    BY <1>1
  <2>4. SameFrom(l, m, new, d + 1, n - m)
    BY <2>2 DEF SameFrom
  <2> QED
    BY <1>1, <2>1, <2>3, <2>4, RowsAlike
<1>8. ~su[len].label
  <2> SUFFICES ASSUME su[len].label PROVE FALSE
    OBVIOUS
  <2>1. len \in 0..len
    BY <1>1
  <2>2. PICK p \in 1..len : new[p] = Marker /\ Commented(su[p - 1], sx)
    BY <1>1, <2>1, LabelRead
  <2>3. CASE p <= d
    <3>1. p \in 1..d
      BY <1>1, <2>3
    <3> QED
      BY <1>3, <2>2, <3>1
  <2>4. CASE p = d + 1
    <3>1. 0 \in 0..(n - m) /\ d + 1 + 0 = d + 1 /\ m + 0 = m
      BY <1>1
    <3>2. new[p] = l[m]
      BY <2>4, <3>1
    <3> QED
      BY <1>3, <2>2, <3>2
  <2>5. CASE p > d + 1
    <3>1. PICK j \in 0..(n - m) : d + 1 + j = p - 1 /\ m + j \in m..n
      <4>1. p - 1 - (d + 1) \in 0..(n - m) /\ d + 1 + (p - 1 - (d + 1)) = p - 1 /\ m + (p - 1 - (d + 1)) \in m..n
        BY <1>1, <2>5
      <4> QED
        BY <4>1
    <3>2. ~Commented(st[m + j], sx)
      <4>1. m \in 0..n
        BY <1>1
      <4> QED
        BY <1>6, <3>1, <4>1, StaysClosed
    <3>3. Alike(st[m + j], su[p - 1])
      BY <1>7, <3>1
    <3> QED
      BY <2>2, <3>2, <3>3, AlikeComment
  <2> QED
    BY <1>1, <2>3, <2>4, <2>5
<1>9. Alike(st[n], su[len])
  <2>1. n - m \in 0..(n - m) /\ m + (n - m) = n /\ d + 1 + (n - m) = len
    BY <1>1
  <2> QED
    BY <1>7, <2>1
<1> QED
  BY <1>8, <1>9 DEF EndsAlike, Alike

\* What a row leaves the reader with.
EndOf(l, c, sx) == Scan(l, c, sx)[Len(l)]
CarriedTo(f, n, lines, sx) == f = [r \in 0..n |-> IF r = 0 THEN InCode ELSE Carried(EndOf(lines[r], f[r - 1], sx))]

LEMMA CarriesOver ==
  ASSUME NEW sx, NEW lines, NEW n \in Nat, n = Len(lines), NEW in, in = CarriedOver(lines, sx)
  PROVE  in[0] = InCode /\ \A r \in 1..n : in[r] = Carried(EndOf(lines[r], in[r - 1], sx))
<1> DEFINE There == {m \in 0..n : \E f : CarriedTo(f, m, lines, sx)}
<1>1. 0 \in There
  <2> DEFINE f == [i \in 0..0 |-> InCode]
  <2>1. CarriedTo(f, 0, lines, sx)
    BY DEF CarriedTo
  <2> QED
    BY <2>1
<1>2. ASSUME NEW m \in 0..(n - 1), m \in There PROVE m + 1 \in There
  <2>1. PICK f : CarriedTo(f, m, lines, sx)
    BY <1>2
  <2> DEFINE g == [i \in 0..(m + 1) |-> IF i = m + 1 THEN Carried(EndOf(lines[m + 1], f[m], sx)) ELSE f[i]]
  <2>2. ASSUME NEW i \in 0..(m + 1) PROVE g[i] = IF i = 0 THEN InCode ELSE Carried(EndOf(lines[i], g[i - 1], sx))
    <3>1. CASE i = m + 1
      <4>1. g[i] = Carried(EndOf(lines[m + 1], f[m], sx)) /\ i # 0 /\ i - 1 = m /\ g[m] = f[m]
        BY <3>1
      <4> HIDE DEF g
      <4> QED
        BY <3>1, <4>1
    <3>2. CASE i = 0
      <4>1. g[i] = f[0] /\ f[0] = InCode
        BY <2>1, <3>2 DEF CarriedTo
      <4> QED
        BY <3>2, <4>1
    <3>3. CASE i \in 1..m
      <4>1. g[i] = f[i] /\ g[i - 1] = f[i - 1] /\ i # 0
        BY <3>3
      <4>2. f[i] = Carried(EndOf(lines[i], f[i - 1], sx))
        BY <2>1, <3>3 DEF CarriedTo
      <4> HIDE DEF g
      <4> QED
        BY <4>1, <4>2
    <3> QED
      BY <3>1, <3>2, <3>3
  <2>3. g = [i \in 0..(m + 1) |-> g[i]]
    OBVIOUS
  <2>4. CarriedTo(g, m + 1, lines, sx)
    <3> HIDE DEF g
    <3> QED
      BY <2>2, <2>3 DEF CarriedTo
  <2> QED
    BY <2>4
<1>3. n \in There
  <2> HIDE DEF There
  <2>1. \A i \in 0..(n - 1) : i \in There => i + 1 \in There
    BY <1>2
  <2>2. \A i \in 0..n : i \in There
    BY <1>1, <2>1, Upwards
  <2> QED
    BY <2>2
<1> DEFINE after == CHOOSE f : CarriedTo(f, n, lines, sx)
<1>4. CarriedTo(after, n, lines, sx)
  BY <1>3
<1>5. in = after
  BY Zenon DEF CarriedOver, CarriedTo, EndOf, InCode
<1> HIDE DEF after
<1> QED
  BY <1>4, <1>5 DEF CarriedTo

\* A file: rows, what each is begun in, and what is read at the end of each.
File(lines, n, in, sx) ==
  /\ IsSyntax(sx) /\ n \in Nat /\ n = Len(lines) /\ DOMAIN lines = 1..n /\ IsList(lines)
  /\ \A r \in 1..n : IsList(lines[r])
  /\ in[0] = InCode
  /\ \A r \in 1..n : in[r] = Carried(EndOf(lines[r], in[r - 1], sx))

LEMMA EndGoes ==
  ASSUME NEW sx, IsSyntax(sx), NEW l, IsList(l), NEW c, MayBegin(c, sx), NEW e, e = EndOf(l, c, sx)
  PROVE  IsReader(e, sx) /\ MayBegin(Carried(e), sx)
<1>1. PICK n \in Nat : n = Len(l)
  BY DEF IsList
<1>2. Goes(Scan(l, c, sx), l, n, c, sx)
  BY <1>1, ScanGoes
<1>3. IsReader(e, sx)
  <2>1. n \in 0..n
    BY <1>1
  <2> QED
    BY <1>1, <1>2, <2>1 DEF Goes, EndOf
<1>4. e.in \in {""} \cup Quotes \cup Waits(sx)
  BY <1>3 DEF IsReader
<1> QED
  BY <1>3, <1>4 DEF Carried, MayBegin, Waits

LEMMA EachMayBegin ==
  ASSUME NEW sx, NEW lines, NEW n, NEW in, File(lines, n, in, sx)
  PROVE  n \in Nat /\ IsSyntax(sx) /\ \A r \in 0..n : MayBegin(in[r], sx)
<1>1. n \in Nat /\ IsSyntax(sx) /\ in[0] = InCode
  BY DEF File
<1>2. ASSUME NEW r \in 0..(n - 1), MayBegin(in[r], sx) PROVE MayBegin(in[r + 1], sx)
  <2>1. PICK k \in 1..n : k = r + 1 /\ k - 1 = r
    BY <1>1
  <2>2. in[k] = Carried(EndOf(lines[k], in[r], sx)) /\ IsList(lines[k])
    BY <2>1 DEF File
  <2> QED
    BY <1>1, <1>2, <2>1, <2>2, EndGoes
<1>3. MayBegin(in[0], sx)
  BY <1>1 DEF MayBegin, InCode
<1> DEFINE S == {r \in 0..n : MayBegin(in[r], sx)}
<1>4. 0 \in S /\ \A r \in 0..(n - 1) : r \in S => r + 1 \in S
  BY <1>1, <1>2, <1>3
<1>5. \A r \in S : MayBegin(in[r], sx)
  OBVIOUS
<1> HIDE DEF S
<1>6. \A r \in 0..n : r \in S
  BY <1>1, <1>4, Upwards
<1> QED
  BY <1>1, <1>5, <1>6

\* A row of which the reader says the same, and no label.
Rewritten(l, c, new, sx) ==
  /\ IsList(new)
  /\ Carried(EndOf(new, c, sx)) = Carried(EndOf(l, c, sx))
  /\ EndOf(new, c, sx).code = EndOf(l, c, sx).code
  /\ ~EndOf(new, c, sx).label

\* A file with some rows rewritten is read as before.
LEMMA FileKeeps ==
  ASSUME NEW sx, NEW lines, NEW n, NEW in, File(lines, n, in, sx),
         NEW out, NEW on, File(out, n, on, sx),
         \A r \in 1..n : out[r] = lines[r] \/ Rewritten(lines[r], in[r - 1], out[r], sx)
  PROVE  \A r \in 0..n : on[r] = in[r]
<1>1. n \in Nat /\ in[0] = on[0]
  BY DEF File
<1>2. ASSUME NEW r \in 0..(n - 1), on[r] = in[r] PROVE on[r + 1] = in[r + 1]
  <2>1. PICK k \in 1..n : k = r + 1 /\ k - 1 = r
    BY <1>1
  <2>2. in[k] = Carried(EndOf(lines[k], in[r], sx)) /\ on[k] = Carried(EndOf(out[k], in[r], sx))
    BY <1>2, <2>1 DEF File
  <2>3. out[k] = lines[k] \/ Carried(EndOf(out[k], in[r], sx)) = Carried(EndOf(lines[k], in[r], sx))
    BY <2>1 DEF Rewritten
  <2> QED
    BY <2>1, <2>2, <2>3
<1> DEFINE S == {r \in 0..n : on[r] = in[r]}
<1>4. 0 \in S /\ \A r \in 0..(n - 1) : r \in S => r + 1 \in S
  BY <1>1, <1>2
<1>5. \A r \in S : on[r] = in[r]
  OBVIOUS
<1> HIDE DEF S
<1>6. \A r \in 0..n : r \in S
  BY <1>1, <1>4, Upwards
<1> QED
  BY <1>5, <1>6

\* What is said of a file that is read.
IsRead(lines, n, in, sx, was) ==
  /\ was.in = in[n]
  /\ was.rows = [r \in 1..n |-> EndOf(lines[r], in[r - 1], sx).code]
  /\ was.labels = {r \in 1..n : EndOf(lines[r], in[r - 1], sx).label}
  /\ was.odd <=> \E r \in 1..n : EndOf(lines[r], in[r - 1], sx).odd \/ EndOf(lines[r], in[r - 1], sx).in \in Quotes

LEMMA ReadingIs ==
  ASSUME NEW sx, IsSyntax(sx), NEW lines, NEW n \in Nat, n = Len(lines), DOMAIN lines = 1..n, IsList(lines), \A r \in 1..n : IsList(lines[r]),
         NEW in, in = CarriedOver(lines, sx), NEW was, was = Reading(lines, sx)
  PROVE  File(lines, n, in, sx) /\ IsRead(lines, n, in, sx, was)
<1>1. File(lines, n, in, sx)
  BY CarriesOver DEF File
<1> DEFINE i == in[Len(lines)]
           c == [r \in DOMAIN lines |-> EndOf(lines[r], in[r - 1], sx).code]
           b == {r \in DOMAIN lines : EndOf(lines[r], in[r - 1], sx).label}
           o == \E r \in DOMAIN lines : EndOf(lines[r], in[r - 1], sx).odd \/ EndOf(lines[r], in[r - 1], sx).in \in Quotes
<1>2. was = [in |-> i, rows |-> c, labels |-> b, odd |-> o]
  BY Zenon DEF Reading, EndOf
<1>3. o \in BOOLEAN
  OBVIOUS
<1>4. was.in = i /\ was.rows = c /\ was.labels = b /\ was.odd = o
  <2> HIDE DEF i, c, b, o
  <2> QED
    BY <1>2, <1>3
<1>5. was.in = in[n] /\ was.rows = [r \in 1..n |-> EndOf(lines[r], in[r - 1], sx).code]
      /\ was.labels = {r \in 1..n : EndOf(lines[r], in[r - 1], sx).label}
  BY <1>4
<1>6. was.odd <=> \E r \in 1..n : EndOf(lines[r], in[r - 1], sx).odd \/ EndOf(lines[r], in[r - 1], sx).in \in Quotes
  BY <1>4
<1> QED
  BY <1>1, <1>5, <1>6 DEF IsRead

LEMMA UptoIs ==
  ASSUME NEW l, IsList(l), NEW n \in 0..Len(l), NEW k, k = Upto(l, n)
  PROVE  IsList(k) /\ Len(k) = n /\ \A j \in 1..n : k[j] = l[j]
<1>1. PICK S : l \in Seq(S)
  BY DEF IsList
<1>2. Len(l) \in Nat
  BY <1>1
<1>3. Min({n, Len(l)}) = n
  <2> DEFINE T == {n, Len(l)}
  <2>1. T \subseteq Nat /\ T # {} /\ n \in T /\ \A x \in T : n <= x
    BY <1>2
  <2>2. Min(T) \in T /\ \A x \in T : Min(T) <= x
    <3> HIDE DEF T
    <3> QED
      BY <2>1, LeastIs
  <2>3. Min(T) <= n /\ n <= Min(T) /\ Min(T) \in Nat
    BY <2>1, <2>2
  <2> QED
    BY <2>3
<1>4. k = SubSeq(l, 1, n)
  BY <1>3 DEF Upto
<1>5. k \in Seq(S) /\ Len(k) = n /\ \A j \in 1..n : k[j] = l[j]
  BY <1>1, <1>2, <1>4
<1> QED
  BY <1>5 DEF IsList

\* A row from a place on.
Tailed(k, l, n) == IsList(k) /\ Len(k) = Len(l) - n + 1 /\ \A j \in 0..(Len(l) - n) : k[1 + j] = l[n + j]

LEMMA FromIs ==
  ASSUME NEW l, IsList(l), NEW n \in 1..Len(l)
  PROVE  Tailed(From(l, n), l, n)
<1>0. PICK k : k = From(l, n)
  OBVIOUS
<1>1. PICK S : l \in Seq(S)
  BY DEF IsList
<1>2. Len(l) \in Nat
  BY <1>1
<1>3. k = SubSeq(l, n, Len(l))
  BY <1>0 DEF From
<1>4. k \in Seq(S) /\ Len(k) = Len(l) - n + 1 /\ \A j \in 1..(Len(l) - n + 1) : k[j] = l[n + j - 1]
  BY <1>1, <1>2, <1>3
<1>5. ASSUME NEW j \in 0..(Len(l) - n) PROVE k[1 + j] = l[n + j]
  <2>1. 1 + j \in 1..(Len(l) - n + 1) /\ n + (1 + j) - 1 = n + j
    BY <1>2
  <2> QED
    BY <1>4, <2>1
<1>6. IsList(k)
  BY <1>4 DEF IsList
<1>7. Tailed(k, l, n)
  BY <1>4, <1>5, <1>6 DEF Tailed
<1> QED
  BY <1>0, <1>7

\* One row and then another.
Joined(k, a, b) ==
  /\ Len(a) \in Nat /\ Len(b) \in Nat /\ IsList(k) /\ Len(k) = Len(a) + Len(b)
  /\ \A j \in 1..Len(a) : k[j] = a[j]
  /\ \A j \in 1..Len(b) : k[Len(a) + j] = b[j]

LEMMA JoinIs ==
  ASSUME NEW a, IsList(a), NEW b, IsList(b)
  PROVE  Joined(a \o b, a, b)
<1>0. PICK k : k = a \o b
  OBVIOUS
<1>1. PICK S : a \in Seq(S)
  BY DEF IsList
<1>2. PICK T : b \in Seq(T)
  BY DEF IsList
<1>3. a \in Seq(S \cup T) /\ b \in Seq(S \cup T)
  BY <1>1, <1>2
<1>4. Len(a) \in Nat /\ Len(b) \in Nat /\ k \in Seq(S \cup T) /\ Len(k) = Len(a) + Len(b)
  BY <1>0, <1>3
<1>5. \A j \in 1..(Len(a) + Len(b)) : k[j] = IF j <= Len(a) THEN a[j] ELSE b[j - Len(a)]
  BY <1>0, <1>3
<1>6. \A j \in 1..Len(a) : k[j] = a[j]
  BY <1>4, <1>5
<1>7. ASSUME NEW j \in 1..Len(b) PROVE k[Len(a) + j] = b[j]
  <2>1. PICK i \in 1..(Len(a) + Len(b)) : i = Len(a) + j /\ ~(i <= Len(a)) /\ i - Len(a) = j
    BY <1>4
  <2> QED
    BY <1>5, <2>1
<1> QED
  <2>1. Joined(k, a, b)
    BY <1>4, <1>6, <1>7 DEF IsList, Joined
  <2> QED
    BY <1>0, <2>1

\* The first closer from a place on.
Counts(l, i, r, w, row, from) == l[i] = w /\ (r = row => i >= from)
ClosedAt(lines, row, from, w, p) ==
  /\ p.row \in row..Len(lines) /\ p.at \in DOMAIN lines[p.row] /\ Counts(lines[p.row], p.at, p.row, w, row, from)
  /\ \A r \in row..(p.row - 1) : \A i \in DOMAIN lines[r] : ~Counts(lines[r], i, r, w, row, from)
  /\ \A i \in DOMAIN lines[p.row] : i < p.at => ~Counts(lines[p.row], i, p.row, w, row, from)

LEMMA PlaceIs ==
  ASSUME NEW row, NEW at, NEW p, p = [row |-> row, at |-> at]
  PROVE  p.row = row /\ p.at = at
OBVIOUS

LEMMA FindCloserIs ==
  ASSUME NEW lines, NEW n \in Nat, n = Len(lines), DOMAIN lines = 1..n, \A r \in 1..n : IsList(lines[r]),
         NEW row \in 1..n, NEW from, NEW w, NEW rows \in Nat, NEW p, p = FindCloser(lines, row, from, w, rows)
  PROVE  /\ p = NoPlace \/ ClosedAt(lines, row, from, w, p)
         /\ p = NoPlace \/ p.row <= row + rows - 1
         /\ p = NoPlace => \A r \in row..n : r <= row + rows - 1 => \A i \in DOMAIN lines[r] : ~Counts(lines[r], i, r, w, row, from)
         /\ NoPlace.row = 0 /\ NoPlace.at = 0
<1>0. PICK last : last = Min({n, row + rows - 1})
  OBVIOUS
<1> DEFINE on(r) == {i \in DOMAIN lines[r] : Counts(lines[r], i, r, w, row, from)}
           found == {r \in row..last : on(r) # {}}
<1>1. p = IF found = {} THEN NoPlace ELSE [row |-> Min(found), at |-> Min(on(Min(found)))]
  BY <1>0, Zenon DEF FindCloser, Counts
<1>2. last \in Nat /\ last <= n /\ last <= row + rows - 1 /\ (last = n \/ last = row + rows - 1)
  <2> DEFINE T == {n, row + rows - 1}
  <2>1. T \subseteq Nat /\ T # {}
    OBVIOUS
  <2>2. Min(T) \in T /\ \A x \in T : Min(T) <= x
    <3> HIDE DEF T
    <3> QED
      BY <2>1, LeastIs
  <2> QED
    BY <1>0, <2>2
<1>3. NoPlace.row = 0 /\ NoPlace.at = 0
  BY DEF NoPlace
<1>4. CASE found = {}
  <2>1. p = NoPlace
    BY <1>1, <1>4
  <2>2. ASSUME NEW r \in row..n, r <= row + rows - 1, NEW i \in DOMAIN lines[r] PROVE ~Counts(lines[r], i, r, w, row, from)
    <3>1. r \in row..last
      BY <1>2, <2>2
    <3>2. on(r) = {}
      BY <1>4, <3>1
    <3> QED
      BY <3>2
  <2> QED
    BY <1>3, <2>1, <2>2
<1>5. CASE found # {}
  <2>1. found \subseteq Nat
    BY <1>2
  <2>2. PICK q : q = Min(found) /\ q \in found /\ \A x \in found : q <= x
    <3> HIDE DEF found
    <3> QED
      BY <1>5, <2>1, LeastIs
  <2>3. q \in 1..n /\ q \in row..n /\ q <= row + rows - 1 /\ on(q) # {}
    <3>1. q \in row..last /\ on(q) # {}
      <4>1. \A x \in found : x \in row..last /\ on(x) # {}
        OBVIOUS
      <4> HIDE DEF found, on
      <4> QED
        BY <2>2, <4>1
    <3> HIDE DEF on
    <3> QED
      BY <1>2, <3>1
  <2>4. on(q) \subseteq Nat
    <3>1. DOMAIN lines[q] \subseteq Nat
      BY <2>3 DEF IsList
    <3> QED
      BY <3>1
  <2>5. PICK m : m = Min(on(q)) /\ m \in on(q) /\ \A x \in on(q) : m <= x
    <3> HIDE DEF on
    <3> QED
      BY <2>3, <2>4, LeastIs
  <2>6. p = [row |-> q, at |-> m]
    BY <1>1, <1>5, <2>2, <2>5
  <2>7. p.row = q /\ p.at = m
    BY <2>6, PlaceIs
  <2>8. m \in DOMAIN lines[q] /\ Counts(lines[q], m, q, w, row, from) /\ m \in Nat
    BY <2>4, <2>5
  <2>9. ASSUME NEW r \in row..(q - 1), NEW i \in DOMAIN lines[r] PROVE ~Counts(lines[r], i, r, w, row, from)
    <3>1. r \notin found /\ r \in row..last
      <4>1. r \in row..last /\ ~(q <= r)
        BY <1>2, <2>2, <2>3
      <4> QED
        BY <2>2, <4>1
    <3>2. on(r) = {}
      BY <3>1
    <3> QED
      BY <3>2
  <2>10. ASSUME NEW i \in DOMAIN lines[q], i < m PROVE ~Counts(lines[q], i, q, w, row, from)
    <3>1. i \in on(q) => i \in Nat /\ m <= i
      BY <2>4, <2>5
    <3>2. i \notin on(q)
      BY <2>8, <2>10, <3>1
    <3> QED
      BY <3>2
  <2>11. ClosedAt(lines, row, from, w, p)
    <3> HIDE DEF on, found
    <3> QED
      BY <2>3, <2>7, <2>8, <2>9, <2>10 DEF ClosedAt
  <2>12. p # NoPlace
    BY <1>3, <2>3, <2>7
  <2> QED
    BY <1>3, <2>3, <2>7, <2>11, <2>12
<1> QED
  BY <1>4, <1>5

\* A row of a file a stripper can tell the comments of.
RowIs(st, l, n, c, e, sx) == PlainRow(st, l, n, c, sx) /\ MayBegin(c, sx) /\ e = Carried(st[n]) /\ st[n].in \notin Quotes
Row(lines, in, r, sx) == Scan(lines[r], in[r - 1], sx)
PlainFile(lines, n, in, sx) ==
  /\ File(lines, n, in, sx)
  /\ \A r \in 1..n : /\ IsLine(lines[r]) /\ ~EndOf(lines[r], in[r - 1], sx).odd
                     /\ EndOf(lines[r], in[r - 1], sx).in \notin Quotes

LEMMA RowOf ==
  ASSUME NEW sx, NEW lines, NEW n, NEW in, PlainFile(lines, n, in, sx), NEW r \in 1..n, NEW m, m = Len(lines[r])
  PROVE  /\ RowIs(Row(lines, in, r, sx), lines[r], m, in[r - 1], in[r], sx)
         /\ Row(lines, in, r, sx)[m] = EndOf(lines[r], in[r - 1], sx)
         /\ IsSyntax(sx) /\ m \in Nat /\ DOMAIN lines[r] = 1..m /\ IsList(lines[r]) /\ n \in Nat
<1>1. n \in Nat /\ IsSyntax(sx) /\ IsLine(lines[r]) /\ in[r] = Carried(EndOf(lines[r], in[r - 1], sx))
  BY DEF PlainFile, File
<1>2. m \in Nat /\ DOMAIN lines[r] = 1..m /\ IsList(lines[r])
  BY <1>1, LineIs
<1>3. PICK c : c = in[r - 1]
  OBVIOUS
<1>4. MayBegin(c, sx)
  <2>1. r - 1 \in 0..n
    BY <1>1
  <2> QED
    BY <1>3, <2>1, EachMayBegin DEF PlainFile
<1>5. PICK st : st = Row(lines, in, r, sx)
  OBVIOUS
<1>6. st = Scan(lines[r], c, sx) /\ st[m] = EndOf(lines[r], c, sx)
  BY <1>3, <1>5 DEF Row, EndOf
<1>7. Goes(st, lines[r], m, c, sx)
  BY <1>1, <1>2, <1>4, <1>6, ScanGoes
<1>8. ~st[m].odd /\ st[m].in \notin Quotes
  BY <1>3, <1>6 DEF PlainFile
<1>9. RowIs(st, lines[r], m, c, in[r], sx)
  BY <1>1, <1>3, <1>4, <1>6, <1>7, <1>8 DEF RowIs, PlainRow
<1> QED
  BY <1>1, <1>2, <1>3, <1>5, <1>6, <1>9

LineEnd == "eol"

LEMMA CarryIs ==
  ASSUME NEW sx, NEW l, NEW n, NEW c, NEW e, NEW st, RowIs(st, l, n, c, e, sx)
  PROVE  /\ n \in Nat /\ IsSyntax(sx) /\ PlainRow(st, l, n, c, sx) /\ st[0].in = c
         /\ c = InCode \/ c \in Closers(sx)
         /\ e = InCode \/ e \in Closers(sx)
         /\ InCode \notin Closers(sx)
         /\ e \in Closers(sx) => Commented(st[n], sx) /\ st[n].in = e
         /\ \A w \in Closers(sx) : st[n].in = w => e = w
         /\ ~Commented(st[n], sx) => e = InCode
         /\ st[n].in = LineEnd => e = InCode
<1>1. n \in Nat /\ st[0] = Begin(c) /\ IsSyntax(sx) /\ PlainRow(st, l, n, c, sx) /\ MayBegin(c, sx) /\ e = Carried(st[n]) /\ st[n].in \notin Quotes
  BY PlainAllAlong DEF RowIs, PlainRow
<1>2. IsReader(st[n], sx)
  <2>1. n \in 0..n
    BY <1>1
  <2> QED
    BY <1>1, <2>1, PlainAllAlong
<1>3. PICK x : x = st[n].in
  OBVIOUS
<1>4. x \in {""} \cup Waits(sx)
  BY <1>1, <1>2, <1>3 DEF IsReader
<1>5. e = IF x = "eol" THEN "" ELSE x
  BY <1>1, <1>3 DEF Carried
<1>6. "eol" \notin Closers(sx) /\ "" \notin Closers(sx) /\ "" # "eol"
  BY <1>1, SyntaxIs DEF Waits
<1>7. /\ e = InCode \/ e \in Closers(sx)
      /\ e \in Closers(sx) => x \in Waits(sx) /\ x = e
      /\ \A w \in Closers(sx) : x = w => e = w
      /\ x \notin Waits(sx) => e = InCode
      /\ x = LineEnd => e = InCode
  BY <1>4, <1>5, <1>6 DEF Waits, InCode, LineEnd
<1>8. st[0].in = c
  BY <1>1, BeginIs
<1>9. (c = InCode \/ c \in Closers(sx)) /\ InCode \notin Closers(sx)
  BY <1>1, <1>6 DEF MayBegin, InCode
<1> QED
  BY <1>1, <1>3, <1>7, <1>8, <1>9 DEF Commented

\* A row that begins in a comment ends in it, or holds its closer.
LEMMA RowHolds ==
  ASSUME NEW sx, NEW l, NEW n, NEW w, NEW e, NEW st, RowIs(st, l, n, w, e, sx), w \in Closers(sx), \A j \in 1..n : l[j] # w
  PROVE  e = w /\ \A j \in 1..n : l[j] \notin Signs(sx)
<1>1. n \in Nat /\ PlainRow(st, l, n, w, sx) /\ st[0].in = w /\ IsSyntax(sx) /\ \A x \in Closers(sx) : st[n].in = x => e = x
  BY CarryIs
<1>2. Commented(st[0], sx)
  BY <1>1 DEF Commented, Waits
<1>3. PICK i \in 0..n : i = 0 /\ n \in i..n /\ i + 1 = 1
  BY <1>1
<1>4. Commented(st[i], sx) /\ st[i].in = w /\ \A j \in (i + 1)..n : l[j] # st[i].in
  BY <1>1, <1>2, <1>3
<1>5. \A j \in i..n : /\ Commented(st[j], sx) /\ st[j].in = st[i].in /\ st[j].code = st[i].code
                      /\ j # i => l[j] \notin Signs(sx)
  BY <1>1, <1>3, <1>4, StaysOpen
<1>6. st[n].in = w
  BY <1>3, <1>4, <1>5
<1>7. \A j \in 1..n : j \in i..n /\ j # i
  BY <1>1, <1>3
<1> QED
  BY <1>1, <1>5, <1>6, <1>7

LEMMA RowEnds ==
  ASSUME NEW sx, NEW l, NEW n, NEW w, NEW e, NEW st, RowIs(st, l, n, w, e, sx), w \in Closers(sx), NEW m \in 1..n, l[m] = w
  PROVE  e = InCode
<1>1. n \in Nat /\ PlainRow(st, l, n, w, sx) /\ st[0].in = w /\ IsSyntax(sx) /\ (~Commented(st[n], sx) => e = InCode)
  BY CarryIs
<1>2. PICK i \in 0..n : i = 0 /\ n \in i..n /\ i + 1 = 1 /\ Commented(st[i], sx)
  <2>1. Commented(st[0], sx)
    BY <1>1 DEF Commented, Waits
  <2> QED
    BY <1>1, <2>1
<1>3. ASSUME Commented(st[n], sx) PROVE FALSE
  <2>1. \A j \in (i + 1)..n : l[j] # st[i].in
    BY <1>1, <1>2, <1>3, NotClosed
  <2> QED
    BY <1>1, <1>2, <2>1
<1> QED
  BY <1>1, <1>3

\* The same of one it opens.
LEMMA OpenHolds ==
  ASSUME NEW sx, NEW l, NEW n, NEW c, NEW e, NEW st, RowIs(st, l, n, c, e, sx), NEW k \in 1..n, OpensAt(st, l, k, sx),
         NEW w, st[k].in = w, \A j \in (k + 1)..n : l[j] # w
  PROVE  /\ c = InCode /\ Commented(st[n], sx) /\ st[n].in = w
         /\ w \in Closers(sx) => e = w
<1>1. n \in Nat /\ PlainRow(st, l, n, c, sx) /\ (\A x \in Closers(sx) : st[n].in = x => e = x)
  BY CarryIs
<1>2. Commented(st[k], sx) /\ c = InCode
  BY <1>1, OpeningIs
<1>3. k \in 0..n /\ n \in k..n
  BY <1>1
<1>4. \A j \in (k + 1)..n : l[j] # st[k].in
  OBVIOUS
<1>5. \A j \in k..n : /\ Commented(st[j], sx) /\ st[j].in = st[k].in /\ st[j].code = st[k].code
                      /\ j # k => l[j] \notin Signs(sx)
  BY <1>1, <1>2, <1>3, <1>4, StaysOpen
<1> QED
  BY <1>1, <1>2, <1>3, <1>5

LEMMA OpenEnds ==
  ASSUME NEW sx, NEW l, NEW n, NEW c, NEW e, NEW st, RowIs(st, l, n, c, e, sx), NEW k \in 1..n, OpensAt(st, l, k, sx),
         NEW m \in (k + 1)..n, l[m] = st[k].in
  PROVE  c = InCode /\ e = InCode
<1>1. n \in Nat /\ PlainRow(st, l, n, c, sx) /\ (~Commented(st[n], sx) => e = InCode)
  BY CarryIs
<1>2. Commented(st[k], sx) /\ c = InCode
  BY <1>1, OpeningIs
<1>3. k \in 0..n /\ n \in k..n
  BY <1>1
<1>4. ASSUME Commented(st[n], sx) PROVE FALSE
  <2>1. \A j \in (k + 1)..n : l[j] # st[k].in
    BY <1>1, <1>2, <1>3, <1>4, NotClosed
  <2> QED
    BY <2>1
<1> QED
  BY <1>1, <1>2, <1>4

\* Where a comment is opened.
Opening(lines, in, o, k, w, sx) ==
  k \in DOMAIN lines[o] /\ OpensAt(Row(lines, in, o, sx), lines[o], k, sx) /\ Row(lines, in, o, sx)[k].in = w

\* It goes on over the rows without its closer.
LEMMA AlongRows ==
  ASSUME NEW sx, NEW lines, NEW n, NEW in, PlainFile(lines, n, in, sx), NEW o \in 1..n, NEW w \in Closers(sx), NEW k,
         Opening(lines, in, o, k, w, sx), NEW z \in Nat, z <= n, z >= o,
         \A r \in o..z : \A i \in DOMAIN lines[r] : ~Counts(lines[r], i, r, w, o, k + 1)
  PROVE  \A i \in o..z : in[i] = w
<1>0. n \in Nat
  BY RowOf
<1>1. in[o] = w
  <2>1. PICK m : m = Len(lines[o])
    OBVIOUS
  <2>2. PICK st : st = Row(lines, in, o, sx)
    OBVIOUS
  <2>3. RowIs(st, lines[o], m, in[o - 1], in[o], sx) /\ m \in Nat /\ DOMAIN lines[o] = 1..m
    BY <2>1, <2>2, RowOf
  <2>4. k \in 1..m /\ OpensAt(st, lines[o], k, sx) /\ st[k].in = w
    BY <2>2, <2>3 DEF Opening
  <2>5. \A j \in (k + 1)..m : lines[o][j] # w
    <3>1. o \in o..z
      BY <1>0
    <3> QED
      BY <2>3, <2>4, <3>1 DEF Counts
  <2> QED
    BY <2>3, <2>4, <2>5, OpenHolds
<1>2. ASSUME NEW r \in o..(z - 1), in[r] = w PROVE in[r + 1] = w
  <2>1. PICK q \in 1..n : q = r + 1 /\ q - 1 = r /\ q \in o..z /\ q # o
    BY <1>0
  <2>2. PICK m : m = Len(lines[q])
    OBVIOUS
  <2>3. PICK st : st = Row(lines, in, q, sx)
    OBVIOUS
  <2>4. RowIs(st, lines[q], m, in[q - 1], in[q], sx) /\ m \in Nat /\ DOMAIN lines[q] = 1..m
    BY <2>2, <2>3, RowOf
  <2>5. RowIs(st, lines[q], m, w, in[q], sx)
    BY <1>2, <2>1, <2>4
  <2>6. \A j \in 1..m : lines[q][j] # w
    BY <2>1, <2>4 DEF Counts
  <2> QED
    BY <2>1, <2>5, <2>6, RowHolds
<1> DEFINE S == {i \in o..z : in[i] = w}
<1>3. o \in S /\ \A i \in o..(z - 1) : i \in S => i + 1 \in S
  BY <1>0, <1>1, <1>2
<1>4. \A i \in S : in[i] = w
  OBVIOUS
<1>5. o \in 0..z
  BY <1>0
<1> HIDE DEF S
<1>6. \A i \in o..z : i \in S
  BY <1>3, <1>5, UpFrom
<1> QED
  BY <1>4, <1>6

\* The cuts, as the stripper makes them.
LEMMA SameRow ==
  ASSUME NEW sx, NEW l, NEW c, NEW new, IsList(new), NEW x, x = EndOf(l, c, sx), NEW y, y = EndOf(new, c, sx), EndsAlike(x, y)
  PROVE  Rewritten(l, c, new, sx)
<1>1. Carried(y) = Carried(x)
  BY DEF EndsAlike, Carried
<1> QED
  BY <1>1 DEF EndsAlike, Rewritten

\* The row and what is read at its end.
RowEnd(st, l, n, c, e, sx) == RowIs(st, l, n, c, e, sx) /\ st[n] = EndOf(l, c, sx) /\ n \in Nat /\ n = Len(l) /\ IsList(l) /\ IsSyntax(sx) /\ MayBegin(c, sx)

LEMMA NewGoes ==
  ASSUME NEW sx, IsSyntax(sx), NEW c, MayBegin(c, sx), NEW new, IsList(new), NEW k, k = Len(new), NEW su, su = Scan(new, c, sx)
  PROVE  Goes(su, new, k, c, sx) /\ su[k] = EndOf(new, c, sx)
<1>1. k \in Nat
  BY DEF IsList
<1> QED
  BY <1>1, ScanGoes DEF EndOf

LEMMA TailCut ==
  ASSUME NEW sx, NEW l, NEW n, NEW c, NEW e, NEW st, RowEnd(st, l, n, c, e, sx), NEW k \in 1..n, OpensAt(st, l, k, sx),
         Commented(st[n], sx), NEW new, new = Upto(l, k)
  PROVE  Rewritten(l, c, new, sx)
<1>1. n \in Nat /\ n = Len(l) /\ IsList(l) /\ PlainRow(st, l, n, c, sx) /\ st[n] = EndOf(l, c, sx) /\ IsSyntax(sx) /\ MayBegin(c, sx)
  BY DEF RowEnd, RowIs
<1>2. IsList(new) /\ Len(new) = k /\ \A j \in 1..k : new[j] = l[j]
  <2>1. k \in 0..Len(l)
    BY <1>1
  <2> QED
    BY <1>1, <2>1, UptoIs
<1>3. PICK su : su = Scan(new, c, sx)
  OBVIOUS
<1>4. Goes(su, new, k, c, sx) /\ su[k] = EndOf(new, c, sx)
  <2>1. IsSyntax(sx) /\ MayBegin(c, sx) /\ IsList(new) /\ k = Len(new) /\ su = Scan(new, c, sx)
    BY <1>1, <1>2, <1>3
  <2> QED
    BY ONLY <2>1, NewGoes
<1>5. EndsAlike(st[n], su[k])
  BY <1>1, <1>2, <1>4, CutTail
<1> QED
  BY <1>1, <1>2, <1>4, <1>5, SameRow

LEMMA AllCut ==
  ASSUME NEW sx, NEW l, NEW n, NEW c, NEW e, NEW st, RowEnd(st, l, n, c, e, sx), c \in Closers(sx), \A j \in 1..n : l[j] # c,
         NEW new, new = <<>>
  PROVE  Rewritten(l, c, new, sx)
<1>1. n \in Nat /\ PlainRow(st, l, n, c, sx) /\ st[n] = EndOf(l, c, sx) /\ IsSyntax(sx) /\ MayBegin(c, sx)
  BY DEF RowEnd, RowIs
<1>2. IsList(new) /\ Len(new) = 0
  <2>1. new \in Seq({}) /\ Len(new) = 0
    OBVIOUS
  <2> QED
    BY <2>1 DEF IsList
<1>3. PICK su : su = Scan(new, c, sx)
  OBVIOUS
<1>4. Goes(su, new, 0, c, sx) /\ su[0] = EndOf(new, c, sx)
  <2>1. IsSyntax(sx) /\ MayBegin(c, sx) /\ IsList(new) /\ 0 = Len(new) /\ su = Scan(new, c, sx)
    BY <1>1, <1>2, <1>3
  <2> QED
    BY ONLY <2>1, NewGoes
<1>5. EndsAlike(st[n], su[0])
  BY <1>1, <1>4, CutAll
<1> QED
  BY <1>1, <1>2, <1>4, <1>5, SameRow

LEMMA MiddleCut ==
  ASSUME NEW sx, NEW l, NEW n, NEW c, NEW e, NEW st, RowEnd(st, l, n, c, e, sx), NEW k \in 1..n, OpensAt(st, l, k, sx),
         NEW m \in (k + 1)..n, l[m] = st[k].in, \A j \in (k + 1)..(m - 1) : l[j] # st[k].in,
         NEW s, IsSpace(s), NEW new, new = Upto(l, k) \o <<s>> \o From(l, m)
  PROVE  Rewritten(l, c, new, sx)
<1>1. n \in Nat /\ n = Len(l) /\ IsList(l) /\ PlainRow(st, l, n, c, sx) /\ st[n] = EndOf(l, c, sx) /\ IsSyntax(sx) /\ MayBegin(c, sx)
  BY DEF RowEnd, RowIs
<1>2. PICK a, b, f : a = Upto(l, k) /\ b = a \o <<s>> /\ f = From(l, m)
  OBVIOUS
<1>3. IsList(a) /\ Len(a) = k /\ \A j \in 1..k : a[j] = l[j]
  <2>1. k \in 0..Len(l)
    BY <1>1
  <2> QED
    BY <1>1, <1>2, <2>1, UptoIs
<1>4. IsList(b) /\ Len(b) = k + 1 /\ (\A j \in 1..k : b[j] = l[j]) /\ IsSpace(b[k + 1])
  <2>1. IsList(<<s>>) /\ Len(<<s>>) = 1 /\ <<s>>[1] = s
    <3>1. <<s>> \in Seq({s}) /\ Len(<<s>>) = 1 /\ <<s>>[1] = s
      OBVIOUS
    <3> QED
      BY <3>1 DEF IsList
  <2>2. PICK t : t = <<s>>
    OBVIOUS
  <2>3. IsList(b) /\ Len(b) = Len(a) + Len(t) /\ (\A j \in 1..Len(a) : b[j] = a[j]) /\ \A j \in 1..Len(t) : b[Len(a) + j] = t[j]
    <3>1. IsList(a) /\ IsList(t) /\ b = a \o t
      BY <1>2, <1>3, <2>1, <2>2
    <3>2. Joined(a \o t, a, t)
      BY ONLY <3>1, JoinIs
    <3> QED
      BY ONLY <3>1, <3>2 DEF Joined
  <2> QED
    BY <1>3, <2>1, <2>2, <2>3
<1>5. IsList(f) /\ Len(f) = n - m + 1 /\ \A j \in 0..(n - m) : f[1 + j] = l[m + j]
  <2>1. m \in 1..Len(l)
    BY <1>1
  <2>2. IsList(l) /\ f = From(l, m)
    BY <1>1, <1>2
  <2>3. Tailed(From(l, m), l, m)
    BY ONLY <2>1, <2>2, FromIs
  <2>4. IsList(f) /\ Len(f) = Len(l) - m + 1 /\ \A j \in 0..(Len(l) - m) : f[1 + j] = l[m + j]
    BY ONLY <2>2, <2>3 DEF Tailed
  <2> QED
    BY <1>1, <2>4
<1>6. PICK len : len = k + 2 + (n - m)
  OBVIOUS
<1>7. /\ IsList(new) /\ Len(new) = len
      /\ \A j \in 1..k : new[j] = l[j]
      /\ IsSpace(new[k + 1])
      /\ \A j \in 0..(n - m) : new[k + 2 + j] = l[m + j]
  <2>1. new = b \o f
    BY <1>2
  <2>2. /\ IsList(new) /\ Len(new) = Len(b) + Len(f)
        /\ \A j \in 1..Len(b) : new[j] = b[j]
        /\ \A j \in 1..Len(f) : new[Len(b) + j] = f[j]
    <3>1. IsList(b) /\ IsList(f) /\ new = b \o f
      BY <1>4, <1>5, <2>1
    <3>2. Joined(b \o f, b, f)
      BY ONLY <3>1, JoinIs
    <3> QED
      BY ONLY <3>1, <3>2 DEF Joined
  <2>3. ASSUME NEW j \in 0..(n - m) PROVE new[k + 2 + j] = l[m + j]
    <3>1. 1 + j \in 1..Len(f) /\ Len(b) + (1 + j) = k + 2 + j
      BY <1>1, <1>4, <1>5
    <3>2. new[Len(b) + (1 + j)] = f[1 + j]
      BY <2>2, <3>1
    <3> QED
      BY <1>5, <3>1, <3>2
  <2>4. \A j \in 1..k : new[j] = l[j]
    BY <1>1, <1>4, <2>2
  <2>5. IsSpace(new[k + 1])
    <3>1. k + 1 \in 1..Len(b)
      BY <1>1, <1>4
    <3> QED
      BY <1>4, <2>2, <3>1
  <2>6. Len(new) = len
    BY <1>1, <1>4, <1>5, <1>6, <2>2
  <2> QED
    BY <2>2, <2>3, <2>4, <2>5, <2>6
<1>8. PICK su : su = Scan(new, c, sx)
  OBVIOUS
<1>9. Goes(su, new, len, c, sx) /\ su[len] = EndOf(new, c, sx)
  <2>1. IsSyntax(sx) /\ MayBegin(c, sx) /\ IsList(new) /\ len = Len(new) /\ su = Scan(new, c, sx)
    BY <1>1, <1>7, <1>8
  <2> QED
    BY ONLY <2>1, NewGoes
<1>10. EndsAlike(st[n], su[len])
  <2>1. PlainRow(st, l, n, c, sx) /\ len = k + 2 + (n - m)
    BY <1>1, <1>6
  <2> QED
    BY <1>7, <1>9, <2>1, CutMiddle
<1> QED
  BY <1>1, <1>7, <1>9, <1>10, SameRow

LEMMA HeadCut ==
  ASSUME NEW sx, NEW l, NEW n, NEW c, NEW e, NEW st, RowEnd(st, l, n, c, e, sx), c \in Closers(sx),
         NEW m \in 1..n, l[m] = c, \A j \in 1..(m - 1) : l[j] # c,
         NEW new, new = Upto(l, Lead(l) - 1) \o From(l, m)
  PROVE  Rewritten(l, c, new, sx)
<1>1. n \in Nat /\ n = Len(l) /\ IsList(l) /\ PlainRow(st, l, n, c, sx) /\ st[n] = EndOf(l, c, sx) /\ IsSyntax(sx) /\ MayBegin(c, sx)
  BY DEF RowEnd, RowIs
<1>2. PICK d : d = Lead(l) - 1
  OBVIOUS
<1>3. d \in Nat /\ d < n /\ \A j \in 1..d : IsSpace(l[j])
  <2>1. ~IsSpace(l[m])
    BY <1>1, NoSpace DEF Waits
  <2>2. Lead(l) \in 0..n /\ (Lead(l) # 0 => \A i \in 1..(Lead(l) - 1) : IsSpace(l[i])) /\ (Lead(l) = 0 => \A i \in 1..n : IsSpace(l[i]))
    BY <1>1, LeadAt
  <2>3. Lead(l) # 0
    BY <2>1, <2>2
  <2> QED
    BY <1>1, <1>2, <2>2, <2>3
<1>4. PICK a, f : a = Upto(l, d) /\ f = From(l, m)
  OBVIOUS
<1>5. IsList(a) /\ Len(a) = d /\ \A j \in 1..d : a[j] = l[j]
  <2>1. d \in 0..Len(l)
    BY <1>1, <1>3
  <2> QED
    BY <1>1, <1>4, <2>1, UptoIs
<1>6. IsList(f) /\ Len(f) = n - m + 1 /\ \A j \in 0..(n - m) : f[1 + j] = l[m + j]
  <2>1. m \in 1..Len(l)
    BY <1>1
  <2>2. IsList(l) /\ f = From(l, m)
    BY <1>1, <1>4
  <2>3. Tailed(From(l, m), l, m)
    BY ONLY <2>1, <2>2, FromIs
  <2>4. IsList(f) /\ Len(f) = Len(l) - m + 1 /\ \A j \in 0..(Len(l) - m) : f[1 + j] = l[m + j]
    BY ONLY <2>2, <2>3 DEF Tailed
  <2> QED
    BY <1>1, <2>4
<1>7. PICK len : len = d + 1 + (n - m)
  OBVIOUS
<1>8. /\ IsList(new) /\ Len(new) = len
      /\ \A j \in 1..d : IsSpace(new[j])
      /\ \A j \in 0..(n - m) : new[d + 1 + j] = l[m + j]
  <2>1. new = a \o f
    BY <1>2, <1>4
  <2>2. /\ IsList(new) /\ Len(new) = Len(a) + Len(f)
        /\ \A j \in 1..Len(a) : new[j] = a[j]
        /\ \A j \in 1..Len(f) : new[Len(a) + j] = f[j]
    <3>1. IsList(a) /\ IsList(f) /\ new = a \o f
      BY <1>5, <1>6, <2>1
    <3>2. Joined(a \o f, a, f)
      BY ONLY <3>1, JoinIs
    <3> QED
      BY ONLY <3>1, <3>2 DEF Joined
  <2>3. ASSUME NEW j \in 0..(n - m) PROVE new[d + 1 + j] = l[m + j]
    <3>1. 1 + j \in 1..Len(f) /\ Len(a) + (1 + j) = d + 1 + j
      BY <1>1, <1>3, <1>5, <1>6
    <3>2. new[Len(a) + (1 + j)] = f[1 + j]
      BY <2>2, <3>1
    <3> QED
      BY <1>6, <3>1, <3>2
  <2>4. \A j \in 1..d : IsSpace(new[j])
    BY <1>3, <1>5, <2>2
  <2>6. Len(new) = len
    BY <1>1, <1>3, <1>5, <1>6, <1>7, <2>2
  <2> QED
    BY <2>2, <2>3, <2>4, <2>6
<1>9. PICK su : su = Scan(new, c, sx)
  OBVIOUS
<1>10. Goes(su, new, len, c, sx) /\ su[len] = EndOf(new, c, sx)
  <2>1. IsSyntax(sx) /\ MayBegin(c, sx) /\ IsList(new) /\ len = Len(new) /\ su = Scan(new, c, sx)
    BY <1>1, <1>8, <1>9
  <2> QED
    BY ONLY <2>1, NewGoes
<1>11. EndsAlike(st[n], su[len])
  <2>1. PlainRow(st, l, n, c, sx) /\ c \in Closers(sx) /\ m \in 1..n /\ l[m] = c /\ \A j \in 1..(m - 1) : l[j] # c
    BY <1>1
  <2>2. d \in Nat /\ IsList(new) /\ len = d + 1 + (n - m) /\ Goes(su, new, len, c, sx)
    BY <1>3, <1>7, <1>8, <1>10
  <2>3. (\A j \in 1..d : IsSpace(new[j])) /\ \A j \in 0..(n - m) : new[d + 1 + j] = l[m + j]
    BY <1>8
  <2> QED
    BY ONLY <2>1, <2>2, <2>3, CutHead
<1> QED
  BY <1>1, <1>8, <1>10, <1>11, SameRow

LEMMA RowEndOf ==
  ASSUME NEW sx, NEW lines, NEW n, NEW in, PlainFile(lines, n, in, sx), NEW r \in 1..n
  PROVE  \E st, m : /\ st = Row(lines, in, r, sx) /\ RowEnd(st, lines[r], m, in[r - 1], in[r], sx)
                    /\ m \in Nat /\ DOMAIN lines[r] = 1..m /\ n \in Nat
<1>1. PICK st, m : st = Row(lines, in, r, sx) /\ m = Len(lines[r])
  OBVIOUS
<1>2. /\ RowIs(st, lines[r], m, in[r - 1], in[r], sx) /\ st[m] = EndOf(lines[r], in[r - 1], sx)
      /\ IsSyntax(sx) /\ m \in Nat /\ DOMAIN lines[r] = 1..m /\ IsList(lines[r]) /\ n \in Nat
  BY <1>1, RowOf
<1>3. MayBegin(in[r - 1], sx)
  BY <1>2 DEF RowIs
<1>4. RowEnd(st, lines[r], m, in[r - 1], in[r], sx)
  BY <1>1, <1>2, <1>3 DEF RowEnd
<1> QED
  BY <1>1, <1>2, <1>4

Space == " "

\* A block blanked from its opener to its closer.
LEMMA WithinRow ==
  ASSUME NEW sx, NEW lines, NEW n, NEW in, PlainFile(lines, n, in, sx), NEW o \in 1..n, NEW w \in Closers(sx), NEW k,
         Opening(lines, in, o, k, w, sx), NEW m \in DOMAIN lines[o], lines[o][m] = w, m > k,
         \A i \in DOMAIN lines[o] : i > k /\ i < m => lines[o][i] # w
  PROVE  /\ Rewritten(lines[o], in[o - 1], Upto(lines[o], k) \o <<Space>> \o From(lines[o], m), sx)
         /\ in[o - 1] = InCode /\ in[o] = InCode
<1>1. PICK st, h : /\ st = Row(lines, in, o, sx) /\ RowEnd(st, lines[o], h, in[o - 1], in[o], sx)
                   /\ h \in Nat /\ DOMAIN lines[o] = 1..h /\ n \in Nat
  BY RowEndOf
<1>2. PICK l, c, e : l = lines[o] /\ c = in[o - 1] /\ e = in[o]
  OBVIOUS
<1>3. RowEnd(st, l, h, c, e, sx) /\ k \in 1..h /\ OpensAt(st, l, k, sx) /\ st[k].in = w
  BY <1>1, <1>2 DEF Opening
<1>4. m \in (k + 1)..h /\ l[m] = st[k].in /\ \A j \in (k + 1)..(m - 1) : l[j] # st[k].in
  BY <1>1, <1>2, <1>3
<1>5. IsSpace(Space)
  BY DEF IsSpace, Space
<1>6. RowIs(st, l, h, c, e, sx)
  BY <1>3 DEF RowEnd
<1>7. c = InCode /\ e = InCode
  BY ONLY <1>3, <1>4, <1>6, OpenEnds
<1>8. Rewritten(l, c, Upto(l, k) \o <<Space>> \o From(l, m), sx)
  BY ONLY <1>3, <1>4, <1>5, MiddleCut
<1> QED
  BY <1>2, <1>7, <1>8

LEMMA FromRow ==
  ASSUME NEW sx, NEW lines, NEW n, NEW in, PlainFile(lines, n, in, sx), NEW o \in 1..n, NEW w, NEW k,
         Opening(lines, in, o, k, w, sx), \A i \in DOMAIN lines[o] : i > k => lines[o][i] # w
  PROVE  Rewritten(lines[o], in[o - 1], Upto(lines[o], k), sx) /\ in[o - 1] = InCode /\ (w = LineEnd => in[o] = InCode)
<1>1. PICK st, h : /\ st = Row(lines, in, o, sx) /\ RowEnd(st, lines[o], h, in[o - 1], in[o], sx)
                   /\ h \in Nat /\ DOMAIN lines[o] = 1..h /\ n \in Nat
  BY RowEndOf
<1>2. PICK l, c, e : l = lines[o] /\ c = in[o - 1] /\ e = in[o]
  OBVIOUS
<1>3. RowEnd(st, l, h, c, e, sx) /\ k \in 1..h /\ OpensAt(st, l, k, sx) /\ st[k].in = w
  BY <1>1, <1>2 DEF Opening
<1>4. \A j \in (k + 1)..h : l[j] # w
  BY <1>1, <1>2, <1>3
<1>6. RowIs(st, l, h, c, e, sx)
  BY <1>3 DEF RowEnd
<1>7. c = InCode /\ Commented(st[h], sx) /\ st[h].in = w
  BY ONLY <1>3, <1>4, <1>6, OpenHolds
<1>8. Rewritten(l, c, Upto(l, k), sx)
  BY ONLY <1>3, <1>7, TailCut
<1>9. w = LineEnd => e = InCode
  BY <1>6, <1>7, CarryIs
<1> QED
  BY <1>2, <1>7, <1>8, <1>9

LEMMA WholeRow ==
  ASSUME NEW sx, NEW lines, NEW n, NEW in, PlainFile(lines, n, in, sx), NEW r \in 1..n, NEW w \in Closers(sx), in[r - 1] = w,
         \A i \in DOMAIN lines[r] : lines[r][i] # w
  PROVE  Rewritten(lines[r], in[r - 1], <<>>, sx)
<1>1. PICK st, h : /\ st = Row(lines, in, r, sx) /\ RowEnd(st, lines[r], h, in[r - 1], in[r], sx)
                   /\ h \in Nat /\ DOMAIN lines[r] = 1..h /\ n \in Nat
  BY RowEndOf
<1>2. PICK l, c, e : l = lines[r] /\ c = in[r - 1] /\ e = in[r]
  OBVIOUS
<1>3. RowEnd(st, l, h, c, e, sx) /\ c \in Closers(sx) /\ \A j \in 1..h : l[j] # c
  BY <1>1, <1>2
<1>4. Rewritten(l, c, <<>>, sx)
  BY ONLY <1>3, AllCut
<1> QED
  BY <1>2, <1>4

LEMMA ToRow ==
  ASSUME NEW sx, NEW lines, NEW n, NEW in, PlainFile(lines, n, in, sx), NEW r \in 1..n, NEW w \in Closers(sx), in[r - 1] = w,
         NEW m \in DOMAIN lines[r], lines[r][m] = w, \A i \in DOMAIN lines[r] : i < m => lines[r][i] # w
  PROVE  Rewritten(lines[r], in[r - 1], Upto(lines[r], Lead(lines[r]) - 1) \o From(lines[r], m), sx) /\ in[r] = InCode
<1>1. PICK st, h : /\ st = Row(lines, in, r, sx) /\ RowEnd(st, lines[r], h, in[r - 1], in[r], sx)
                   /\ h \in Nat /\ DOMAIN lines[r] = 1..h /\ n \in Nat
  BY RowEndOf
<1>2. PICK l, c, e : l = lines[r] /\ c = in[r - 1] /\ e = in[r]
  OBVIOUS
<1>3. RowEnd(st, l, h, c, e, sx) /\ c \in Closers(sx) /\ m \in 1..h /\ l[m] = c /\ \A j \in 1..(m - 1) : l[j] # c
  BY <1>1, <1>2
<1>4. Rewritten(l, c, Upto(l, Lead(l) - 1) \o From(l, m), sx)
  BY ONLY <1>3, HeadCut
<1>5. RowIs(st, l, h, c, e, sx)
  BY <1>3 DEF RowEnd
<1>6. e = InCode
  BY ONLY <1>3, <1>5, RowEnds
<1> QED
  BY <1>2, <1>4, <1>6

\* The rows of a file, as many as there are.
IsRows(f, n) == f = [i \in 1..n |-> f[i]]

\* A block that is blanked: what goes, and where the reader is.
Blanked(lines, in, n, out, new, o, z, sx) ==
  /\ z \in o..n /\ IsRows(new, n)
  /\ \A i \in 1..n : i \notin o..z => new[i] = out[i]
  /\ \A i \in o..z : Rewritten(lines[i], in[i - 1], new[i], sx)
  /\ in[o - 1] = InCode /\ in[z] = InCode
  /\ \A i \in o..(z - 1) : in[i] \in Closers(sx)

LEMMA BlockCut ==
  ASSUME NEW sx, NEW lines, NEW n, NEW in, PlainFile(lines, n, in, sx), NEW o \in 1..n, NEW w \in Closers(sx), NEW k,
         Opening(lines, in, o, k, w, sx), NEW p, ClosedAt(lines, o, k + 1, w, p), NEW open, open.row = o, open.at = k,
         NEW out, IsRows(out, n), \A i \in o..p.row : out[i] = lines[i], NEW new, new = BlankBlock(out, open, p)
  PROVE  Blanked(lines, in, n, out, new, o, p.row, sx)
<1>1. PICK z, m : z = p.row /\ m = p.at
  OBVIOUS
<1>2. n \in Nat /\ n = Len(lines) /\ \A r \in 1..n : DOMAIN lines[r] \subseteq Nat
  <2>1. n \in Nat /\ n = Len(lines)
    BY DEF PlainFile, File
  <2>2. ASSUME NEW r \in 1..n PROVE DOMAIN lines[r] \subseteq Nat
    <3>1. PICK h : h \in Nat /\ DOMAIN lines[r] = 1..h
      BY RowEndOf
    <3> QED
      BY <3>1
  <2> QED
    BY <2>1, <2>2
<1>3. /\ z \in o..n /\ m \in DOMAIN lines[z] /\ lines[z][m] = w /\ (z = o => m >= k + 1)
      /\ \A r \in o..(z - 1) : \A i \in DOMAIN lines[r] : ~Counts(lines[r], i, r, w, o, k + 1)
      /\ \A i \in DOMAIN lines[z] : i < m => ~Counts(lines[z], i, z, w, o, k + 1)
  <2>1. /\ z \in o..n /\ m \in DOMAIN lines[z] /\ Counts(lines[z], m, z, w, o, k + 1)
        /\ \A r \in o..(z - 1) : \A i \in DOMAIN lines[r] : ~Counts(lines[r], i, r, w, o, k + 1)
        /\ \A i \in DOMAIN lines[z] : i < m => ~Counts(lines[z], i, z, w, o, k + 1)
    BY <1>1, <1>2 DEF ClosedAt
  <2> QED
    BY <2>1 DEF Counts
<1>4. k \in Nat
  BY <1>2 DEF Opening
<1>5. CASE z = o
  <2>1. m > k /\ \A i \in DOMAIN lines[o] : i > k /\ i < m => lines[o][i] # w
    <3>1. m > k
      BY <1>2, <1>3, <1>4, <1>5
    <3>2. ASSUME NEW i \in DOMAIN lines[o], i > k, i < m PROVE lines[o][i] # w
      <4>1. ~Counts(lines[o], i, o, w, o, k + 1) /\ i \in Nat
        BY <1>2, <1>3, <1>5, <3>2
      <4>2. i >= k + 1
        BY <1>4, <3>2, <4>1
      <4> QED
        BY <4>1, <4>2 DEF Counts
    <3> QED
      BY <3>1, <3>2
  <2>2. PICK cut : cut = Upto(lines[o], k) \o <<Space>> \o From(lines[o], m)
    OBVIOUS
  <2>3. Rewritten(lines[o], in[o - 1], cut, sx) /\ in[o - 1] = InCode /\ in[o] = InCode
    BY <1>3, <1>5, <2>1, <2>2, WithinRow
  <2>4. new = [out EXCEPT ![o] = cut]
    <3>1. out[o] = lines[o]
      BY <1>1, <1>2, <1>3
    <3> QED
      BY <1>1, <1>5, <2>2, <3>1, Zenon DEF BlankBlock, Space
  <2>5. IsRows(new, n) /\ new[o] = cut /\ \A i \in 1..n : i # o => new[i] = out[i]
    BY <2>4 DEF IsRows
  <2>6. o..z = {o} /\ o..(z - 1) = {} /\ z \in o..n
    BY <1>2, <1>5
  <2> QED
    BY <1>1, <1>5, <2>3, <2>5, <2>6 DEF Blanked
<1>6. CASE z # o
  <2>1. z - 1 \in Nat /\ z - 1 <= n /\ z - 1 >= o
    BY <1>2, <1>3, <1>6
  <2>2. \A i \in o..(z - 1) : in[i] = w
    BY <1>3, <2>1, AlongRows
  <2>3. Rewritten(lines[o], in[o - 1], Upto(lines[o], k), sx) /\ in[o - 1] = InCode
    <3>1. ASSUME NEW i \in DOMAIN lines[o], i > k PROVE lines[o][i] # w
      <4>1. ~Counts(lines[o], i, o, w, o, k + 1) /\ i \in Nat
        BY <1>2, <1>3, <2>1
      <4>2. i >= k + 1
        BY <1>4, <3>1, <4>1
      <4> QED
        BY <4>1, <4>2 DEF Counts
    <3> QED
      BY <3>1, FromRow
  <2>4. ASSUME NEW i \in (o + 1)..(z - 1) PROVE Rewritten(lines[i], in[i - 1], <<>>, sx)
    <3>1. i \in 1..n /\ i - 1 \in o..(z - 1) /\ i # o /\ i \in o..(z - 1)
      BY <1>2, <1>3
    <3>2. \A j \in DOMAIN lines[i] : lines[i][j] # w
      BY <1>3, <3>1 DEF Counts
    <3> QED
      BY <2>2, <3>1, <3>2, WholeRow
  <2>5. /\ Rewritten(lines[z], in[z - 1], Upto(lines[z], Lead(lines[z]) - 1) \o From(lines[z], m), sx)
        /\ in[z] = InCode
    <3>1. z \in 1..n /\ z - 1 \in o..(z - 1)
      BY <1>2, <1>3, <2>1
    <3>2. \A i \in DOMAIN lines[z] : i < m => lines[z][i] # w
      BY <1>3, <1>6 DEF Counts
    <3> QED
      BY <1>3, <2>2, <3>1, <3>2, ToRow
  <2>6. new = [i \in 1..n |-> IF i = o THEN Upto(out[i], k)
                             ELSE IF i = z THEN Upto(out[i], Lead(out[i]) - 1) \o From(out[i], m)
                             ELSE IF i \in o..z THEN <<>> ELSE out[i]]
    <3>1. DOMAIN out = 1..n
      BY DEF IsRows
    <3> QED
      BY <1>1, <1>6, <3>1, Zenon DEF BlankBlock
  <2>7. IsRows(new, n)
    BY <2>6 DEF IsRows
  <2>8. ASSUME NEW i \in o..z PROVE Rewritten(lines[i], in[i - 1], new[i], sx)
    <3>1. out[i] = lines[i] /\ i \in 1..n
      BY <1>1, <1>2, <1>3
    <3>2. CASE i = o
      <4>1. new[i] = Upto(lines[i], k)
        BY <2>6, <3>1, <3>2
      <4> QED
        BY <2>3, <3>2, <4>1
    <3>3. CASE i = z
      <4>1. new[i] = Upto(lines[i], Lead(lines[i]) - 1) \o From(lines[i], m)
        BY <1>6, <2>6, <3>1, <3>3
      <4> QED
        BY <2>5, <3>3, <4>1
    <3>4. CASE i # o /\ i # z
      <4>1. new[i] = <<>>
        BY <2>6, <3>1, <3>4
      <4>2. i \in (o + 1)..(z - 1)
        BY <1>2, <1>3, <3>4
      <4> QED
        BY <2>4, <4>1, <4>2
    <3> QED
      BY <3>2, <3>3, <3>4
  <2>9. \A i \in 1..n : i \notin o..z => new[i] = out[i]
    <3>1. o \in o..z /\ z \in o..z
      BY <1>2, <1>3
    <3> QED
      BY <2>6, <3>1
  <2> QED
    BY <1>1, <1>3, <2>2, <2>3, <2>5, <2>7, <2>8, <2>9 DEF Blanked
<1> QED
  BY <1>5, <1>6

\* The transform, row by row.
RowStep(st, lines, r, sx) ==
  IF r \in st.done \/ Marks(lines[r]) = {} \/ Directive(lines[r]) THEN st
  ELSE StripRow(st, lines, r, Opened(lines[r], sx), sx)
Untouched(lines) == [out |-> lines, done |-> {}]
StripsTo(f, n, lines, sx) == f = [r \in 0..n |-> IF r = 0 THEN Untouched(lines) ELSE RowStep(f[r - 1], lines, r, sx)]

LEMMA StripGoes ==
  ASSUME NEW sx, NEW lines, NEW n \in Nat, n = Len(lines)
  PROVE  \E f : StripsTo(f, n, lines, sx) /\ StripCode(lines, sx) = f[n].out
<1> DEFINE There == {m \in 0..n : \E f : StripsTo(f, m, lines, sx)}
<1>1. 0 \in There
  <2> DEFINE f == [i \in 0..0 |-> Untouched(lines)]
  <2>1. StripsTo(f, 0, lines, sx)
    BY DEF StripsTo
  <2> QED
    BY <2>1
<1>2. ASSUME NEW m \in 0..(n - 1), m \in There PROVE m + 1 \in There
  <2>1. PICK f : StripsTo(f, m, lines, sx)
    BY <1>2
  <2> DEFINE g == [i \in 0..(m + 1) |-> IF i = m + 1 THEN RowStep(f[m], lines, m + 1, sx) ELSE f[i]]
  <2>2. ASSUME NEW i \in 0..(m + 1) PROVE g[i] = IF i = 0 THEN Untouched(lines) ELSE RowStep(g[i - 1], lines, i, sx)
    <3>1. CASE i = m + 1
      <4>1. g[i] = RowStep(f[m], lines, m + 1, sx) /\ i # 0 /\ i - 1 = m /\ g[m] = f[m]
        BY <3>1
      <4> HIDE DEF g
      <4> QED
        BY <3>1, <4>1
    <3>2. CASE i = 0
      <4>1. g[i] = f[0] /\ f[0] = Untouched(lines)
        BY <2>1, <3>2 DEF StripsTo
      <4> QED
        BY <3>2, <4>1
    <3>3. CASE i \in 1..m
      <4>1. g[i] = f[i] /\ g[i - 1] = f[i - 1] /\ i # 0
        BY <3>3
      <4>2. f[i] = RowStep(f[i - 1], lines, i, sx)
        BY <2>1, <3>3 DEF StripsTo
      <4> HIDE DEF g
      <4> QED
        BY <4>1, <4>2
    <3> QED
      BY <3>1, <3>2, <3>3
  <2>3. g = [i \in 0..(m + 1) |-> g[i]]
    OBVIOUS
  <2>4. StripsTo(g, m + 1, lines, sx)
    <3> HIDE DEF g
    <3> QED
      BY <2>2, <2>3 DEF StripsTo
  <2> QED
    BY <2>4
<1>3. n \in There
  <2> HIDE DEF There
  <2>1. \A i \in 0..(n - 1) : i \in There => i + 1 \in There
    BY <1>2
  <2>2. \A i \in 0..n : i \in There
    BY <1>1, <2>1, Upwards
  <2> QED
    BY <2>2
<1> DEFINE after == CHOOSE f : StripsTo(f, n, lines, sx)
<1>4. StripsTo(after, n, lines, sx)
  BY <1>3
<1>5. StripCode(lines, sx) = after[n].out
  BY Zenon DEF StripCode, StripsTo, RowStep, Untouched
<1> HIDE DEF after
<1> QED
  BY <1>4, <1>5

\* What an opening waits for.
LEMMA WaitsFor ==
  ASSUME NEW sx, NEW l, NEW n, NEW c, NEW st, PlainRow(st, l, n, c, sx), NEW k \in 1..n, OpensAt(st, l, k, sx)
  PROVE  /\ l[k] \in sx.line \cup sx.embLine => st[k].in = LineEnd
         /\ \A p \in Pairs(sx) : l[k] = p.o => st[k].in = p.c
         /\ st[k].in \in Waits(sx)
         /\ l[k] \in sx.line \cup sx.embLine \cup Openers(Pairs(sx))
<1>1. PICK s, first, w : s = l[k] /\ first = (k = Lead(l)) /\ w = Opens(s, first, sx)
  OBVIOUS
<1>2. st[k].in = w /\ Commented(st[k], sx) /\ s \in sx.line \cup sx.embLine \cup Openers(Pairs(sx)) /\ IsSyntax(sx)
  BY <1>1, OpeningIs DEF PlainRow
<1>3. w \in Waits(sx)
  BY <1>2 DEF Commented
<1>4. ASSUME s \in sx.line \cup sx.embLine PROVE w = LineEnd
  <2>1. s \notin Openers(Pairs(sx))
    BY <1>2, <1>4 DEF IsSyntax
  <2>2. s \notin Openers(sx.block) \cup (IF first THEN Openers(sx.embBlock) ELSE {})
    BY <2>1 DEF Openers, Pairs
  <2>3. w \notin Closers(sx)
    <3>1. w = Opens(s, first, sx) /\ IsSyntax(sx)
      BY <1>1, <1>2
    <3> QED
      BY ONLY <2>2, <3>1, OpensIs
  <2> QED
    BY <1>3, <2>3 DEF Waits, LineEnd
<1>5. ASSUME NEW p \in Pairs(sx), s = p.o PROVE w = p.c
  <2>1. w # ""
    BY <1>2, <1>3, SyntaxIs
  <2>2. w = Opens(s, first, sx) /\ IsSyntax(sx) /\ p \in Pairs(sx) /\ s = p.o
    BY <1>1, <1>2, <1>5
  <2> QED
    BY ONLY <2>1, <2>2, OpensIs
<1> QED
  BY <1>1, <1>2, <1>3, <1>4, <1>5

\* The first opener before a marker.
LEMMA OpenedIs ==
  ASSUME NEW sx, NEW l, NEW n, NEW c, NEW e, NEW st, RowEnd(st, l, n, c, e, sx), DOMAIN l = 1..n, NEW at, at = Opened(l, sx)
  PROVE  /\ at \in Nat
         /\ at > 0 => at \in 1..n /\ OpensAt(st, l, at, sx)
         /\ at = 0 => \A m \in Marks(l) : \A k \in 1..(m - 1) : ~OpensAt(st, l, k, sx)
<1>1. n \in Nat /\ PlainRow(st, l, n, c, sx) /\ MayBegin(c, sx)
  BY DEF RowEnd, RowIs
<1> DEFINE os == UNION {OpenersOn(l, m, sx) : m \in Marks(l)}
<1>2. \A m \in Marks(l) : m \in 1..n
  BY DEF Marks
<1>3. \A m \in Marks(l) : \A k : k \in OpenersOn(l, m, sx) <=> k \in 1..(m - 1) /\ OpensAt(st, l, k, sx)
  BY <1>1, <1>2, OpenersAre
<1>4. \A k \in os : k \in 1..n /\ OpensAt(st, l, k, sx)
  <2>1. ASSUME NEW k \in os PROVE k \in 1..n /\ OpensAt(st, l, k, sx)
    <3>1. PICK m \in Marks(l) : k \in OpenersOn(l, m, sx)
      OBVIOUS
    <3>2. k \in 1..(m - 1) /\ OpensAt(st, l, k, sx) /\ m \in 1..n
      BY <1>2, <1>3, <3>1
    <3> QED
      BY <1>1, <3>2
  <2> QED
    BY <2>1
<1>5. at = IF os = {} THEN 0 ELSE Min(os)
  BY DEF Opened
<1>6. ASSUME os # {} PROVE Min(os) \in os
  <2>1. os \in SUBSET Nat
    BY <1>1, <1>4
  <2> HIDE DEF os
  <2> QED
    BY <1>6, <2>1, LeastIs
<1>7. ASSUME os = {}, NEW m \in Marks(l), NEW k \in 1..(m - 1) PROVE ~OpensAt(st, l, k, sx)
  <2>1. k \notin OpenersOn(l, m, sx)
    BY <1>7
  <2> QED
    BY <1>3, <2>1
<1> HIDE DEF os
<1>8. CASE os = {}
  BY <1>5, <1>7, <1>8
<1>9. CASE os # {}
  <2>1. at \in 1..n /\ OpensAt(st, l, at, sx)
    BY <1>4, <1>5, <1>6, <1>9
  <2> QED
    BY <1>1, <2>1
<1> QED
  BY <1>8, <1>9

\* After spaces, no string is open.
LEMMA SpacesQuoteNothing ==
  ASSUME NEW l, NEW n \in Nat, n = Len(l), NEW a \in 0..n, \A j \in 1..a : IsSpace(l[j])
  PROVE  Quoting(l)[a].in = "" /\ ~Quoting(l)[a].skip
<1> DEFINE Ok(q) == IsQuoting(q) /\ q.in = "" /\ ~q.skip
<1>1. PICK f : f = Quoting(l)
  OBVIOUS
<1>2. f[0] = Unquoted /\ \A i \in 1..n : f[i] = Quoted(f[i - 1], l[i])
  BY <1>1, QuotingGoesThrough
<1>3. Ok(f[0])
  <2> DEFINE i == ""
             k == FALSE
  <2>1. Unquoted = [in |-> i, skip |-> k] /\ k \in BOOLEAN
    BY DEF Unquoted
  <2>2. IsQuoting(Unquoted) /\ Unquoted.in = i /\ Unquoted.skip = k
    <3> HIDE DEF i, k
    <3> QED
      BY <2>1, QuotingHas
  <2> QED
    BY <1>2, <2>2
<1>4. ASSUME NEW q, Ok(q), NEW s, IsSpace(s) PROVE Ok(Quoted(q, s))
  <2>1. PICK t : t = Quoted(q, s)
    OBVIOUS
  <2>2. QuotedBy(q, s, t)
    BY <1>4, <2>1, QuotedIs
  <2>3. s # "esc" /\ s \notin Quotes
    BY <1>4 DEF IsSpace, Quotes
  <2> QED
    BY <1>4, <2>1, <2>2, <2>3 DEF QuotedBy
<1> HIDE DEF Ok
<1>5. ASSUME NEW j \in 0..(a - 1), Ok(f[j]) PROVE Ok(f[j + 1])
  <2>1. PICK i \in 1..n : i = j + 1 /\ i - 1 = j /\ i \in 1..a
    OBVIOUS
  <2>2. f[i] = Quoted(f[j], l[i]) /\ IsSpace(l[i])
    BY <1>2, <2>1
  <2> QED
    BY <1>4, <1>5, <2>1, <2>2
<1> DEFINE S == {j \in 0..a : Ok(f[j])}
<1>6. 0 \in S /\ \A j \in 0..(a - 1) : j \in S => j + 1 \in S
  BY <1>3, <1>5
<1>7. \A j \in S : Ok(f[j])
  OBVIOUS
<1> HIDE DEF S
<1>8. \A j \in 0..a : j \in S
  BY <1>6, Upwards
<1>9. Ok(f[a])
  BY <1>7, <1>8
<1> QED
  BY <1>1, <1>9 DEF Ok

\* A row that is a comment of its own.
LEMMA PureRow ==
  ASSUME NEW sx, NEW lines, NEW n, NEW in, PlainFile(lines, n, in, sx), NEW r \in 1..n, NEW token \in sx.line \cup sx.embLine,
         PureComment(lines[r], token)
  PROVE  /\ Rewritten(lines[r], in[r - 1], Upto(lines[r], At(lines[r], token)), sx)
         /\ in[r - 1] = InCode /\ in[r] = InCode
<1>1. PICK st, h : /\ st = Row(lines, in, r, sx) /\ RowEnd(st, lines[r], h, in[r - 1], in[r], sx)
                   /\ h \in Nat /\ DOMAIN lines[r] = 1..h /\ n \in Nat
  BY RowEndOf
<1>2. PICK l, c, a : l = lines[r] /\ c = in[r - 1] /\ a = Lead(l)
  OBVIOUS
<1>3. PlainRow(st, l, h, c, sx) /\ MayBegin(c, sx) /\ IsList(l) /\ h = Len(l) /\ IsSyntax(sx)
  BY <1>1, <1>2 DEF RowEnd, RowIs
<1>4. a \in 1..h /\ l[a] = token /\ \A i \in 1..(a - 1) : IsSpace(l[i])
  <2>1. a # 0 /\ l[a] = token
    BY <1>2 DEF PureComment, Blank
  <2> QED
    BY <1>2, <1>3, <2>1, LeadAt
<1>5. ~IsSpace(token)
  BY <1>3, NoSpace
<1>6. At(l, token) = a
  <2>1. PICK b : b = At(l, token)
    OBVIOUS
  <2>2. /\ b \in 0..h
        /\ b # 0 => l[b] = token /\ \A i \in 1..(b - 1) : l[i] # token
        /\ b = 0 => \A i \in 1..h : l[i] # token
    BY <1>3, <2>1, AtIs
  <2>3. b \in 1..h /\ l[b] = token /\ \A i \in 1..(b - 1) : l[i] # token
    BY <1>4, <2>2
  <2>4. ~(a < b)
    BY <1>4, <2>3
  <2>5. ~(b < a)
    BY <1>4, <1>5, <2>3
  <2> QED
    BY <1>4, <2>1, <2>3, <2>4, <2>5
<1>7. OpensAt(st, l, a, sx)
  <2>1. OutsideQuotes(l, a)
    <3>1. PICK b \in 0..h : b = a - 1 /\ \A j \in 1..b : IsSpace(l[j])
      BY <1>1, <1>4
    <3>2. Quoting(l)[b].in = ""
      BY <1>1, <1>3, <3>1, SpacesQuoteNothing
    <3> QED
      BY <3>1, <3>2 DEF OutsideQuotes
  <2> QED
    BY <1>3, <1>4, <2>1, TokenOpens
<1>8. Opening(lines, in, r, a, LineEnd, sx)
  <2>1. st[a].in = LineEnd
    BY <1>3, <1>4, <1>7, WaitsFor
  <2> QED
    BY <1>1, <1>2, <1>4, <1>7, <2>1 DEF Opening
<1>9. \A i \in DOMAIN lines[r] : i > a => lines[r][i] # LineEnd
  BY DEF PlainFile, IsLine, LineEnd
<1>10. Rewritten(lines[r], in[r - 1], Upto(lines[r], a), sx) /\ in[r - 1] = InCode /\ in[r] = InCode
  BY <1>8, <1>9, FromRow
<1> QED
  BY <1>2, <1>6, <1>10

LEMMA GreaterIs ==
  ASSUME NEW a \in Int, NEW b \in Int, NEW m, m = Max({a, b})
  PROVE  m \in {a, b} /\ m >= a /\ m >= b
<1> DEFINE S == {a, b}
<1>1. \E x \in S : \A y \in S : x >= y
  <2>1. CASE a >= b
    BY <2>1
  <2>2. CASE b >= a
    BY <2>2
  <2> QED
    BY <2>1, <2>2
<1>2. m \in S /\ \A y \in S : m >= y
  <2> HIDE DEF S
  <2>1. Max(S) \in S /\ \A y \in S : Max(S) >= y
    BY <1>1 DEF Max
  <2>2. m = Max(S)
    BY DEF S
  <2> QED
    BY <2>1, <2>2
<1> QED
  BY <1>2

LEMMA OnlyOne == ASSUME NEW S, NEW k \in Int, S = {k} PROVE Max(S) = k
<1>1. \E x \in S : \A y \in S : x >= y
  OBVIOUS
<1>2. Max(S) \in S
  BY <1>1 DEF Max
<1> QED
  BY <1>2

\* The openers of a row that a place may be inside of.
ValidOn(lines, r, row, col, o) ==
  {i \in DOMAIN lines[r] : lines[r][i] = o /\ (r = row => i < col) /\ OutsideQuotes(lines[r], i)}
ShutBefore(lines, r, row, col, w, i) ==
  LET c == FindCloser(lines, r, i + 1, w, row - r + 1) IN c # NoPlace /\ (c.row < row \/ c.at < col)
Still(lines, r, row, col, p) ==
  [row |-> r, at |-> Max(ValidOn(lines, r, row, col, p.o)), closer |-> p.c]

LEMMA StillOpenAre ==
  ASSUME NEW sx, NEW lines, NEW r, NEW row, NEW col, NEW b
  PROVE  b \in StillOpen(lines, r, row, col, sx) <=>
           \E p \in Pairs(sx) : /\ ValidOn(lines, r, row, col, p.o) # {}
                                /\ ~ShutBefore(lines, r, row, col, p.c, Max(ValidOn(lines, r, row, col, p.o)))
                                /\ b = Still(lines, r, row, col, p)
BY Zenon DEF StillOpen, ValidOn, ShutBefore, Still

LEMMA StillHas ==
  ASSUME NEW lines, NEW r, NEW row, NEW col, NEW p, NEW b, b = Still(lines, r, row, col, p)
  PROVE  b.row = r /\ b.at = Max(ValidOn(lines, r, row, col, p.o)) /\ b.closer = p.c
BY DEF Still

\* All of them are the one a reader meets.
LEMMA ValidIs ==
  ASSUME NEW sx, NEW lines, NEW n, NEW in, PlainFile(lines, n, in, sx), NEW r \in 1..n, NEW row, NEW col,
         NEW p \in Pairs(sx), NEW i \in ValidOn(lines, r, row, col, p.o)
  PROVE  Opening(lines, in, r, i, p.c, sx) /\ ValidOn(lines, r, row, col, p.o) = {i} /\ i \in Nat /\ (r = row => i < col)
<1>1. PICK st, h : /\ st = Row(lines, in, r, sx) /\ RowEnd(st, lines[r], h, in[r - 1], in[r], sx)
                   /\ h \in Nat /\ DOMAIN lines[r] = 1..h /\ n \in Nat
  BY RowEndOf
<1>2. PICK l, c : l = lines[r] /\ c = in[r - 1]
  OBVIOUS
<1>3. PlainRow(st, l, h, c, sx) /\ MayBegin(c, sx)
  BY <1>1, <1>2 DEF RowEnd, RowIs
<1>4. \A j \in ValidOn(lines, r, row, col, p.o) : j \in 1..h /\ l[j] = p.o /\ (r = row => j < col) /\ OutsideQuotes(l, j)
  BY <1>1, <1>2 DEF ValidOn
<1>5. \A j \in ValidOn(lines, r, row, col, p.o) : j \in 1..h /\ OpensAt(st, l, j, sx)
  <2>1. p.o \in sx.line \cup sx.embLine \cup Openers(Pairs(sx))
    BY DEF Openers
  <2> QED
    BY <1>3, <1>4, <2>1, TokenOpens
<1>6. \A j \in ValidOn(lines, r, row, col, p.o) : j = i
  BY <1>3, <1>5, OneOpening
<1>7. st[i].in = p.c
  BY <1>3, <1>4, <1>5, WaitsFor
<1>8. Opening(lines, in, r, i, p.c, sx)
  BY <1>1, <1>2, <1>5, <1>7 DEF Opening
<1> QED
  BY <1>1, <1>4, <1>6, <1>8

LEMMA SameOpening ==
  ASSUME NEW sx, NEW lines, NEW n, NEW in, PlainFile(lines, n, in, sx), NEW r \in 1..n, NEW i, NEW w, Opening(lines, in, r, i, w, sx),
         NEW j, NEW v, Opening(lines, in, r, j, v, sx)
  PROVE  i = j /\ w = v
<1>1. PICK st, h : /\ st = Row(lines, in, r, sx) /\ RowEnd(st, lines[r], h, in[r - 1], in[r], sx)
                   /\ h \in Nat /\ DOMAIN lines[r] = 1..h /\ n \in Nat
  BY RowEndOf
<1>2. PICK l, c : l = lines[r] /\ c = in[r - 1]
  OBVIOUS
<1>3. PlainRow(st, l, h, c, sx)
  BY <1>1, <1>2 DEF RowEnd, RowIs
<1>4. i \in 1..h /\ OpensAt(st, l, i, sx) /\ st[i].in = w /\ j \in 1..h /\ OpensAt(st, l, j, sx) /\ st[j].in = v
  BY <1>1, <1>2 DEF Opening
<1>5. i = j
  BY <1>3, <1>4, OneOpening
<1> QED
  BY <1>4, <1>5

LEMMA StillOpenIs ==
  ASSUME NEW sx, NEW lines, NEW n, NEW in, PlainFile(lines, n, in, sx), NEW r \in 1..n, NEW row, NEW col,
         NEW b \in StillOpen(lines, r, row, col, sx)
  PROVE  \E p \in Pairs(sx) : /\ b.row = r /\ b.closer = p.c /\ Opening(lines, in, r, b.at, p.c, sx)
                              /\ b.at \in Nat /\ (r = row => b.at < col)
<1>1. PICK p \in Pairs(sx) : ValidOn(lines, r, row, col, p.o) # {} /\ b = Still(lines, r, row, col, p)
  BY StillOpenAre
<1>2. PICK i \in ValidOn(lines, r, row, col, p.o) : TRUE
  BY <1>1
<1>3. Opening(lines, in, r, i, p.c, sx) /\ ValidOn(lines, r, row, col, p.o) = {i} /\ i \in Nat /\ (r = row => i < col)
  BY ValidIs
<1>4. b.row = r /\ b.at = i /\ b.closer = p.c
  BY <1>1, <1>3, StillHas, OnlyOne
<1> QED
  BY <1>3, <1>4

\* The rows an enclosing block may be opened on.
PassedBy(lines, s, row, col, sx) ==
  StillOpen(lines, s, row, col, sx) = {} /\ (s < row => \A p \in Pairs(sx) : At(lines[s], p.c) = 0)
FoundOn(lines, row, col, sx) ==
  {r \in Max({1, row - MaxRowsUp})..row :
     StillOpen(lines, r, row, col, sx) # {} /\ \A s \in (r + 1)..row : PassedBy(lines, s, row, col, sx)}
LastOf(B) == CHOOSE b \in B : \A x \in B : x.at <= b.at

LEMMA EnclosingAre ==
  ASSUME NEW sx, NEW lines, NEW row, NEW col
  PROVE  EnclosingBlock(lines, row, col, sx) = {LastOf(StillOpen(lines, r, row, col, sx)) : r \in FoundOn(lines, row, col, sx)}
BY Zenon DEF EnclosingBlock, FoundOn, PassedBy, LastOf

LEMMA LastOfIs ==
  ASSUME NEW sx, NEW lines, NEW n, NEW in, PlainFile(lines, n, in, sx), NEW r \in 1..n, NEW row, NEW col,
         NEW B, B = StillOpen(lines, r, row, col, sx), B # {}
  PROVE  LastOf(B) \in B
<1>1. PICK b \in B : TRUE
  OBVIOUS
<1>2. \A x \in B : x.at <= b.at
  <2> SUFFICES ASSUME NEW x \in B PROVE x.at <= b.at
    OBVIOUS
  <2>1. PICK p \in Pairs(sx) : Opening(lines, in, r, b.at, p.c, sx) /\ b.at \in Nat
    BY StillOpenIs
  <2>2. PICK q \in Pairs(sx) : Opening(lines, in, r, x.at, q.c, sx) /\ x.at \in Nat
    BY StillOpenIs
  <2>3. x.at = b.at
    BY <2>1, <2>2, SameOpening
  <2> QED
    BY <2>1, <2>3
<1> QED
  BY <1>1, <1>2 DEF LastOf

LEMMA EnclosingIs ==
  ASSUME NEW sx, NEW lines, NEW n, NEW in, PlainFile(lines, n, in, sx), NEW row \in 1..n, NEW col,
         NEW b \in EnclosingBlock(lines, row, col, sx)
  PROVE  \E o \in 1..row : \E p \in Pairs(sx) : /\ b.row = o /\ b.closer = p.c /\ Opening(lines, in, o, b.at, p.c, sx)
                                              /\ o \in FoundOn(lines, row, col, sx)
<1>1. PICK r \in FoundOn(lines, row, col, sx) : b = LastOf(StillOpen(lines, r, row, col, sx))
  BY EnclosingAre
<1>2. r \in Max({1, row - MaxRowsUp})..row /\ StillOpen(lines, r, row, col, sx) # {}
  BY DEF FoundOn
<1>3. n \in Nat
  BY RowEndOf
<1>4. r \in 1..row /\ r \in 1..n
  <2>1. PICK m : m = Max({1, row - MaxRowsUp})
    OBVIOUS
  <2>2. MaxRowsUp \in Nat
    BY StripAssumption
  <2>3. 1 \in Int /\ row - MaxRowsUp \in Int
    BY <1>3, <2>2
  <2>4. m \in {1, row - MaxRowsUp} /\ m >= 1
    BY <2>1, <2>3, GreaterIs
  <2>5. m \in Nat /\ r \in m..row
    BY <1>2, <2>1, <2>3, <2>4
  <2> QED
    BY <1>3, <2>4, <2>5
<1>5. b \in StillOpen(lines, r, row, col, sx)
  BY <1>1, <1>2, <1>4, LastOfIs
<1>6. PICK p \in Pairs(sx) : b.row = r /\ b.closer = p.c /\ Opening(lines, in, r, b.at, p.c, sx)
  BY <1>4, <1>5, StillOpenIs
<1> QED
  BY <1>1, <1>4, <1>6

\* What has been stripped so far: the rows that are done are read as before, the others are
\* as they were, and a comment over several rows goes as a whole.
Midway(lines, in, n, st, sx) ==
  /\ IsRows(st.out, n) /\ st.done \subseteq 1..n
  /\ \A i \in 1..n : i \notin st.done => st.out[i] = lines[i]
  /\ \A i \in st.done : Rewritten(lines[i], in[i - 1], st.out[i], sx)
  /\ \A i \in 1..(n - 1) : in[i] \in Closers(sx) => (i \in st.done <=> i + 1 \in st.done)

LEMMA StripStateIs ==
  ASSUME NEW out, NEW done, NEW t, t = [out |-> out, done |-> done]
  PROVE  t.out = out /\ t.done = done
OBVIOUS

\* More rows done, none of them beside one that is carried over.
MoreDone(lines, in, n, st, new, t, sx) ==
  /\ n \in Nat /\ new \in SUBSET (1..n) /\ t.done = st.done \cup new /\ IsRows(t.out, n)
  /\ \A i \in 1..n : i \notin new => t.out[i] = st.out[i]
  /\ \A i \in new : Rewritten(lines[i], in[i - 1], t.out[i], sx)
  /\ \A i \in 1..(n - 1) : in[i] \in Closers(sx) => (i \in new <=> i + 1 \in new)

LEMMA MoreIsMidway ==
  ASSUME NEW sx, NEW lines, NEW n, NEW in, NEW st, Midway(lines, in, n, st, sx), NEW new, NEW t,
         MoreDone(lines, in, n, st, new, t, sx)
  PROVE  Midway(lines, in, n, t, sx)
<1>0. /\ n \in Nat /\ new \in SUBSET (1..n) /\ t.done = st.done \cup new /\ IsRows(t.out, n)
      /\ \A i \in 1..n : i \notin new => t.out[i] = st.out[i]
      /\ \A i \in new : Rewritten(lines[i], in[i - 1], t.out[i], sx)
      /\ \A i \in 1..(n - 1) : in[i] \in Closers(sx) => (i \in new <=> i + 1 \in new)
  BY DEF MoreDone
<1>1. /\ IsRows(st.out, n) /\ st.done \subseteq 1..n
      /\ \A i \in 1..n : i \notin st.done => st.out[i] = lines[i]
      /\ \A i \in st.done : Rewritten(lines[i], in[i - 1], st.out[i], sx)
      /\ \A i \in 1..(n - 1) : in[i] \in Closers(sx) => (i \in st.done <=> i + 1 \in st.done)
  BY DEF Midway
<1>2. t.done \subseteq 1..n /\ \A i \in 1..n : i \notin t.done => t.out[i] = lines[i]
  BY <1>0, <1>1
<1>3. ASSUME NEW i \in t.done PROVE Rewritten(lines[i], in[i - 1], t.out[i], sx)
  <2>1. CASE i \in new
    BY <1>0, <2>1
  <2>2. CASE i \notin new
    <3>1. i \in st.done /\ i \in 1..n
      BY <1>0, <1>1, <1>3, <2>2
    <3> QED
      BY <1>0, <1>1, <2>2, <3>1
  <2> QED
    BY <2>1, <2>2
<1>4. \A i \in 1..(n - 1) : in[i] \in Closers(sx) => (i \in t.done <=> i + 1 \in t.done)
  BY <1>0, <1>1
<1> QED
  BY <1>0, <1>2, <1>3, <1>4 DEF Midway

LEMMA LineStep ==
  ASSUME NEW sx, NEW lines, NEW n, NEW in, PlainFile(lines, n, in, sx), NEW st, Midway(lines, in, n, st, sx),
         NEW r \in 1..n, r \notin st.done, NEW at, Opening(lines, in, r, at, LineEnd, sx),
         NEW token \in sx.line \cup sx.embLine, NEW pure, NEW t, t = StripLine(st, lines, r, at, token, pure)
  PROVE  Midway(lines, in, n, t, sx) /\ st.done \subseteq t.done /\ r \in t.done
<1>0. n \in Nat /\ n = Len(lines) /\ IsSyntax(sx)
  BY DEF PlainFile, File
<1> DEFINE run == Below(lines, r, at, token, pure) \cup (IF pure THEN Above(lines, r, token, st.done) ELSE {})
           out == [i \in DOMAIN st.out |-> IF i = r THEN Upto(st.out[i], at)
                                           ELSE IF i \in run THEN Upto(lines[i], At(lines[i], token)) ELSE st.out[i]]
           new == run \cup {r}
<1>1. t = [out |-> out, done |-> st.done \cup run \cup {r}]
  BY Zenon DEF StripLine
<1>2. t.out = out /\ t.done = st.done \cup new
  <2>1. t.out = out /\ t.done = st.done \cup run \cup {r}
    <3> HIDE DEF out, run
    <3> QED
      BY <1>1, StripStateIs
  <2> QED
    BY <2>1
<1>3. ASSUME NEW i \in run PROVE i \in 1..n /\ PureComment(lines[i], token)
  <2>1. CASE i \in Below(lines, r, at, token, pure)
    <3>1. i \in (r + 1)..n /\ \A j \in (r + 1)..i : PureComment(lines[j], token)
      BY <1>0, <2>1 DEF Below
    <3>2. i \in 1..n /\ i \in (r + 1)..i
      BY <1>0, <3>1
    <3> QED
      BY <3>1, <3>2
  <2>2. CASE i \in Above(lines, r, token, st.done)
    <3>1. i \in 1..(r - 1) /\ \A j \in i..(r - 1) : PureComment(lines[j], token)
      BY <2>2 DEF Above
    <3>2. i \in 1..n /\ i \in i..(r - 1)
      BY <1>0, <3>1
    <3> QED
      BY <3>1, <3>2
  <2> QED
    BY <2>1, <2>2
<1>4. /\ \A i \in run : /\ Rewritten(lines[i], in[i - 1], Upto(lines[i], At(lines[i], token)), sx)
                        /\ in[i - 1] = InCode /\ in[i] = InCode
  BY <1>3, PureRow
<1>5. Rewritten(lines[r], in[r - 1], Upto(lines[r], at), sx) /\ in[r - 1] = InCode /\ in[r] = InCode
  <2>1. \A i \in DOMAIN lines[r] : i > at => lines[r][i] # LineEnd
    BY DEF PlainFile, IsLine, LineEnd
  <2> QED
    BY <2>1, FromRow
<1>6. st.out[r] = lines[r] /\ DOMAIN st.out = 1..n
  BY DEF Midway, IsRows
<1> HIDE DEF run
<1>7. IsRows(out, n) /\ \A i \in 1..n : out[i] = IF i = r THEN Upto(lines[r], at)
                                                 ELSE IF i \in run THEN Upto(lines[i], At(lines[i], token)) ELSE st.out[i]
  BY <1>6 DEF IsRows
<1> HIDE DEF out
<1>8. new \in SUBSET (1..n) /\ \A i \in new : in[i - 1] = InCode /\ in[i] = InCode
  BY <1>3, <1>4, <1>5
<1>9. \A i \in new : Rewritten(lines[i], in[i - 1], out[i], sx)
  BY <1>4, <1>5, <1>7, <1>8
<1>10. \A i \in 1..n : i \notin new => out[i] = st.out[i]
  BY <1>7
<1>11. InCode \notin Closers(sx)
  BY <1>0, SyntaxIs DEF InCode, Waits
<1>12. ASSUME NEW i \in 1..(n - 1), in[i] \in Closers(sx) PROVE i \in new <=> i + 1 \in new
  <2>1. i \notin new
    BY <1>8, <1>11, <1>12
  <2>2. i + 1 \notin new
    <3>1. i + 1 - 1 = i
      BY <1>0
    <3> QED
      BY <1>8, <1>11, <1>12, <3>1
  <2> QED
    BY <2>1, <2>2
<1>13. Midway(lines, in, n, t, sx)
  <2> HIDE DEF new
  <2>1. MoreDone(lines, in, n, st, new, t, sx)
    BY <1>0, <1>2, <1>7, <1>8, <1>9, <1>10, <1>12 DEF MoreDone
  <2> QED
    BY <2>1, MoreIsMidway
<1> QED
  BY <1>2, <1>13

LEMMA BlockStep ==
  ASSUME NEW sx, NEW lines, NEW n, NEW in, PlainFile(lines, n, in, sx), NEW st, Midway(lines, in, n, st, sx),
         NEW r \in 1..n, r \notin st.done, NEW o \in 1..r, NEW k, NEW w \in Closers(sx), Opening(lines, in, o, k, w, sx),
         NEW open, open.row = o, open.at = k, open.closer = w, NEW t, t = StripBlock(st, lines, r, open)
  PROVE  /\ Midway(lines, in, n, t, sx) /\ st.done \subseteq t.done
         /\ FindCloser(lines, o, k + 1, w, MaxRows).row >= r => r \in t.done
<1>0. n \in Nat /\ n = Len(lines) /\ DOMAIN lines = 1..n /\ (\A i \in 1..n : IsList(lines[i])) /\ MaxRows \in Nat
  BY StripAssumption DEF PlainFile, File
<1>1. PICK p : p = FindCloser(lines, o, k + 1, w, MaxRows)
  OBVIOUS
<1>2. o \in 1..n
  BY <1>0
<1>3. (p = NoPlace \/ ClosedAt(lines, o, k + 1, w, p)) /\ NoPlace.row = 0
  BY <1>0, <1>1, <1>2, FindCloserIs
<1>4. t = IF p.row < r THEN st ELSE [out |-> BlankBlock(st.out, open, p), done |-> st.done \cup open.row..p.row]
  BY <1>1, Zenon DEF StripBlock
<1>5. CASE p.row < r
  <2>1. t = st
    BY <1>4, <1>5
  <2>2. p.row \in Int
    <3>1. CASE p = NoPlace
      BY <1>3, <3>1
    <3>2. CASE ClosedAt(lines, o, k + 1, w, p)
      BY <1>0, <3>2 DEF ClosedAt
    <3> QED
      BY <1>3, <3>1, <3>2
  <2>3. ~(p.row >= r)
    BY <1>0, <1>5, <2>2
  <2> QED
    BY <1>1, <2>1, <2>3
<1>6. CASE ~(p.row < r)
  <2>1. ClosedAt(lines, o, k + 1, w, p)
    <3>1. p # NoPlace
      BY <1>0, <1>3, <1>6
    <3> QED
      BY <1>3, <3>1
  <2>2. PICK z : z = p.row
    OBVIOUS
  <2>3. z \in o..n /\ r \in o..z /\ \A q \in o..(z - 1) : \A i \in DOMAIN lines[q] : ~Counts(lines[q], i, q, w, o, k + 1)
    <3>1. z \in o..n /\ \A q \in o..(z - 1) : \A i \in DOMAIN lines[q] : ~Counts(lines[q], i, q, w, o, k + 1)
      BY <1>0, <2>1, <2>2 DEF ClosedAt
    <3> QED
      BY <1>0, <1>6, <2>2, <3>1
  <2>4. \A i \in o..(z - 1) : in[i] \in Closers(sx)
    <3>1. CASE z = o
      BY <1>0, <3>1
    <3>2. CASE z # o
      <4>1. z - 1 \in Nat /\ z - 1 <= n /\ z - 1 >= o
        BY <1>0, <2>3, <3>2
      <4>2. \A i \in o..(z - 1) : in[i] = w
        BY <1>2, <2>3, <4>1, AlongRows
      <4> QED
        BY <4>2
    <3> QED
      BY <3>1, <3>2
  <2>5. \A i \in o..z : i \notin st.done
    <3> DEFINE S == {i \in o..z : i \in st.done <=> o \in st.done}
    <3>1. o \in S
      BY <1>0, <2>3
    <3>2. ASSUME NEW i \in o..(z - 1), i \in S PROVE i + 1 \in S
      <4>1. i \in 1..(n - 1) /\ i + 1 \in o..z
        BY <1>0, <2>3
      <4>2. i \in st.done <=> i + 1 \in st.done
        BY <2>4, <4>1 DEF Midway
      <4> QED
        BY <3>2, <4>1, <4>2
    <3>3. z \in Nat /\ o \in 0..z
      BY <1>0, <2>3
    <3>4. \A i \in S : i \in st.done <=> o \in st.done
      OBVIOUS
    <3> HIDE DEF S
    <3>5. \A i \in o..z : i \in S
      BY <3>1, <3>2, <3>3, UpFrom
    <3> QED
      BY <2>3, <3>4, <3>5
  <2>6. PICK out : out = BlankBlock(st.out, open, p)
    OBVIOUS
  <2>7. Blanked(lines, in, n, st.out, out, o, z, sx)
    <3>1. IsRows(st.out, n)
      BY DEF Midway
    <3>2. \A i \in o..p.row : st.out[i] = lines[i]
      <4>1. \A i \in o..z : i \in 1..n
        BY <1>0, <2>3
      <4> QED
        BY <2>2, <2>5, <4>1 DEF Midway
    <3>3. open.row = o /\ open.at = k
      OBVIOUS
    <3>4. PlainFile(lines, n, in, sx) /\ w \in Closers(sx) /\ Opening(lines, in, o, k, w, sx)
      OBVIOUS
    <3>5. Blanked(lines, in, n, st.out, out, o, p.row, sx)
      BY ONLY <1>2, <2>1, <2>6, <3>1, <3>2, <3>3, <3>4, BlockCut
    <3> QED
      BY <2>2, <3>5
  <2>8. t.out = out /\ t.done = st.done \cup o..z
    <3>1. t = [out |-> out, done |-> st.done \cup o..z]
      BY <1>4, <1>6, <2>2, <2>6
    <3> QED
      BY <3>1, StripStateIs
  <2>9. /\ IsRows(out, n) /\ in[o - 1] = InCode /\ in[z] = InCode
        /\ \A i \in 1..n : i \notin o..z => out[i] = st.out[i]
        /\ \A i \in o..z : Rewritten(lines[i], in[i - 1], out[i], sx)
    BY <2>7 DEF Blanked
  <2>10. InCode \notin Closers(sx)
    <3>1. IsSyntax(sx)
      BY DEF PlainFile, File
    <3> QED
      BY <3>1, SyntaxIs DEF InCode, Waits
  <2>11. ASSUME NEW i \in 1..(n - 1), in[i] \in Closers(sx) PROVE i \in o..z <=> i + 1 \in o..z
    <3>1. i # z /\ i # o - 1
      BY <2>9, <2>10, <2>11
    <3> QED
      BY <1>0, <2>3, <3>1
  <2>12. o..z \in SUBSET (1..n)
    BY <1>0, <2>3
  <2>13. Midway(lines, in, n, t, sx)
    <3> DEFINE new == o..z
    <3> HIDE DEF new
    <3>1. new = o..z
      BY DEF new
    <3>2. MoreDone(lines, in, n, st, new, t, sx)
      BY <1>0, <2>8, <2>9, <2>11, <2>12, <3>1 DEF MoreDone
    <3> QED
      BY <3>2, MoreIsMidway
  <2> QED
    BY <2>3, <2>8, <2>13
<1> QED
  BY <1>5, <1>6

\* What is made of a row with a label.
LineGoes(lines, in, st, r, t, sx) ==
  \E at, pure : \E token \in sx.line \cup sx.embLine :
    Opening(lines, in, r, at, LineEnd, sx) /\ t = StripLine(st, lines, r, at, token, pure)
BlockGoes(lines, in, st, r, t, sx) ==
  \E o \in 1..r : \E open, k : \E w \in Closers(sx) :
    /\ open.row = o /\ open.at = k /\ open.closer = w /\ Opening(lines, in, o, k, w, sx)
    /\ t = StripBlock(st, lines, r, open)
    /\ o = r \/ (Opened(lines[r], sx) = 0 /\ o \in FoundOn(lines, r, Min(Marks(lines[r])), sx))

LEMMA OpenIs ==
  ASSUME NEW row, NEW at, NEW closer, NEW b, b = [row |-> row, at |-> at, closer |-> closer]
  PROVE  b.row = row /\ b.at = at /\ b.closer = closer
OBVIOUS

LEMMA RowGoes ==
  ASSUME NEW sx, NEW lines, NEW n, NEW in, PlainFile(lines, n, in, sx), NEW st, NEW r \in 1..n,
         NEW t, t = StripRow(st, lines, r, Opened(lines[r], sx), sx)
  PROVE  \/ LineGoes(lines, in, st, r, t, sx)
         \/ BlockGoes(lines, in, st, r, t, sx)
         \/ t = st /\ Opened(lines[r], sx) = 0 /\ FoundOn(lines, r, Min(Marks(lines[r])), sx) = {}
<1>1. PICK su, h : /\ su = Row(lines, in, r, sx) /\ RowEnd(su, lines[r], h, in[r - 1], in[r], sx)
                   /\ h \in Nat /\ DOMAIN lines[r] = 1..h /\ n \in Nat
  BY RowEndOf
<1>2. PICK l, c, at : l = lines[r] /\ c = in[r - 1] /\ at = Opened(lines[r], sx)
  OBVIOUS
<1>3. PlainRow(su, l, h, c, sx) /\ MayBegin(c, sx) /\ IsSyntax(sx)
  BY <1>1, <1>2 DEF RowEnd, RowIs
<1>4. at \in Nat /\ (at > 0 => at \in 1..h /\ OpensAt(su, l, at, sx))
  BY <1>1, <1>2, OpenedIs
<1>5. CASE at > 0 /\ l[at] \in sx.line \cup sx.embLine
  <2>1. t = StripLine(st, lines, r, at, l[at], at = Lead(l))
    BY <1>2, <1>5 DEF StripRow
  <2>2. su[at].in = LineEnd
    BY <1>3, <1>4, <1>5, WaitsFor
  <2>3. Opening(lines, in, r, at, LineEnd, sx)
    BY <1>1, <1>2, <1>4, <1>5, <2>2 DEF Opening
  <2> QED
    BY <1>5, <2>1, <2>3 DEF LineGoes
<1>6. CASE at > 0 /\ l[at] \notin sx.line \cup sx.embLine
  <2>1. l[at] \in Openers(Pairs(sx))
    BY <1>3, <1>4, <1>6, WaitsFor
  <2>2. PICK p \in Pairs(sx) : p.o = l[at]
    BY <2>1 DEF Openers
  <2>3. PICK q \in Pairs(sx) : q.o = l[at] /\ CloserOf(sx, l[at]) = q.c
    BY <2>2 DEF CloserOf
  <2>4. su[at].in = q.c
    BY <1>3, <1>4, <1>6, <2>3, WaitsFor
  <2>5. Opening(lines, in, r, at, q.c, sx) /\ q.c \in Closers(sx)
    BY <1>1, <1>2, <1>4, <1>6, <2>4 DEF Opening, Closers
  <2> DEFINE b == [row |-> r, at |-> at, closer |-> CloserOf(sx, l[at])]
  <2>6. t = StripBlock(st, lines, r, b)
    <3>1. ~(at > 0 /\ lines[r][at] \in sx.line \cup sx.embLine) /\ at > 0
      BY <1>2, <1>6
    <3>2. {b} # {} /\ (CHOOSE x \in {b} : TRUE) = b
      OBVIOUS
    <3>3. t = IF {b} = {} THEN st ELSE StripBlock(st, lines, r, CHOOSE x \in {b} : TRUE)
      BY <1>2, <3>1 DEF StripRow
    <3> QED
      BY <3>2, <3>3
  <2>7. b.row = r /\ b.at = at /\ b.closer = q.c
    BY <2>3, OpenIs
  <2>8. r \in 1..r
    BY <1>1
  <2> HIDE DEF b
  <2> QED
    BY <2>5, <2>6, <2>7, <2>8 DEF BlockGoes
<1>7. CASE at = 0
  <2>1. PICK E, col : E = EnclosingBlock(lines, r, col, sx) /\ col = Min(Marks(lines[r]))
    OBVIOUS
  <2>2. t = IF E = {} THEN st ELSE StripBlock(st, lines, r, CHOOSE x \in E : TRUE)
    BY <1>2, <1>7, <2>1 DEF StripRow
  <2>3. CASE E = {}
    <3>1. FoundOn(lines, r, col, sx) = {}
      BY <2>1, <2>3, EnclosingAre
    <3> QED
      BY <1>2, <1>7, <2>1, <2>2, <2>3, <3>1
  <2>4. CASE E # {}
    <3>1. PICK b \in E : b = CHOOSE x \in E : TRUE
      BY <2>4
    <3>5. b \in EnclosingBlock(lines, r, col, sx) /\ PlainFile(lines, n, in, sx) /\ r \in 1..n
      BY <2>1, <3>1
    <3>6. PICK o \in 1..r : \E p \in Pairs(sx) : /\ b.row = o /\ b.closer = p.c /\ Opening(lines, in, o, b.at, p.c, sx)
                                               /\ o \in FoundOn(lines, r, col, sx)
      BY ONLY <3>5, EnclosingIs
    <3>2. PICK p \in Pairs(sx) : /\ b.row = o /\ b.closer = p.c /\ Opening(lines, in, o, b.at, p.c, sx)
                                /\ o \in FoundOn(lines, r, col, sx)
      BY <3>6
    <3>3. t = StripBlock(st, lines, r, b) /\ p.c \in Closers(sx)
      BY <2>2, <2>4, <3>1 DEF Closers
    <3>4. PICK k, w : k = b.at /\ w = p.c
      OBVIOUS
    <3> QED
      BY <1>2, <1>7, <2>1, <3>2, <3>3, <3>4 DEF BlockGoes
  <2> QED
    BY <2>3, <2>4
<1> QED
  BY <1>4, <1>5, <1>6, <1>7

LEMMA LineGoesOn ==
  ASSUME NEW sx, NEW lines, NEW n, NEW in, PlainFile(lines, n, in, sx), NEW st, Midway(lines, in, n, st, sx),
         NEW r \in 1..n, r \notin st.done, NEW t, LineGoes(lines, in, st, r, t, sx)
  PROVE  Midway(lines, in, n, t, sx) /\ st.done \subseteq t.done /\ r \in t.done
<1>1. PICK at, pure : \E token \in sx.line \cup sx.embLine :
        Opening(lines, in, r, at, LineEnd, sx) /\ t = StripLine(st, lines, r, at, token, pure)
  BY DEF LineGoes
<1>2. PICK token \in sx.line \cup sx.embLine :
        Opening(lines, in, r, at, LineEnd, sx) /\ t = StripLine(st, lines, r, at, token, pure)
  BY <1>1
<1> QED
  BY <1>2, LineStep

LEMMA BlockGoesOn ==
  ASSUME NEW sx, NEW lines, NEW n, NEW in, PlainFile(lines, n, in, sx), NEW st, Midway(lines, in, n, st, sx),
         NEW r \in 1..n, r \notin st.done, NEW t, BlockGoes(lines, in, st, r, t, sx)
  PROVE  /\ Midway(lines, in, n, t, sx) /\ st.done \subseteq t.done
         /\ \E o \in 1..r : \E k : \E w \in Closers(sx) :
              /\ Opening(lines, in, o, k, w, sx)
              /\ o = r \/ (Opened(lines[r], sx) = 0 /\ o \in FoundOn(lines, r, Min(Marks(lines[r])), sx))
              /\ FindCloser(lines, o, k + 1, w, MaxRows).row >= r => r \in t.done
<1>1. PICK o \in 1..r : \E open, k : \E w \in Closers(sx) :
        /\ open.row = o /\ open.at = k /\ open.closer = w /\ Opening(lines, in, o, k, w, sx)
        /\ t = StripBlock(st, lines, r, open)
        /\ o = r \/ (Opened(lines[r], sx) = 0 /\ o \in FoundOn(lines, r, Min(Marks(lines[r])), sx))
  BY DEF BlockGoes
<1>2. PICK open, k, w :
        /\ w \in Closers(sx)
        /\ open.row = o /\ open.at = k /\ open.closer = w /\ Opening(lines, in, o, k, w, sx)
        /\ t = StripBlock(st, lines, r, open)
        /\ o = r \/ (Opened(lines[r], sx) = 0 /\ o \in FoundOn(lines, r, Min(Marks(lines[r])), sx))
  BY <1>1
<1>3. /\ Midway(lines, in, n, t, sx) /\ st.done \subseteq t.done
      /\ FindCloser(lines, o, k + 1, w, MaxRows).row >= r => r \in t.done
  BY <1>2, BlockStep
<1> QED
  BY <1>2, <1>3

LEMMA RowStepKeeps ==
  ASSUME NEW sx, NEW lines, NEW n, NEW in, PlainFile(lines, n, in, sx), NEW st, Midway(lines, in, n, st, sx),
         NEW r \in 1..n, NEW t, t = RowStep(st, lines, r, sx)
  PROVE  Midway(lines, in, n, t, sx) /\ st.done \subseteq t.done
<1>1. CASE r \in st.done \/ Marks(lines[r]) = {} \/ Directive(lines[r])
  BY <1>1 DEF RowStep
<1>2. CASE ~(r \in st.done \/ Marks(lines[r]) = {} \/ Directive(lines[r]))
  <2>1. t = StripRow(st, lines, r, Opened(lines[r], sx), sx) /\ r \notin st.done
    BY <1>2 DEF RowStep
  <2>2. CASE LineGoes(lines, in, st, r, t, sx)
    BY <2>1, <2>2, LineGoesOn
  <2>3. CASE BlockGoes(lines, in, st, r, t, sx)
    BY <2>1, <2>3, BlockGoesOn
  <2>4. CASE t = st
    BY <2>4
  <2> QED
    BY <2>1, <2>2, <2>3, <2>4, RowGoes
<1> QED
  BY <1>1, <1>2

\* The rows done grow until the last row.
LEMMA AllMidway ==
  ASSUME NEW sx, NEW lines, NEW n, NEW in, PlainFile(lines, n, in, sx), NEW f, StripsTo(f, n, lines, sx)
  PROVE  /\ \A r \in 0..n : Midway(lines, in, n, f[r], sx)
         /\ \A r \in 0..n : \A q \in r..n : f[r].done \subseteq f[q].done
         /\ \A r \in 1..n : f[r] = RowStep(f[r - 1], lines, r, sx)
         /\ n \in Nat
<1>1. n \in Nat /\ n = Len(lines) /\ DOMAIN lines = 1..n
  BY DEF PlainFile, File
<1>2. f[0] = Untouched(lines) /\ \A r \in 1..n : f[r] = RowStep(f[r - 1], lines, r, sx)
  BY <1>1 DEF StripsTo
<1>3. IsRows(lines, n)
  <2>1. IsList(lines)
    BY DEF PlainFile, File
  <2> QED
    BY <1>1, <2>1 DEF IsList, IsRows
<1>4. Midway(lines, in, n, f[0], sx)
  <2>1. f[0].out = lines /\ f[0].done = {}
    BY <1>2 DEF Untouched
  <2> QED
    BY <1>3, <2>1 DEF Midway
<1>5. ASSUME NEW r \in 0..(n - 1), Midway(lines, in, n, f[r], sx)
      PROVE  Midway(lines, in, n, f[r + 1], sx) /\ f[r].done \subseteq f[r + 1].done
  <2>1. PICK q \in 1..n : q = r + 1 /\ q - 1 = r
    BY <1>1
  <2>2. f[q] = RowStep(f[r], lines, q, sx)
    BY <1>2, <2>1
  <2>3. Midway(lines, in, n, f[q], sx) /\ f[r].done \subseteq f[q].done
    BY <1>5, <2>2, RowStepKeeps
  <2> QED
    BY <2>1, <2>3
<1>6. \A r \in 0..n : Midway(lines, in, n, f[r], sx)
  <2> DEFINE S == {r \in 0..n : Midway(lines, in, n, f[r], sx)}
  <2>1. 0 \in S /\ \A r \in 0..(n - 1) : r \in S => r + 1 \in S
    BY <1>1, <1>4, <1>5
  <2>2. \A r \in S : Midway(lines, in, n, f[r], sx)
    OBVIOUS
  <2> HIDE DEF S
  <2>3. \A r \in 0..n : r \in S
    BY <1>1, <2>1, Upwards
  <2> QED
    BY <2>2, <2>3
<1>7. ASSUME NEW r \in 0..n PROVE \A q \in r..n : f[r].done \subseteq f[q].done
  <2> DEFINE S == {q \in r..n : f[r].done \subseteq f[q].done}
  <2>1. r \in S
    BY <1>1
  <2>2. ASSUME NEW q \in r..(n - 1), q \in S PROVE q + 1 \in S
    <3>1. q \in 0..(n - 1) /\ q \in 0..n /\ q + 1 \in r..n
      BY <1>1
    <3>2. f[q].done \subseteq f[q + 1].done
      BY <1>5, <1>6, <3>1
    <3> QED
      BY <2>2, <3>1, <3>2
  <2>3. \A q \in S : f[r].done \subseteq f[q].done
    OBVIOUS
  <2> HIDE DEF S
  <2>4. \A q \in r..n : q \in S
    BY <1>1, <2>1, <2>2, UpFrom
  <2> QED
    BY <2>3, <2>4
<1> QED
  BY <1>1, <1>2, <1>6, <1>7

\* A comment that runs on over the end of a row.
Running(lines, in, o, k, w, j, sx) ==
  /\ o \in 1..j /\ w \in Closers(sx) /\ Opening(lines, in, o, k, w, sx) /\ in[j] = w
  /\ \A q \in o..j : \A i \in DOMAIN lines[q] : ~Counts(lines[q], i, q, w, o, k + 1)
  /\ \A q \in (o + 1)..j : \A i \in DOMAIN lines[q] : lines[q][i] \notin Signs(sx)

LEMMA OpeningBegins ==
  ASSUME NEW sx, NEW lines, NEW n, NEW in, PlainFile(lines, n, in, sx), NEW r \in 1..n, NEW k, NEW w, Opening(lines, in, r, k, w, sx)
  PROVE  in[r - 1] = InCode /\ InCode \notin Closers(sx)
<1>1. PICK st, h : /\ st = Row(lines, in, r, sx) /\ RowEnd(st, lines[r], h, in[r - 1], in[r], sx)
                   /\ h \in Nat /\ DOMAIN lines[r] = 1..h /\ n \in Nat
  BY RowEndOf
<1>2. PICK l, c, e : l = lines[r] /\ c = in[r - 1] /\ e = in[r]
  OBVIOUS
<1>3. RowIs(st, l, h, c, e, sx)
  BY <1>1, <1>2 DEF RowEnd
<1>4. PlainRow(st, l, h, c, sx) /\ InCode \notin Closers(sx)
  BY <1>3, CarryIs
<1>5. k \in 1..h /\ OpensAt(st, l, k, sx)
  BY <1>1, <1>2 DEF Opening
<1>6. c = InCode
  BY <1>4, <1>5, OpeningIs
<1> QED
  BY <1>2, <1>4, <1>6

\* A row that ends in a comment began in it, or opened it.
OpenedHere(lines, in, r, k, w, sx) ==
  Opening(lines, in, r, k, w, sx) /\ \A i \in DOMAIN lines[r] : ~Counts(lines[r], i, r, w, r, k + 1)

LEMMA RowOnward ==
  ASSUME NEW sx, NEW lines, NEW n, NEW in, PlainFile(lines, n, in, sx), NEW r \in 1..n, in[r] \in Closers(sx)
  PROVE  \/ in[r - 1] = in[r] /\ \A i \in DOMAIN lines[r] : lines[r][i] \notin Signs(sx)
         \/ \E k : OpenedHere(lines, in, r, k, in[r], sx)
<1>1. PICK st, h : /\ st = Row(lines, in, r, sx) /\ RowEnd(st, lines[r], h, in[r - 1], in[r], sx)
                   /\ h \in Nat /\ DOMAIN lines[r] = 1..h /\ n \in Nat
  BY RowEndOf
<1>2. PICK l, c, e : l = lines[r] /\ c = in[r - 1] /\ e = in[r]
  OBVIOUS
<1>3. RowIs(st, l, h, c, e, sx) /\ e \in Closers(sx) /\ DOMAIN l = 1..h
  BY <1>1, <1>2 DEF RowEnd
<1>4. PlainRow(st, l, h, c, sx) /\ st[0].in = c /\ Commented(st[h], sx) /\ st[h].in = e
  BY <1>3, CarryIs
<1>5. PICK i \in 0..h : i = 0 /\ h \in i..h /\ i + 1 = 1
  BY <1>1
<1>6. h \in 0..h
  BY <1>1
<1>7. CASE e = c
  <2>1. Commented(st[i], sx)
    BY <1>3, <1>4, <1>5, <1>7 DEF Commented, Waits
  <2>2. \A j \in (i + 1)..h : l[j] # st[i].in
    BY <1>4, <1>5, <2>1, NotClosed
  <2>3. \A j \in 1..h : l[j] # c
    BY <1>4, <1>5, <2>2
  <2>4. RowIs(st, l, h, e, e, sx)
    BY <1>3, <1>7
  <2>5. \A j \in 1..h : l[j] \notin Signs(sx)
    BY <1>3, <1>7, <2>3, <2>4, RowHolds
  <2> QED
    BY <1>2, <1>3, <1>7, <2>5
<1>8. CASE e # c
  <2>1. PICK k \in 1..h : OpensAt(st, l, k, sx) /\ st[k].in = e
    BY <1>4, <1>6, <1>8, WhereOpened
  <2>2. Commented(st[k], sx) /\ k \in 0..h /\ h \in k..h
    BY <1>1, <1>3, <2>1 DEF Commented, Waits
  <2>3. \A j \in (k + 1)..h : l[j] # st[k].in
    BY <1>4, <2>2, NotClosed
  <2>4. \A j \in DOMAIN l : ~Counts(l, j, r, e, r, k + 1)
    BY <1>1, <1>3, <2>1, <2>3 DEF Counts
  <2>5. Opening(lines, in, r, k, e, sx)
    BY <1>1, <1>2, <2>1 DEF Opening
  <2> QED
    BY <1>2, <2>4, <2>5 DEF OpenedHere
<1> QED
  BY <1>7, <1>8

\* Whatever comment a row ends in has an opener, and has met no closer of its own since.
LEMMA Opener ==
  ASSUME NEW sx, NEW lines, NEW n, NEW in, PlainFile(lines, n, in, sx), NEW z \in 0..n, in[z] \in Closers(sx)
  PROVE  \E o, k : Running(lines, in, o, k, in[z], z, sx)
<1>0. n \in Nat /\ in[0] = InCode /\ InCode \notin Closers(sx)
  <2>1. n \in Nat /\ in[0] = InCode /\ IsSyntax(sx)
    BY DEF PlainFile, File
  <2> QED
    BY <2>1, SyntaxIs DEF InCode, Waits
<1> DEFINE S == {j \in 0..n : in[j] \in Closers(sx) => \E o, k : Running(lines, in, o, k, in[j], j, sx)}
<1>1. 0 \in S
  BY <1>0
<1>2. ASSUME NEW j \in 0..(n - 1), j \in S PROVE j + 1 \in S
  <2>1. PICK r \in 1..n : r = j + 1 /\ r - 1 = j
    BY <1>0
  <2> SUFFICES ASSUME in[r] \in Closers(sx) PROVE \E o, k : Running(lines, in, o, k, in[r], r, sx)
    BY <2>1
  <2>2. CASE in[r - 1] = in[r] /\ \A i \in DOMAIN lines[r] : lines[r][i] \notin Signs(sx)
    <3>1. in[j] = in[r]
      BY <2>1, <2>2
    <3>2. PICK o, k : Running(lines, in, o, k, in[j], j, sx)
      BY <1>2, <3>1
    <3>3. /\ o \in 1..j /\ Opening(lines, in, o, k, in[r], sx)
          /\ \A q \in o..j : \A i \in DOMAIN lines[q] : ~Counts(lines[q], i, q, in[r], o, k + 1)
          /\ \A q \in (o + 1)..j : \A i \in DOMAIN lines[q] : lines[q][i] \notin Signs(sx)
      BY <3>1, <3>2 DEF Running
    <3>4. \A q \in o..r : q \in o..j \/ q = r
      BY <1>0, <2>1, <3>3
    <3>5. \A q \in (o + 1)..r : q \in (o + 1)..j \/ q = r
      BY <1>0, <2>1, <3>3
    <3>6. o \in 1..r
      BY <1>0, <2>1, <3>3
    <3>7. in[r] \in Signs(sx)
      <4>1. IsSyntax(sx)
        BY DEF PlainFile, File
      <4> QED
        BY <4>1, SyntaxIs
    <3>8. \A i \in DOMAIN lines[r] : ~Counts(lines[r], i, r, in[r], o, k + 1)
      BY <2>2, <3>7 DEF Counts
    <3>9. \A q \in o..r : \A i \in DOMAIN lines[q] : ~Counts(lines[q], i, q, in[r], o, k + 1)
      BY <3>3, <3>4, <3>8
    <3>10. \A q \in (o + 1)..r : \A i \in DOMAIN lines[q] : lines[q][i] \notin Signs(sx)
      BY <2>2, <3>3, <3>5
    <3> QED
      BY <3>3, <3>6, <3>9, <3>10 DEF Running
  <2>3. CASE \E k : OpenedHere(lines, in, r, k, in[r], sx)
    <3>1. PICK k : OpenedHere(lines, in, r, k, in[r], sx)
      BY <2>3
    <3>2. r \in 1..r /\ (\A q \in r..r : q = r) /\ (\A q \in (r + 1)..r : FALSE)
      BY <1>0
    <3>3. Running(lines, in, r, k, in[r], r, sx)
      BY <3>1, <3>2 DEF OpenedHere, Running
    <3> QED
      BY <3>3
  <2> QED
    BY <2>2, <2>3, RowOnward
<1>3. \A j \in S : in[j] \in Closers(sx) => \E o, k : Running(lines, in, o, k, in[j], j, sx)
  OBVIOUS
<1> HIDE DEF S
<1>4. \A j \in 0..n : j \in S
  BY <1>0, <1>1, <1>2, Upwards
<1> QED
  BY <1>3, <1>4

\* All the rows it runs on over are begun in it.
LEMMA RunningOver ==
  ASSUME NEW sx, NEW lines, NEW n, NEW in, PlainFile(lines, n, in, sx), NEW z \in 0..n, NEW o, NEW k, NEW w,
         Running(lines, in, o, k, w, z, sx)
  PROVE  \A q \in (o + 1)..(z + 1) : in[q - 1] = w
<1>1. /\ o \in 1..z /\ w \in Closers(sx) /\ Opening(lines, in, o, k, w, sx)
      /\ \A q \in o..z : \A i \in DOMAIN lines[q] : ~Counts(lines[q], i, q, w, o, k + 1)
  BY DEF Running
<1>2. n \in Nat
  BY DEF PlainFile, File
<1>3. o \in 1..n /\ z \in Nat /\ z <= n /\ z >= o
  BY <1>1, <1>2
<1>4. \A i \in o..z : in[i] = w
  <2>1. PlainFile(lines, n, in, sx)
    OBVIOUS
  <2> QED
    BY ONLY <1>1, <1>3, <2>1, AlongRows
<1> QED
  BY <1>3, <1>4

\* Where a comment is opened stands a block's opener, outside every string.
LEMMA OpeningValid ==
  ASSUME NEW sx, NEW lines, NEW n, NEW in, PlainFile(lines, n, in, sx), NEW r \in 1..n, NEW k, NEW w \in Closers(sx),
         Opening(lines, in, r, k, w, sx), NEW row, row # r, NEW col
  PROVE  \E p \in Pairs(sx) : p.c = w /\ k \in ValidOn(lines, r, row, col, p.o)
<1>1. PICK st, h : /\ st = Row(lines, in, r, sx) /\ RowEnd(st, lines[r], h, in[r - 1], in[r], sx)
                   /\ h \in Nat /\ DOMAIN lines[r] = 1..h /\ n \in Nat
  BY RowEndOf
<1>2. PICK l, c : l = lines[r] /\ c = in[r - 1]
  OBVIOUS
<1>3. PlainRow(st, l, h, c, sx) /\ MayBegin(c, sx) /\ IsSyntax(sx)
  BY <1>1, <1>2 DEF RowEnd, RowIs
<1>4. k \in 1..h /\ OpensAt(st, l, k, sx) /\ st[k].in = w
  BY <1>1, <1>2 DEF Opening
<1>5. LineEnd \notin Closers(sx)
  BY <1>3, SyntaxIs DEF LineEnd
<1>6. l[k] \in Openers(Pairs(sx)) /\ \A p \in Pairs(sx) : l[k] = p.o => st[k].in = p.c
  <2>1. /\ l[k] \in sx.line \cup sx.embLine => st[k].in = LineEnd
        /\ \A p \in Pairs(sx) : l[k] = p.o => st[k].in = p.c
        /\ l[k] \in sx.line \cup sx.embLine \cup Openers(Pairs(sx))
    BY <1>3, <1>4, WaitsFor
  <2> QED
    BY <1>4, <1>5, <2>1
<1>7. PICK p \in Pairs(sx) : p.o = l[k] /\ p.c = w
  BY <1>4, <1>6 DEF Openers
<1>8. OutsideQuotes(l, k)
  <2>1. k - 1 \in 0..h
    BY <1>1, <1>4
  <2>2. "" \notin Quotes
    BY <1>3, SyntaxIs
  <2>3. QuotesTell(Quoting(l)[k - 1], st[k - 1])
    BY <1>3, <2>1, QuotesAgree
  <2> QED
    BY <1>4, <2>2, <2>3 DEF OutsideQuotes, QuotesTell, OpensAt
<1> QED
  BY <1>1, <1>2, <1>4, <1>7, <1>8 DEF ValidOn


\* A comment is still open up to its closer.
LEMMA OpenStill ==
  ASSUME NEW sx, NEW lines, NEW n, NEW in, PlainFile(lines, n, in, sx), NEW r \in 1..n, NEW o, NEW k, NEW w,
         Running(lines, in, o, k, w, r - 1, sx), NEW col \in Nat, \A i \in DOMAIN lines[r] : i < col => lines[r][i] # w
  PROVE  StillOpen(lines, o, r, col, sx) # {}
<1>1. /\ o \in 1..(r - 1) /\ w \in Closers(sx) /\ Opening(lines, in, o, k, w, sx)
      /\ \A q \in o..(r - 1) : \A i \in DOMAIN lines[q] : ~Counts(lines[q], i, q, w, o, k + 1)
  BY DEF Running
<1>2. /\ n \in Nat /\ n = Len(lines) /\ DOMAIN lines = 1..n /\ \A q \in 1..n : IsList(lines[q])
  BY DEF PlainFile, File
<1>3. o \in 1..n /\ r # o /\ r - o + 1 \in Nat /\ o + (r - o + 1) - 1 = r
  BY <1>1, <1>2
<1>4. PICK p \in Pairs(sx) : p.c = w /\ k \in ValidOn(lines, o, r, col, p.o)
  <2>1. PlainFile(lines, n, in, sx) /\ o \in 1..n /\ w \in Closers(sx) /\ Opening(lines, in, o, k, w, sx) /\ r # o
    BY <1>1, <1>3
  <2> QED
    BY ONLY <2>1, OpeningValid
<1>5. ValidOn(lines, o, r, col, p.o) = {k} /\ k \in Nat
  <2>1. ASSUME NEW i \in ValidOn(lines, o, r, col, p.o) PROVE i \in Nat /\ Opening(lines, in, o, i, p.c, sx)
    <3>1. PlainFile(lines, n, in, sx) /\ o \in 1..n /\ p \in Pairs(sx) /\ i \in ValidOn(lines, o, r, col, p.o)
      BY <1>3, <2>1
    <3> QED
      BY <3>1, ValidIs
  <2>2. ASSUME NEW i \in ValidOn(lines, o, r, col, p.o) PROVE i = k
    <3>1. Opening(lines, in, o, i, p.c, sx)
      BY <2>1, <2>2
    <3> QED
      BY <1>1, <1>3, <3>1, SameOpening
  <2> QED
    BY <1>4, <2>1, <2>2
<1>6. PICK v, m : v = ValidOn(lines, o, r, col, p.o) /\ m = Max(v)
  OBVIOUS
<1>7. m = k /\ v # {}
  <2>1. v = {k} /\ k \in Int
    BY <1>5, <1>6
  <2> QED
    BY <1>6, <2>1, OnlyOne
<1>8. ~ShutBefore(lines, o, r, col, w, k)
  <2>1. PICK rows \in Nat : rows = r - o + 1
    BY <1>3
  <2>2. PICK c : c = FindCloser(lines, o, k + 1, w, rows)
    OBVIOUS
  <2>3. /\ c = NoPlace \/ ClosedAt(lines, o, k + 1, w, c)
        /\ c = NoPlace \/ c.row <= o + rows - 1
    BY <1>2, <1>3, <2>2, FindCloserIs
  <2>4. ASSUME c # NoPlace PROVE ~(c.row < r \/ c.at < col)
    <3>1. ClosedAt(lines, o, k + 1, w, c) /\ c.row <= r
      BY <1>3, <2>1, <2>3, <2>4
    <3>2. PICK a, b : a = c.row /\ b = c.at
      OBVIOUS
    <3>3. a \in o..n /\ b \in DOMAIN lines[a] /\ Counts(lines[a], b, a, w, o, k + 1)
      BY <1>2, <3>1, <3>2 DEF ClosedAt
    <3>4. a \notin o..(r - 1)
      BY <1>1, <3>3
    <3>5. a = r
      BY <1>2, <1>3, <3>1, <3>2, <3>3, <3>4
    <3>6. lines[r][b] = w /\ b \in DOMAIN lines[r]
      BY <3>3, <3>5 DEF Counts
    <3>7. ~(b < col)
      BY <3>6
    <3> QED
      BY <3>2, <3>5, <3>7, <1>2
  <2> QED
    BY <2>1, <2>2, <2>4 DEF ShutBefore
<1>9. PICK b : b = Still(lines, o, r, col, p)
  OBVIOUS
<1>10. b \in StillOpen(lines, o, r, col, sx)
  <2>1. /\ ValidOn(lines, o, r, col, p.o) # {}
        /\ ~ShutBefore(lines, o, r, col, p.c, Max(ValidOn(lines, o, r, col, p.o)))
    BY <1>4, <1>6, <1>7, <1>8
  <2>2. \E q \in Pairs(sx) : /\ ValidOn(lines, o, r, col, q.o) # {}
                            /\ ~ShutBefore(lines, o, r, col, q.c, Max(ValidOn(lines, o, r, col, q.o)))
                            /\ b = Still(lines, o, r, col, q)
    BY <1>9, <2>1
  <2> QED
    BY ONLY <2>2, StillOpenAre
<1> QED
  BY <1>10

\* The rows it runs over are passed by ...
LEMMA RunningPasses ==
  ASSUME NEW sx, NEW lines, NEW n, NEW in, PlainFile(lines, n, in, sx), NEW r \in 1..n, NEW o, NEW k, NEW w,
         Running(lines, in, o, k, w, r - 1, sx), NEW col, NEW s \in (o + 1)..r
  PROVE  PassedBy(lines, s, r, col, sx)
<1>1. o \in 1..(r - 1) /\ w \in Closers(sx) /\ \A q \in (o + 1)..(r - 1) : \A i \in DOMAIN lines[q] : lines[q][i] \notin Signs(sx)
  BY DEF Running
<1>2. n \in Nat /\ IsSyntax(sx) /\ \A q \in 1..n : IsList(lines[q])
  BY DEF PlainFile, File
<1>3. s \in 1..n /\ r - 1 \in 0..n /\ r - 1 + 1 = r
  BY <1>1, <1>2
<1>4. in[s - 1] = w
  BY <1>3, RunningOver
<1>5. ASSUME NEW b \in StillOpen(lines, s, r, col, sx) PROVE FALSE
  <2>1. PICK p \in Pairs(sx) : Opening(lines, in, s, b.at, p.c, sx)
    BY <1>3, StillOpenIs
  <2>2. in[s - 1] = InCode /\ InCode \notin Closers(sx)
    BY <1>3, <2>1, OpeningBegins
  <2> QED
    BY <1>1, <1>4, <2>2
<1>6. ASSUME s < r, NEW p \in Pairs(sx) PROVE At(lines[s], p.c) = 0
  <2>1. PICK l, a, h : l = lines[s] /\ a = At(l, p.c) /\ h = Len(l)
    OBVIOUS
  <2>2. IsList(l) /\ s \in (o + 1)..(r - 1)
    BY <1>1, <1>2, <1>3, <1>6, <2>1
  <2>3. a \in 0..h /\ (a # 0 => l[a] = p.c)
    BY <2>1, <2>2, AtIs
  <2>4. h \in Nat /\ DOMAIN l = 1..h
    BY <2>1, <2>2 DEF IsList
  <2>5. p.c \in Signs(sx)
    <3>1. p.c \in Closers(sx)
      BY DEF Closers
    <3> QED
      BY <1>2, <3>1, SyntaxIs
  <2>6. a # 0 => a \in DOMAIN l
    BY <2>3, <2>4
  <2> QED
    BY <1>1, <2>1, <2>2, <2>3, <2>5, <2>6
<1> QED
  BY <1>5, <1>6 DEF PassedBy

\* ... so that its opener is the one that is found.
LEMMA FoundIs ==
  ASSUME NEW sx, NEW lines, NEW n, NEW in, PlainFile(lines, n, in, sx), NEW r \in 1..n, NEW o, NEW k, NEW w,
         Running(lines, in, o, k, w, r - 1, sx), NEW col \in Nat, \A i \in DOMAIN lines[r] : i < col => lines[r][i] # w,
         n <= MaxRowsUp + 1
  PROVE  FoundOn(lines, r, col, sx) = {o}
<1>1. n \in Nat /\ MaxRowsUp \in Nat
  BY StripAssumption DEF PlainFile, File
<1>2. o \in 1..(r - 1)
  BY DEF Running
<1>3. PICK top : top = Max({1, r - MaxRowsUp})
  OBVIOUS
<1>4. top \in Int /\ top <= o
  <2>1. PICK z : z = r - MaxRowsUp
    OBVIOUS
  <2>2. 1 \in Int /\ z \in Int /\ z <= 1
    BY <1>1, <2>1
  <2>3. top = Max({1, z})
    BY ONLY <1>3, <2>1
  <2>4. top \in {1, z}
    BY ONLY <2>2, <2>3, GreaterIs
  <2> QED
    BY <1>2, <2>2, <2>4
<1>5. o \in top..r
  BY <1>1, <1>2, <1>4
<1>6. StillOpen(lines, o, r, col, sx) # {}
  BY OpenStill
<1>7. \A s \in (o + 1)..r : PassedBy(lines, s, r, col, sx)
  BY RunningPasses
<1>8. o \in FoundOn(lines, r, col, sx)
  BY <1>3, <1>5, <1>6, <1>7 DEF FoundOn
<1>9. ASSUME NEW q \in FoundOn(lines, r, col, sx), q # o PROVE FALSE
  <2>1. /\ q \in top..r /\ StillOpen(lines, q, r, col, sx) # {}
        /\ \A s \in (q + 1)..r : PassedBy(lines, s, r, col, sx)
    BY <1>3, <1>9 DEF FoundOn
  <2>2. q < o => o \in (q + 1)..r
    BY <1>1, <1>2, <1>4, <2>1
  <2>3. q > o => q \in (o + 1)..r
    BY <1>1, <1>2, <1>4, <2>1
  <2>4. ~(q < o)
    BY <1>6, <2>1, <2>2 DEF PassedBy
  <2>5. ~(q > o)
    BY <1>7, <2>1, <2>3 DEF PassedBy
  <2> QED
    BY <1>1, <1>2, <1>4, <1>9, <2>1, <2>4, <2>5
<1> QED
  BY <1>8, <1>9

\* In a file whose last comment is closed, each has its closer within reach.
LEMMA ClosesSomewhere ==
  ASSUME NEW sx, NEW lines, NEW n, NEW in, PlainFile(lines, n, in, sx), in[n] = InCode, n <= MaxRows,
         NEW o \in 1..n, NEW k, NEW w \in Closers(sx), Opening(lines, in, o, k, w, sx),
         NEW p, p = FindCloser(lines, o, k + 1, w, MaxRows)
  PROVE  ClosedAt(lines, o, k + 1, w, p)
<1>1. /\ n \in Nat /\ n = Len(lines) /\ DOMAIN lines = 1..n /\ (\A q \in 1..n : IsList(lines[q])) /\ MaxRows \in Nat
  BY StripAssumption DEF PlainFile, File
<1>2. /\ p = NoPlace \/ ClosedAt(lines, o, k + 1, w, p)
      /\ p = NoPlace => \A r \in o..n : r <= o + MaxRows - 1 => \A i \in DOMAIN lines[r] : ~Counts(lines[r], i, r, w, o, k + 1)
  BY <1>1, FindCloserIs
<1>3. ASSUME p = NoPlace PROVE FALSE
  <2>1. \A r \in o..n : r <= o + MaxRows - 1
    BY <1>1
  <2>2. \A r \in o..n : \A i \in DOMAIN lines[r] : ~Counts(lines[r], i, r, w, o, k + 1)
    BY <1>2, <1>3, <2>1
  <2>3. n \in Nat /\ n <= n /\ n >= o /\ n \in o..n
    BY <1>1
  <2>4. \A i \in o..n : in[i] = w
    <3>1. PlainFile(lines, n, in, sx) /\ o \in 1..n /\ w \in Closers(sx) /\ Opening(lines, in, o, k, w, sx)
      OBVIOUS
    <3> QED
      BY ONLY <2>2, <2>3, <3>1, AlongRows
  <2>5. InCode \notin Closers(sx)
    BY OpeningBegins
  <2> QED
    BY <2>3, <2>4, <2>5
<1> QED
  BY <1>2, <1>3

\* A label the reader meets on a row that no comment is opened on before it: the row is
\* inside of one, which the stripper finds.
LEMMA LabelInside ==
  ASSUME NEW sx, NEW lines, NEW n, NEW in, PlainFile(lines, n, in, sx), NEW r \in 1..n, n <= MaxRowsUp + 1,
         EndOf(lines[r], in[r - 1], sx).label, Opened(lines[r], sx) = 0
  PROVE  \E o, k, w : /\ Running(lines, in, o, k, w, r - 1, sx)
                      /\ FoundOn(lines, r, Min(Marks(lines[r])), sx) = {o}
<1>1. PICK st, h : /\ st = Row(lines, in, r, sx) /\ RowEnd(st, lines[r], h, in[r - 1], in[r], sx)
                   /\ h \in Nat /\ DOMAIN lines[r] = 1..h /\ n \in Nat
  BY RowEndOf
<1>2. PICK l, c, e : l = lines[r] /\ c = in[r - 1] /\ e = in[r]
  OBVIOUS
<1>3. RowEnd(st, l, h, c, e, sx) /\ DOMAIN l = 1..h
  BY <1>1, <1>2
<1>4. RowIs(st, l, h, c, e, sx) /\ st[h].label /\ IsSyntax(sx) /\ Goes(st, l, h, c, sx)
  BY <1>2, <1>3 DEF RowEnd, RowIs, PlainRow
<1>5. PlainRow(st, l, h, c, sx) /\ st[0].in = c /\ (c = InCode \/ c \in Closers(sx)) /\ InCode \notin Closers(sx)
  BY <1>4, CarryIs
<1>6. h \in 0..h
  BY <1>1
<1>7. PICK m \in 1..h : l[m] = Marker /\ Commented(st[m - 1], sx)
  BY <1>4, <1>6, LabelRead
<1>8. m \in Marks(l)
  BY <1>3, <1>7 DEF Marks
<1>9. \A k \in 1..(m - 1) : ~OpensAt(st, l, k, sx)
  <2>1. PICK at : at = Opened(l, sx) /\ at = 0
    BY <1>2
  <2>2. at = 0 => \A x \in Marks(l) : \A k \in 1..(x - 1) : ~OpensAt(st, l, k, sx)
    BY <1>3, <2>1, OpenedIs
  <2> QED
    BY <1>8, <2>1, <2>2
<1>10. PICK i \in 0..h : i = m - 1
  BY <1>1, <1>7
<1>11. st[i].in = c
  <2>1. st[i].in = c \/ \E k \in 1..i : OpensAt(st, l, k, sx) /\ st[k].in = st[i].in
    BY <1>5, <1>7, <1>10, WhereOpened
  <2> QED
    BY <1>9, <1>10, <2>1
<1>12. c \in Closers(sx)
  <2>1. c # InCode
    <3>1. "" \notin Waits(sx)
      BY <1>4, SyntaxIs
    <3> QED
      BY <1>7, <1>10, <1>11, <3>1 DEF Commented, InCode
  <2> QED
    BY <1>5, <2>1
<1>13. PICK b \in 0..h : b = 0 /\ b + 1 = 1 /\ i \in b..h
  BY <1>1, <1>10
<1>14. \A j \in 1..(m - 1) : l[j] # c
  <2>1. Commented(st[b], sx) /\ Commented(st[i], sx)
    BY <1>5, <1>7, <1>10, <1>12, <1>13 DEF Commented, Waits
  <2>2. \A j \in (b + 1)..i : l[j] # st[b].in
    BY <1>5, <1>13, <2>1, NotClosed
  <2> QED
    BY <1>5, <1>10, <1>13, <2>2
<1>15. PICK col : col = Min(Marks(l))
  OBVIOUS
<1>16. col \in Nat /\ col <= m
  <2>1. Marks(l) \in SUBSET Nat
    BY <1>3 DEF Marks
  <2> QED
    BY <1>8, <1>15, <2>1, LeastIs
<1>17. \A j \in DOMAIN lines[r] : j < col => lines[r][j] # c
  BY <1>1, <1>2, <1>7, <1>14, <1>16
<1>18. PICK z \in 0..n : z = r - 1
  BY <1>1
<1>19. PICK o, k : Running(lines, in, o, k, c, r - 1, sx)
  <2>1. in[z] \in Closers(sx) /\ in[z] = c
    BY <1>2, <1>12, <1>18
  <2>2. \E o, k : Running(lines, in, o, k, in[z], z, sx)
    BY <2>1, Opener
  <2> QED
    BY <1>18, <2>1, <2>2
<1>20. FoundOn(lines, r, col, sx) = {o}
  <2>1. PICK S : S = FoundOn(lines, r, col, sx)
    OBVIOUS
  <2>2. S = {o}
    BY <1>16, <1>17, <1>19, <2>1, FoundIs
  <2> QED
    BY <2>1, <2>2
<1> QED
  BY <1>2, <1>15, <1>19, <1>20

\* A row with a label that is read is done by the time it has been gone through.
LEMMA LabelGoes ==
  ASSUME NEW sx, NEW lines, NEW n, NEW in, PlainFile(lines, n, in, sx), in[n] = InCode, n <= MaxRows, n <= MaxRowsUp + 1,
         NEW r \in 1..n, EndOf(lines[r], in[r - 1], sx).label, ~Directive(lines[r]),
         NEW st, Midway(lines, in, n, st, sx), NEW t, t = RowStep(st, lines, r, sx)
  PROVE  r \in t.done
<1>0. n \in Nat
  BY DEF PlainFile, File
<1>1. Marks(lines[r]) # {}
  <2>1. PICK su, h : /\ su = Row(lines, in, r, sx) /\ RowEnd(su, lines[r], h, in[r - 1], in[r], sx)
                     /\ h \in Nat /\ DOMAIN lines[r] = 1..h /\ n \in Nat
    BY RowEndOf
  <2>2. PICK l, c : l = lines[r] /\ c = in[r - 1]
    OBVIOUS
  <2>3. su[h].label /\ IsSyntax(sx) /\ Goes(su, l, h, c, sx) /\ h \in 0..h
    BY <2>1, <2>2 DEF RowEnd, RowIs, PlainRow
  <2>4. PICK m \in 1..h : l[m] = Marker
    BY <2>3, LabelRead
  <2> QED
    BY <2>1, <2>2, <2>4 DEF Marks
<1>2. CASE r \in st.done
  BY <1>2 DEF RowStep
<1>3. CASE r \notin st.done
  <2>1. t = StripRow(st, lines, r, Opened(lines[r], sx), sx)
    BY <1>1, <1>3 DEF RowStep
  <2>2. CASE LineGoes(lines, in, st, r, t, sx)
    BY <1>3, <2>2, LineGoesOn
  <2>3. CASE BlockGoes(lines, in, st, r, t, sx)
    <3>1. PICK o \in 1..r : \E k : \E w \in Closers(sx) :
              /\ Opening(lines, in, o, k, w, sx)
              /\ o = r \/ (Opened(lines[r], sx) = 0 /\ o \in FoundOn(lines, r, Min(Marks(lines[r])), sx))
              /\ FindCloser(lines, o, k + 1, w, MaxRows).row >= r => r \in t.done
      BY <1>3, <2>3, BlockGoesOn
    <3>2. PICK k : \E w \in Closers(sx) :
              /\ Opening(lines, in, o, k, w, sx)
              /\ o = r \/ (Opened(lines[r], sx) = 0 /\ o \in FoundOn(lines, r, Min(Marks(lines[r])), sx))
              /\ FindCloser(lines, o, k + 1, w, MaxRows).row >= r => r \in t.done
      BY <3>1
    <3>3. PICK w \in Closers(sx) :
              /\ Opening(lines, in, o, k, w, sx)
              /\ o = r \/ (Opened(lines[r], sx) = 0 /\ o \in FoundOn(lines, r, Min(Marks(lines[r])), sx))
              /\ FindCloser(lines, o, k + 1, w, MaxRows).row >= r => r \in t.done
      BY <3>2
    <3>4. PICK p : p = FindCloser(lines, o, k + 1, w, MaxRows)
      OBVIOUS
    <3>5. o \in 1..n
      BY <1>0
    <3>6. ClosedAt(lines, o, k + 1, w, p)
      <4>1. Opening(lines, in, o, k, w, sx)
        BY <3>3
      <4> QED
        BY <3>4, <3>5, <4>1, ClosesSomewhere
    <3>7. n = Len(lines)
      BY DEF PlainFile, File
    <3>8. p.row \in o..n
      BY <3>6, <3>7 DEF ClosedAt
    <3>9. CASE o = r
      BY <1>0, <3>3, <3>4, <3>8, <3>9
    <3>10. CASE Opened(lines[r], sx) = 0 /\ o \in FoundOn(lines, r, Min(Marks(lines[r])), sx)
      <4>1. PICK a, b, v : /\ Running(lines, in, a, b, v, r - 1, sx)
                           /\ FoundOn(lines, r, Min(Marks(lines[r])), sx) = {a}
        BY <3>10, LabelInside
      <4>2. a = o
        BY <3>10, <4>1
      <4>3. /\ Opening(lines, in, o, b, v, sx)
            /\ \A q \in o..(r - 1) : \A i \in DOMAIN lines[q] : ~Counts(lines[q], i, q, v, o, b + 1)
        BY <4>1, <4>2 DEF Running
      <4>4. b = k /\ v = w
        BY <3>3, <3>5, <4>3, SameOpening
      <4>5. p.row \notin o..(r - 1)
        BY <3>6, <4>3, <4>4 DEF ClosedAt
      <4>6. p.row >= r
        BY <1>0, <3>8, <4>5
      <4> QED
        BY <3>3, <3>4, <4>6
    <3> QED
      BY <3>3, <3>9, <3>10
  <2>4. CASE Opened(lines[r], sx) = 0 /\ FoundOn(lines, r, Min(Marks(lines[r])), sx) = {}
    BY <2>4, LabelInside
  <2> QED
    BY <2>1, <2>2, <2>3, <2>4, RowGoes
<1> QED
  BY <1>2, <1>3

\* A file that can be read.
LEMMA RowsAre == ASSUME NEW f, NEW n \in Nat, IsRows(f, n) PROVE IsList(f) /\ Len(f) = n /\ DOMAIN f = 1..n
<1> DEFINE S == {f[i] : i \in 1..n}
<1>1. f \in [1..n -> S]
  BY DEF IsRows
<1>2. f \in Seq(S)
  BY <1>1
<1>3. Len(f) = n /\ DOMAIN f = 1..n
  BY <1>1
<1> QED
  BY <1>2, <1>3 DEF IsList

\* In a file in which the text tells the comments from the code, stripping (strip.mjs) leaves
\* the code of each row as a compiler reads it; and where the file ends in code, is no longer
\* than the stripper looks and has no tool's line, no label is left in a comment.
THEOREM CodeStripped ==
  ASSUME NEW sx, IsSyntax(sx), NEW lines, IsList(lines), \A r \in DOMAIN lines : IsLine(lines[r]),
         NEW was, was = Reading(lines, sx), NEW now, now = Reading(StripCode(lines, sx), sx), ~was.odd
  PROVE  /\ now.rows = was.rows
         /\ was.in = InCode /\ Len(lines) <= MaxRows /\ Len(lines) <= MaxRowsUp + 1
            /\ (\A r \in DOMAIN lines : ~Directive(lines[r])) => now.labels = {}
<1>1. PICK n \in Nat : n = Len(lines) /\ DOMAIN lines = 1..n
  <2>1. PICK S : lines \in Seq(S)
    BY DEF IsList
  <2> QED
    BY <2>1
<1>2. PICK in : in = CarriedOver(lines, sx)
  OBVIOUS
<1>3. \A r \in 1..n : IsList(lines[r])
  BY <1>1, LineIs
<1>4. File(lines, n, in, sx) /\ IsRead(lines, n, in, sx, was)
  BY <1>1, <1>2, <1>3, ReadingIs
<1>5. PlainFile(lines, n, in, sx)
  BY <1>1, <1>4 DEF IsRead, PlainFile
<1>6. PICK f : StripsTo(f, n, lines, sx) /\ StripCode(lines, sx) = f[n].out
  BY <1>1, StripGoes
<1>7. /\ \A r \in 0..n : Midway(lines, in, n, f[r], sx)
      /\ \A r \in 0..n : \A q \in r..n : f[r].done \subseteq f[q].done
      /\ \A r \in 1..n : f[r] = RowStep(f[r - 1], lines, r, sx)
  BY <1>5, <1>6, AllMidway
<1>8. PICK out, done : out = f[n].out /\ done = f[n].done
  OBVIOUS
<1>9. /\ IsRows(out, n) /\ \A r \in 1..n : r \notin done => out[r] = lines[r]
      /\ \A r \in 1..n : r \in done => Rewritten(lines[r], in[r - 1], out[r], sx)
  <2>1. n \in 0..n
    BY <1>1
  <2> QED
    BY <1>7, <1>8, <2>1 DEF Midway
<1>10. IsList(out) /\ n = Len(out) /\ DOMAIN out = 1..n
  BY <1>9, RowsAre
<1>11. \A r \in 1..n : IsList(out[r])
  BY <1>3, <1>9 DEF Rewritten
<1>12. PICK on : on = CarriedOver(out, sx)
  OBVIOUS
<1>13. now = Reading(out, sx)
  BY <1>6, <1>8
<1>14. File(out, n, on, sx) /\ IsRead(out, n, on, sx, now)
  BY <1>10, <1>11, <1>12, <1>13, ReadingIs
<1>15. \A r \in 0..n : on[r] = in[r]
  <2>1. \A r \in 1..n : out[r] = lines[r] \/ Rewritten(lines[r], in[r - 1], out[r], sx)
    BY <1>9
  <2> QED
    BY <1>4, <1>14, <2>1, FileKeeps
<1>16. \A r \in 1..n : on[r - 1] = in[r - 1]
  <2>1. \A r \in 1..n : r - 1 \in 0..n
    BY <1>1
  <2> QED
    BY <1>15, <2>1
<1>17. \A r \in 1..n : EndOf(out[r], on[r - 1], sx).code = EndOf(lines[r], in[r - 1], sx).code
  <2> SUFFICES ASSUME NEW r \in 1..n PROVE EndOf(out[r], in[r - 1], sx).code = EndOf(lines[r], in[r - 1], sx).code
    BY <1>16
  <2>1. CASE r \in done
    BY <1>9, <2>1 DEF Rewritten
  <2>2. CASE r \notin done
    BY <1>9, <2>2
  <2> QED
    BY <2>1, <2>2
<1>18. now.rows = was.rows
  BY <1>4, <1>14, <1>17 DEF IsRead
<1>19. ASSUME in[n] = InCode, n <= MaxRows, n <= MaxRowsUp + 1, \A r \in 1..n : ~Directive(lines[r]),
              NEW r \in 1..n, EndOf(out[r], on[r - 1], sx).label
       PROVE  FALSE
  <2>1. EndOf(out[r], in[r - 1], sx).label
    BY <1>16, <1>19
  <2>2. r \notin done
    BY <1>9, <2>1 DEF Rewritten
  <2>3. EndOf(lines[r], in[r - 1], sx).label
    BY <1>9, <2>1, <2>2
  <2>4. r - 1 \in 0..n /\ r \in 0..n /\ n \in r..n
    BY <1>1
  <2>5. PICK st, t : st = f[r - 1] /\ t = f[r]
    OBVIOUS
  <2>6. Midway(lines, in, n, st, sx) /\ t = RowStep(st, lines, r, sx) /\ t.done \subseteq done
    BY <1>7, <1>8, <2>4, <2>5
  <2>7. r \in t.done
    BY <1>5, <1>19, <2>3, <2>6, LabelGoes
  <2> QED
    BY <2>2, <2>6, <2>7
<1>20. ASSUME was.in = InCode, Len(lines) <= MaxRows, Len(lines) <= MaxRowsUp + 1, \A r \in DOMAIN lines : ~Directive(lines[r])
       PROVE  now.labels = {}
  <2>1. in[n] = InCode
    BY <1>4, <1>20 DEF IsRead
  <2>2. \A r \in 1..n : ~EndOf(out[r], on[r - 1], sx).label
    BY <1>1, <1>19, <1>20, <2>1
  <2> QED
    BY <1>14, <2>2 DEF IsRead
<1> QED
  BY <1>18, <1>20
=================================================================================
