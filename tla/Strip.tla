--------------------------------- MODULE Strip ---------------------------------
(***************************************************************************)
(* The annotation stripper (tools/annotations/strip.mjs): how the comments *)
(* that label the planted bugs leave a file before an image is built.      *)
(*                                                                         *)
(* A file is a sequence of lines, a line a sequence of symbols: " ", a     *)
(* quote, an escape, an opener or a closer of a comment, a marker, a       *)
(* pragma (what a tool reads after an opener), a comment key, or a word.   *)
(* A banner's opener is a word.  A syntax is [kind, line, block, embLine,  *)
(* embBlock]: the openers native to the file, and those that only count at *)
(* the start of a line; a block opener comes with its closer, [o, c].      *)
(***************************************************************************)
EXTENDS Integers, SequencesExt

CONSTANTS
  MaxRows,      \* how far down a closer is looked for
  MaxRowsUp     \* how far up an opener is

ASSUME StripAssumption == MaxRows \in Nat /\ MaxRowsUp \in Nat

Quotes == {"sq", "dq", "bt"}
Marker == "label"   \* what makes a comment an annotation
Lead(l) == SelectInSeq(l, LAMBDA s : s # " ")
Blank(l) == Lead(l) = 0
Marks(l) == {i \in DOMAIN l : l[i] = Marker}
At(l, s) == SelectInSeq(l, LAMBDA x : x = s)
Upto(l, n)  == SubSeq(l, 1, Min({n, Len(l)}))
From(l, n)  == SubSeq(l, n, Len(l))

Openers(pairs) == {p.o : p \in pairs}
Pairs(sx) == sx.block \cup sx.embBlock

\* A line a tool interprets.
Directive(l) == Lead(l) \in 1..(Len(l) - 1) /\ l[Lead(l) + 1] = "pragma"

\* The quote that is open after each of the symbols of a line, "" where none is.
Quoting(l) ==
  LET after[i \in 0..Len(l)] ==
        IF i = 0 THEN [in |-> "", skip |-> FALSE]
        ELSE LET st == after[i - 1] IN
             IF st.skip THEN [st EXCEPT !.skip = FALSE]
             ELSE IF l[i] = "esc" THEN [st EXCEPT !.skip = TRUE]
             ELSE IF st.in # "" THEN [st EXCEPT !.in = IF l[i] = @ THEN "" ELSE @]
             ELSE [st EXCEPT !.in = IF l[i] \in Quotes THEN l[i] ELSE ""] IN
  after

\* The position is outside every string of its line.
OutsideQuotes(l, at) == Quoting(l)[at - 1].in = ""

OpenersOn(l, limit, sx) ==
  {i \in 1..(limit - 1) :
     /\ \/ l[i] \in sx.line \cup Openers(sx.block)
        \/ i = Lead(l) /\ l[i] \in sx.embLine \cup Openers(sx.embBlock)
     /\ OutsideQuotes(l, i)}

\* The first opener before a marker of the line, 0 where there is none.
Opened(l, sx) == LET os == UNION {OpenersOn(l, m, sx) : m \in Marks(l)} IN IF os = {} THEN 0 ELSE Min(os)

PureComment(l, token) == ~Blank(l) /\ l[Lead(l)] = token /\ ~Directive(l)

-----------------------------------------------------------------------------
(* Blocks.  A place is [row, at]. *)

NoPlace == [row |-> 0, at |-> 0]

\* The first closer from a place on, so many rows down.
FindCloser(lines, row, from, closer, rows) ==
  LET on(r) == {i \in DOMAIN lines[r] : lines[r][i] = closer /\ (r = row => i >= from)}
      found == {r \in row..Min({Len(lines), row + rows - 1}) : on(r) # {}} IN
  IF found = {} THEN NoPlace ELSE [row |-> Min(found), at |-> Min(on(Min(found)))]

\* The openers of a row that are still open at a place: the last of each kind.
StillOpen(lines, r, row, col, sx) ==
  LET line  == lines[r]
      valid(p) == {i \in DOMAIN line : line[i] = p.o /\ (r = row => i < col) /\ OutsideQuotes(line, i)}
      shut(p, i) == LET c == FindCloser(lines, r, i + 1, p.c, row - r + 1) IN
                    c # NoPlace /\ (c.row < row \/ c.at < col) IN
  {[row |-> r, at |-> Max(valid(p)), closer |-> p.c] :
     p \in {x \in Pairs(sx) : valid(x) # {} /\ ~shut(x, Max(valid(x)))}}

\* The block a row is inside of: the nearest opener above that is not closed, with no closer
\* of another in between.
EnclosingBlock(lines, row, col, sx) ==
  LET open(r)  == StillOpen(lines, r, row, col, sx)
      passed(r) == open(r) = {} /\ (r < row => \A p \in Pairs(sx) : At(lines[r], p.c) = 0)
      found == {r \in Max({1, row - MaxRowsUp})..row : open(r) # {} /\ \A s \in (r + 1)..row : passed(s)} IN
  {CHOOSE b \in open(r) : \A x \in open(r) : x.at <= b.at : r \in found}

BlankBlock(out, open, close) ==
  IF open.row = close.row
  THEN [out EXCEPT ![open.row] = Upto(@, open.at) \o <<" ">> \o From(@, close.at)]
  ELSE [i \in DOMAIN out |->
          IF i = open.row THEN Upto(out[i], open.at)
          ELSE IF i = close.row THEN Upto(out[i], Lead(out[i]) - 1) \o From(out[i], close.at)
          ELSE IF i \in open.row..close.row THEN <<>> ELSE out[i]]

-----------------------------------------------------------------------------
(* The transform.  st is what has been written and the rows that are done. *)

\* The run of comment lines around a label: below it, aligned under a trailing one, and above.
Below(lines, r, at, token, pure) ==
  {i \in (r + 1)..Len(lines) :
     \A j \in (r + 1)..i : PureComment(lines[j], token) /\ (pure \/ At(lines[j], token) = at)}
Above(lines, r, token, done) ==
  {i \in 1..(r - 1) : \A j \in i..(r - 1) : j \notin done /\ PureComment(lines[j], token)}

StripLine(st, lines, r, at, token, pure) ==
  LET run == Below(lines, r, at, token, pure) \cup (IF pure THEN Above(lines, r, token, st.done) ELSE {}) IN
  [out  |-> [i \in DOMAIN st.out |-> IF i = r THEN Upto(st.out[i], at)
                                     ELSE IF i \in run THEN Upto(lines[i], At(lines[i], token)) ELSE st.out[i]],
   done |-> st.done \cup run \cup {r}]

\* Mutant: what follows the closer goes as well.
StripBlock_NoRest(st, lines, r, open) ==
  LET close == FindCloser(lines, open.row, open.at + 1, open.closer, MaxRows) IN
  IF close.row < r THEN st
  ELSE [out |-> [BlankBlock(st.out, open, close) EXCEPT ![close.row] = Upto(@, Max({1, At(@, open.closer)}))],
        done |-> st.done \cup open.row..close.row]

StripBlock(st, lines, r, open) ==
  LET close == FindCloser(lines, open.row, open.at + 1, open.closer, MaxRows) IN
  IF close.row < r THEN st
  ELSE [out |-> BlankBlock(st.out, open, close), done |-> st.done \cup open.row..close.row]

CloserOf(sx, token) == (CHOOSE p \in Pairs(sx) : p.o = token).c

StripRow(st, lines, r, at, sx) ==
  IF at > 0 /\ lines[r][at] \in sx.line \cup sx.embLine
  THEN StripLine(st, lines, r, at, lines[r][at], at = Lead(lines[r]))
  ELSE LET open == IF at > 0 THEN {[row |-> r, at |-> at, closer |-> CloserOf(sx, lines[r][at])]}
                   ELSE EnclosingBlock(lines, r, Min(Marks(lines[r])), sx) IN
       IF open = {} THEN st ELSE StripBlock(st, lines, r, CHOOSE o \in open : TRUE)

StripCode(lines, sx) ==
  LET after[r \in 0..Len(lines)] ==
        IF r = 0 THEN [out |-> lines, done |-> {}]
        ELSE IF r \in after[r - 1].done \/ Marks(lines[r]) = {} \/ Directive(lines[r]) THEN after[r - 1]
        ELSE StripRow(after[r - 1], lines, r, Opened(lines[r], sx), sx) IN
  after[Len(lines)].out

\* Prose has no syntax to keep: the paragraph goes.
StripProse(lines) ==
  [i \in DOMAIN lines |->
     IF \E r \in DOMAIN lines : Marks(lines[r]) # {} /\ \A j \in Min({i, r})..Max({i, r}) : ~Blank(lines[j])
     THEN <<>> ELSE lines[i]]

\* JSON's comments are the values of conventional keys.
StripJson(lines) ==
  LET key(l)  == ~Blank(l) /\ l[Lead(l)] = "key"
      ends(l) == {i \in (Lead(l) + 1)..Len(l) : l[i] = "dq" /\ l[i - 1] # "esc"}
      value(l) == (Lead(l) + 1)..(Min(ends(l)) - 1) IN
  [i \in DOMAIN lines |->
     LET l == lines[i] IN
     IF key(l) /\ ends(l) # {} /\ Marks(l) \cap value(l) # {} THEN Upto(l, Lead(l)) \o From(l, Min(ends(l))) ELSE l]

StripText(lines, sx) ==
  CASE sx.kind = "none"  -> lines
    [] sx.kind = "json"  -> StripJson(lines)
    [] sx.kind = "prose" -> StripProse(lines)
    [] OTHER -> StripCode(lines, sx)

-----------------------------------------------------------------------------
(* What a compiler reads: the symbols of each row that are in no comment.  *)
(* label is set where a marker is in a comment; odd by what a stripper that *)
(* goes by the text cannot tell apart: an opener, a closer or a quote in a   *)
(* comment, an escaped one, a closer or an embedded opener in code, a        *)
(* comment on a row that had part of another, a string over a row's end.     *)

Closers(sx) == {p.c : p \in Pairs(sx)}
Signs(sx) == Quotes \cup {"esc"} \cup sx.line \cup sx.embLine \cup Openers(Pairs(sx)) \cup Closers(sx)

\* The comment a symbol opens: its closer, "eol" for a line's, "" for none.
Opens(s, first, sx) ==
  IF s \in sx.line \cup (IF first THEN sx.embLine ELSE {}) THEN "eol"
  ELSE IF s \in Openers(sx.block) \cup (IF first THEN Openers(sx.embBlock) ELSE {}) THEN CloserOf(sx, s)
  ELSE ""

\* in is the quote or the closer the reader waits for, "" in code.
ReadCode(st, s, opens, sx) ==
  IF opens # "" THEN [st EXCEPT !.in = opens, !.had = TRUE, !.odd = @ \/ st.had]
  ELSE [st EXCEPT !.code = IF s = " " THEN @ ELSE Append(@, s), !.in = IF s \in Quotes THEN s ELSE @,
                  !.skip = s = "esc", !.odd = @ \/ s \in Signs(sx) \ (Quotes \cup {"esc"})]

Read(st, s, first, sx) ==
  IF st.skip THEN [st EXCEPT !.skip = FALSE, !.code = Append(@, s), !.odd = @ \/ (st.in = "" /\ s \in Signs(sx))]
  ELSE IF st.in \in Quotes
  THEN [st EXCEPT !.code = Append(@, s), !.skip = s = "esc", !.in = IF s = st.in THEN "" ELSE @]
  ELSE IF st.in = "" THEN ReadCode(st, s, Opens(s, first, sx), sx)
  ELSE IF s = st.in THEN [st EXCEPT !.in = ""]
  ELSE [st EXCEPT !.label = @ \/ s = Marker, !.odd = @ \/ s \in Signs(sx)]

\* What is read after each of the symbols of a row that begins in a comment, or in none.
Scan(l, in, sx) ==
  LET after[i \in 0..Len(l)] ==
        IF i = 0 THEN [in |-> in, skip |-> FALSE, code |-> <<>>, had |-> in # "", label |-> FALSE, odd |-> FALSE]
        ELSE Read(after[i - 1], l[i], i = Lead(l), sx) IN
  after

\* Strings and a line's comment end with their row.
Carried(end) == IF end.in \in Quotes \cup {"eol"} THEN "" ELSE end.in

\* What each row leaves the next in.
CarriedOver(lines, sx) ==
  LET after[r \in 0..Len(lines)] ==
        IF r = 0 THEN "" ELSE Carried(Scan(lines[r], after[r - 1], sx)[Len(lines[r])]) IN
  after

Reading(lines, sx) ==
  LET in == CarriedOver(lines, sx)
      end(r) == Scan(lines[r], in[r - 1], sx)[Len(lines[r])] IN
  [in     |-> in[Len(lines)],
   rows   |-> [r \in DOMAIN lines |-> end(r).code],
   labels |-> {r \in DOMAIN lines : end(r).label},
   odd    |-> \E r \in DOMAIN lines : end(r).odd \/ end(r).in \in Quotes]
=============================================================================
