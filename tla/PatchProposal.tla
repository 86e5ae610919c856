---------------------------- MODULE PatchProposal ----------------------------
(***************************************************************************)
(* From a model's edits to the content of a pull request: the edits are    *)
(* applied to the source that was loaded, the result becomes a unified     *)
(* diff, which is checked, stored, and later parsed and applied again to   *)
(* the stored source by the validator and by the pull-request client.      *)
(* Meanwhile the file in the working tree may change.                      *)
(*                                                                         *)
(* A text is a sequence of symbols.  A symbol stands for a few characters: *)
(* "-- " and "++ " for the starts of lines that a diff turns into "--- "   *)
(* and "+++ ".  Breaks are the symbols at which splitlines ends a line:    *)
(* \n, \r, both together as one, and "\f" for the others (\v, \f, \x1c to  *)
(* \x1e, \x85, U+2028, U+2029), which no reader of a file translates.      *)
(***************************************************************************)
EXTENDS Naturals, Sequences, FiniteSets, SequencesExt

CONSTANTS Symbols,       \* of which texts are made
          Contents,      \* sources that may be found
          OldTexts, NewTexts,  \* what a model may ask to replace, and by what
          MaxEdits,      \* bound: edits of one answer
          Context,       \* equal lines around a change in a diff
          MaximumChangedLines

Breaks == {"\n", "\r", "\f"}

ASSUME LimitsAssumption ==
  {MaxEdits, Context, MaximumChangedLines} \subseteq Nat \ {0}
ASSUME TextsAssumption ==
  /\ Breaks \subseteq Symbols
  /\ Contents \cup OldTexts \cup NewTexts \subseteq Seq(Symbols)
  /\ <<>> \notin OldTexts

VARIABLES pinned,     \* whether the source is read at a revision
          disk,       \* the file in the working tree
          source,     \* the content that was loaded
          proposal,   \* the stored proposal
          verdict,    \* the checks of the validator
          pc

vars == <<pinned, disk, source, proposal, verdict, pc>>

-----------------------------------------------------------------------------
(* apply_exact_replacements *)

\* Where old occurs in a text, overlapping occurrences included.
Occurrences(text, old) ==
  {i \in 1..(Len(text) + 1 - Len(old)) :
     SubSeq(text, i, i + Len(old) - 1) = old}

Start(text, edit) == CHOOSE i \in Occurrences(text, edit.old) : TRUE
Stop(text, edit) == Start(text, edit) + Len(edit.old)    \* first symbol after

\* Every edit changes something at one place, and no two places overlap.
Applicable(text, edits) ==
  /\ edits # <<>>
  /\ \A e \in Range(edits) :
       e.old # e.new /\ Cardinality(Occurrences(text, e.old)) = 1
  /\ \A i, j \in DOMAIN edits :
       i # j /\ Start(text, edits[i]) <= Start(text, edits[j])
         => Stop(text, edits[i]) <= Start(text, edits[j])

Splice(text, from, to, new) ==
  SubSeq(text, 1, from - 1) \o new \o SubSeq(text, to, Len(text))

\* Whether an edit starts at a place, and which.
Starts(text, edits, p) == \E e \in Range(edits) : Start(text, e) = p
EditAt(text, edits, p) == CHOOSE e \in Range(edits) : Start(text, e) = p

\* Slip: the edits are applied from the first to the last.
ReplacedForwards(text, edits) ==
  LET result[p \in 0..Len(text)] ==
        IF p = 0 THEN text
        ELSE IF Starts(text, edits, p)
          THEN LET e == EditAt(text, edits, p)
               IN Splice(result[p - 1], p, Stop(text, e), e.new)
          ELSE result[p - 1]
  IN result[Len(text)]

\* The edits are applied from the last to the first, here in terms of the last
\* places of the text: a place further to the left is still where it was found.
Replaced(text, edits) ==
  LET result[k \in 0..Len(text)] ==
        LET p == Len(text) + 1 - k IN
          IF k = 0 THEN text
          ELSE IF Starts(text, edits, p)
            THEN LET e == EditAt(text, edits, p)
                 IN Splice(result[k - 1], p, Stop(text, e), e.new)
            ELSE result[k - 1]
  IN result[Len(text)]

-----------------------------------------------------------------------------
(* Lines, and the diff that build_unified_diff gets from difflib. *)

\* The second half of a \r\n, which ends one line.
Second(text, i) == i > 1 /\ text[i - 1] = "\r" /\ text[i] = "\n"

\* The lines that have ended and the line that has begun.
Split(text) ==
  LET split[i \in 0..Len(text)] ==
        IF i = 0 THEN [done |-> <<>>, line |-> <<>>]
        ELSE LET s == split[i - 1] IN
          IF Second(text, i) THEN s
          ELSE IF text[i] \in Breaks
            THEN [done |-> Append(s.done, s.line), line |-> <<>>]
          ELSE [done |-> s.done, line |-> Append(s.line, text[i])]
  IN split[Len(text)]

\* splitlines: the break that ends the text starts no line.
Lines(text) ==
  LET last == Split(text)
  IN IF last.line = <<>> THEN last.done ELSE Append(last.done, last.line)

\* endswith("\n"), whatever else could end a line.
EndsLine(text) == text # <<>> /\ Last(text) = "\n"

\* "\n".join(lines), and a newline if the original ends with one: whatever
\* ended a line before, also a line that no edit touches, is \n now.
Joined(lines, original) ==
  LET text[i \in 0..Len(lines)] ==
        IF i = 0 THEN <<>>
        ELSE IF i = 1 THEN lines[1]
        ELSE text[i - 1] \o <<"\n">> \o lines[i]
  IN text[Len(lines)] \o (IF EndsLine(original) THEN <<"\n">> ELSE <<>>)

\* The ways to align equal lines of a and b in order; difflib picks one.
Alignments(a, b) ==
  {m \in SUBSET {p \in (DOMAIN a) \X (DOMAIN b) : a[p[1]] = b[p[2]]} :
     \A p, q \in m : p # q => (p[1] < q[1] /\ p[2] < q[2])
                                \/ (p[1] > q[1] /\ p[2] > q[2])}

Op(mark, line) == [mark |-> mark, line |-> line]

\* The marks of the lines of the old and of the new text.
OldMarks == {" ", "-"}
NewMarks == {" ", "+"}

\* The script of an alignment, from the first lines on: what is not aligned is
\* removed and added, the removals of a gap first.
Script(a, b, m) ==
  LET old == {p[1] : p \in m}
      new == {p[2] : p \in m}
      walk[k \in 0..(Len(a) + Len(b))] ==
        IF k = 0 THEN [i |-> 0, j |-> 0, ops |-> <<>>]
        ELSE LET w == walk[k - 1] IN
          IF w.i < Len(a) /\ w.i + 1 \notin old
            THEN [i |-> w.i + 1, j |-> w.j,
                  ops |-> Append(w.ops, Op("-", a[w.i + 1]))]
          ELSE IF w.j < Len(b) /\ w.j + 1 \notin new
            THEN [i |-> w.i, j |-> w.j + 1,
                  ops |-> Append(w.ops, Op("+", b[w.j + 1]))]
          ELSE IF w.i < Len(a)
            THEN [i |-> w.i + 1, j |-> w.j + 1,
                  ops |-> Append(w.ops, Op(" ", a[w.i + 1]))]
          ELSE w
  IN walk[Len(a) + Len(b)].ops

\* How many of the first lines of a script or a hunk have one of the marks.
CountTo(ops, marks, n) == Cardinality({i \in 1..n : ops[i].mark \in marks})
Count(ops, marks) == CountTo(ops, marks, Len(ops))

\* A hunk keeps the changes and the equal lines around them.
Kept(script, k) ==
  \E j \in DOMAIN script : /\ script[j].mark # " "
                           /\ j <= k + Context /\ k <= j + Context

\* The runs of lines that are kept.
Runs(script) ==
  LET runs[k \in 0..Len(script)] ==
        IF k = 0 THEN <<>>
        ELSE LET r == runs[k - 1] IN
          IF ~Kept(script, k) THEN r
          ELSE IF k > 1 /\ Kept(script, k - 1)
            THEN [r EXCEPT ![Len(r)].last = k]
            ELSE Append(r, [first |-> k, last |-> k])
  IN runs[Len(script)]

\* The hunk of a run.  It starts at the first line, or at the line before when
\* the hunk has no old line.
Hunk(script, run) ==
  LET body == SubSeq(script, run.first, run.last)
      before == CountTo(script, OldMarks, run.first - 1)
      old == Count(body, OldMarks)
  IN [start |-> IF old = 0 THEN before ELSE before + 1,
      old |-> old, new |-> Count(body, NewMarks), body |-> body]

Hunks(script) ==
  LET runs == Runs(script) IN [x \in DOMAIN runs |-> Hunk(script, runs[x])]

\* The diffs of two texts; none if they have the same lines.
Diffs(old, new) ==
  {Hunks(Script(Lines(old), Lines(new), m)) :
     m \in Alignments(Lines(old), Lines(new))} \ {<<>>}

-----------------------------------------------------------------------------
(* apply_unified_diff *)

\* A line of the diff that starts like a file header: both checks count these.
LooksLikeHeader(op) ==
  /\ op.line # <<>>
  /\ \/ op.mark = "-" /\ Head(op.line) = "-- "
     \/ op.mark = "+" /\ Head(op.line) = "++ "

OneFile(hunks) ==
  \A h \in Range(hunks) : \A o \in Range(h.body) : ~LooksLikeHeader(o)

Fails(state) == [state EXCEPT !.ok = FALSE]

\* One line of a hunk's body.
ApplyOp(lines, state, op) ==
  IF ~state.ok THEN state
  ELSE IF op.mark \in OldMarks
            /\ (state.cursor >= Len(lines)
                  \/ lines[state.cursor + 1] # op.line)
    THEN Fails(state)
    ELSE [ok |-> TRUE,
          cursor |-> state.cursor + (IF op.mark = "+" THEN 0 ELSE 1),
          output |-> IF op.mark = "-" THEN state.output
                                      ELSE Append(state.output, op.line),
          changed |-> state.changed + (IF op.mark = " " THEN 0 ELSE 1)]

\* Slip: a hunk starts after the line its header names.
HunkStartAfter(hunk) == hunk.start

\* Lines before the hunk.
HunkStart(hunk) == IF hunk.start = 0 THEN 0 ELSE hunk.start - 1

\* The body of a hunk, line by line.
ApplyBody(lines, begun, body) ==
  LET state[i \in 0..Len(body)] ==
        IF i = 0 THEN begun ELSE ApplyOp(lines, state[i - 1], body[i])
  IN state[Len(body)]

\* One hunk: the lines before it, then its body, which must have the length
\* that its header says.
ApplyHunk(lines, state, hunk) ==
  LET start == HunkStart(hunk)
      begun == [state EXCEPT !.cursor = start,
                  !.output = @ \o SubSeq(lines, state.cursor + 1, start)]
      ended == ApplyBody(lines, begun, hunk.body)
  IN IF ~state.ok THEN state
     ELSE IF start < state.cursor \/ start > Len(lines) THEN Fails(state)
     ELSE IF \/ Count(hunk.body, OldMarks) # hunk.old
             \/ Count(hunk.body, NewMarks) # hunk.new THEN Fails(ended)
     ELSE ended

ApplyHunks(lines, hunks) ==
  LET state[x \in 0..Len(hunks)] ==
        IF x = 0 THEN [ok |-> TRUE, cursor |-> 0, output |-> <<>>, changed |-> 0]
        ELSE ApplyHunk(lines, state[x - 1], hunks[x])
  IN state[Len(hunks)]

\* Slip: the lines after the last hunk are left out.
AppliedWithoutRest(original, hunks) ==
  LET last == ApplyHunks(Lines(original), hunks)
  IN [ok |-> last.ok /\ OneFile(hunks) /\ hunks # <<>>,
      changed |-> last.changed, content |-> Joined(last.output, original)]

\* Whether the diff applies, how many lines it changes, and what results.
Applied(original, hunks) ==
  LET lines == Lines(original)
      last == ApplyHunks(lines, hunks)
  IN [ok |-> last.ok /\ OneFile(hunks) /\ hunks # <<>>,
      changed |-> last.changed,
      content |-> Joined(last.output
                           \o SubSeq(lines, last.cursor + 1, Len(lines)),
                         original)]

-----------------------------------------------------------------------------
(* The workers. *)

Nothing == [status |-> "none"]

Init ==
  /\ pinned \in BOOLEAN
  /\ disk \in Contents
  /\ source = <<>>
  /\ proposal = Nothing /\ verdict = Nothing
  /\ pc = "load"

\* Someone edits the working tree.
Edit ==
  /\ pc \in {"generate", "validate"}
  /\ \E text \in Contents : disk' = text
  /\ UNCHANGED <<pinned, source, proposal, verdict, pc>>

\* read_text turns \r and \r\n into \n, and leaves the other breaks.
Universal(text) ==
  LET read[i \in 0..Len(text)] ==
        IF i = 0 THEN <<>>
        ELSE IF Second(text, i) THEN read[i - 1]
        ELSE Append(read[i - 1], IF text[i] = "\r" THEN "\n" ELSE text[i])
  IN read[Len(text)]

\* RoutedSourceProvider.load, before the model is called: the snapshot of a
\* revision, with the breaks it has on GitHub, or the local file.
Load ==
  /\ pc = "load"
  /\ source' = IF pinned THEN disk ELSE Universal(disk)
  /\ pc' = "generate"
  /\ UNCHANGED <<pinned, disk, proposal, verdict>>

Edits ==
  UNION {[1..n -> [old : OldTexts, new : NewTexts]] : n \in 1..MaxEdits}

\* The contract is broken: edits that cannot be applied or change no line,
\* violations or rules that are not those of the job, or a diff that
\* validate_generated_patch refuses.  The job fails.
Refuse(edits, why) ==
  /\ proposal' = [status |-> "refused", edits |-> edits, why |-> why]
  /\ pc' = "done"

\* generate and validate_generated_patch; the proposal is stored with the
\* source it was made from.
Generate ==
  /\ pc = "generate"
  /\ \E edits \in Edits :
       IF ~Applicable(source, edits) THEN Refuse(edits, "edits")
       ELSE LET wanted == Replaced(source, edits) IN
         \/ Refuse(edits, "citations")
         \/ Diffs(source, wanted) = {} /\ Refuse(edits, "lines")
         \/ \E hunks \in Diffs(source, wanted) :
              IF ~OneFile(hunks) THEN Refuse(edits, "header")
              ELSE /\ proposal' = [status |-> "stored", edits |-> edits,
                                   wanted |-> wanted, hunks |-> hunks]
                   /\ pc' = "validate"
  /\ UNCHANGED <<pinned, disk, source, verdict>>

\* What the validator loads: the revision cannot change, the file may have.
Current == IF pinned THEN source ELSE Universal(disk)

\* DeterministicPatchValidator.validate; the parser of the file's language
\* may find anything, or be missing.
Validate ==
  /\ pc = "validate"
  /\ LET applied == Applied(source, proposal.hunks)
         small == applied.changed <= MaximumChangedLines
     IN \E parses \in BOOLEAN :
          verdict' =
            [status |-> IF Current = source /\ applied.ok /\ small /\ parses
                          THEN "valid" ELSE "invalid",
             current |-> Current = source, applied |-> applied.ok,
             small |-> small, parses |-> parses,
             result |-> applied.content]
  /\ pc' = "done"
  /\ UNCHANGED <<pinned, disk, source, proposal>>

Done == pc = "done" /\ UNCHANGED vars

Next == Edit \/ Load \/ Generate \/ Validate \/ Done

Spec == Init /\ [][Next]_vars

-----------------------------------------------------------------------------
(* Properties. *)

\* A place within an edit's old text, but not its first.
Inside(text, edits, p) ==
  \E e \in Range(edits) : Start(text, e) < p /\ p < Stop(text, e)

\* The text with the new texts in the places of the old ones, read from its end:
\* every symbol outside of these places is itself.
Intended(text, edits) ==
  LET rest[k \in 0..Len(text)] ==
        LET p == Len(text) + 1 - k IN
          IF k = 0 THEN <<>>
          ELSE (IF Starts(text, edits, p) THEN EditAt(text, edits, p).new
                ELSE IF Inside(text, edits, p) THEN <<>>
                ELSE <<text[p]>>) \o rest[k - 1]
  IN rest[Len(text)]

\* Edits leave the rest alone: what stands between the places of the edits
\* still stands there, in order, with the new texts in the places, although the
\* edits are applied to a text that earlier ones have changed.
EditsAreExact ==
  proposal.status = "stored" =>
    proposal.wanted = Intended(source, proposal.edits)

\* No line ends in another way than with \n.
UnixText(text) == Range(text) \cap Breaks \subseteq {"\n"}

\* The wanted text ends with a whole line if the source ends with \n.
KeepsEnd(wanted, original) ==
  wanted # <<>> /\ (Last(wanted) \in Breaks <=> EndsLine(original))

\* A patch that validates does what the model's edits do to the source the
\* validator saw: the same lines, and the same text if all of its lines end
\* with \n.  Any other break becomes \n, on the lines that no edit touches too.
\* Nothing is said of edits that empty the file or change whether it ends a
\* line: the end of the result is the end of the original.
ValidPatchIsIntended ==
  verdict.status = "valid" =>
    /\ Current = source
    /\ KeepsEnd(proposal.wanted, source)
         => /\ Lines(verdict.result) = Lines(proposal.wanted)
            /\ UnixText(proposal.wanted) => verdict.result = proposal.wanted

\* No patch is lost on the way from edits to result: applicable edits that
\* change a line are refused, if not for what they cite, only for a removed
\* or added line that looks like a file header, and what was stored applies to
\* the stored source.
EditsSurvive ==
  /\ proposal.status = "refused" /\ proposal.why = "header" =>
       \E line \in Range(Lines(source))
                     \cup Range(Lines(Replaced(source, proposal.edits))) :
         line # <<>> /\ Head(line) \in {"-- ", "++ "}
  /\ verdict # Nothing => verdict.applied
=============================================================================
