----------------------------- MODULE PatchRanges -----------------------------
(***************************************************************************)
(* The lines of a changed file that a comment may be anchored to: the      *)
(* reader of unified diffs (github.py) and the anchor that is derived for  *)
(* a finding (diff_anchor.py).                                             *)
(*                                                                         *)
(* A line of a patch is its kind; the header of a hunk also says where the *)
(* hunk starts and how many lines it has on either side.  The reader is a  *)
(* record that one line after the other transforms; reason says why the    *)
(* file cannot be anchored, and None is a file that can.                   *)
(***************************************************************************)
EXTENDS Subsequences

CONSTANT None

\* Why a file cannot be anchored.
PatchReasons ==
    {"line_count_mismatch", "source_start", "target_start", "no_target_lines", "unsupported_header",
     "unsupported_line", "source_overflow", "target_overflow", "no_hunks", "no_changed_lines"}

ASSUME PatchRangesAssumption == None \notin PatchReasons

BodyKinds == {"added", "removed", "context", "no_newline", "other"}

HunkHeader(source_start, source_count, target_start, target_count) ==
    [kind |-> "hunk", source_start |-> source_start, source_count |-> source_count,
     target_start |-> target_start, target_count |-> target_count]

Span(start, end) == [start |-> start, end |-> end]
Lines(span) == span.start..span.end
LinesOf(spans) == UNION {Lines(spans[i]) : i \in DOMAIN spans}

NewReader ==
    [saw_hunk |-> FALSE, source_remaining |-> 0, target_line |-> 0, target_remaining |-> 0,
     hunk |-> Span(0, 0), has_addition |-> FALSE, changed |-> <<>>, reason |-> None]

Refused(reader, reason) == [reader EXCEPT !.reason = reason]

HunkIsComplete(reader) == reader.source_remaining = 0 /\ reader.target_remaining = 0

\* A hunk that adds no line leaves nothing to comment on.
WithLastHunk(reader) ==
    IF reader.has_addition THEN Append(reader.changed, reader.hunk) ELSE reader.changed

HeaderFailure(reader, header) ==
    IF reader.saw_hunk /\ ~HunkIsComplete(reader) THEN "line_count_mismatch"
    ELSE IF header.source_start <= 0 /\ header.source_count > 0 THEN "source_start"
    ELSE IF header.target_start <= 0 THEN "target_start"
    ELSE IF header.target_count <= 0 THEN "no_target_lines"
    ELSE None

ReadHeader(reader, header) ==
    IF HeaderFailure(reader, header) # None
    THEN Refused(reader, HeaderFailure(reader, header))
    ELSE [reader EXCEPT
              !.saw_hunk = TRUE,
              !.changed = WithLastHunk(reader),
              !.source_remaining = header.source_count,
              !.target_line = header.target_start,
              !.target_remaining = header.target_count,
              !.hunk = Span(header.target_start, header.target_start + header.target_count - 1),
              !.has_addition = FALSE]

\* The sides of a hunk that a line of its body belongs to.
InSource(kind) == kind \in {"removed", "context"}
InTarget(kind) == kind \in {"added", "context"}

ReadBody(reader, kind) ==
    IF kind = "other" THEN Refused(reader, "unsupported_line")
    ELSE IF InSource(kind) /\ reader.source_remaining <= 0 THEN Refused(reader, "source_overflow")
    ELSE IF InTarget(kind) /\ reader.target_remaining <= 0 THEN Refused(reader, "target_overflow")
    ELSE [reader EXCEPT
              !.source_remaining = IF InSource(kind) THEN @ - 1 ELSE @,
              !.target_line = IF InTarget(kind) THEN @ + 1 ELSE @,
              !.target_remaining = IF InTarget(kind) THEN @ - 1 ELSE @,
              !.has_addition = @ \/ kind = "added"]

\* What precedes the first header is skipped.
ReadPatchLine(reader, line) ==
    IF line.kind = "hunk" THEN ReadHeader(reader, line)
    ELSE IF line.kind = "bad_hunk" THEN Refused(reader, "unsupported_header")
    ELSE IF ~reader.saw_hunk THEN reader
    ELSE ReadBody(reader, line.kind)

\* Mutant: the last hunk may be cut off.
EndOfCutPatch(reader) ==
    IF ~reader.saw_hunk THEN Refused(reader, "no_hunks")
    ELSE IF WithLastHunk(reader) = <<>> THEN Refused(reader, "no_changed_lines")
    ELSE [reader EXCEPT !.changed = WithLastHunk(reader)]

EndOfPatch(reader) ==
    IF ~reader.saw_hunk THEN Refused(reader, "no_hunks")
    ELSE IF ~HunkIsComplete(reader) THEN Refused(reader, "line_count_mismatch")
    ELSE IF WithLastHunk(reader) = <<>> THEN Refused(reader, "no_changed_lines")
    ELSE [reader EXCEPT !.changed = WithLastHunk(reader)]

\* A span that starts no later than just behind the last one is merged into
\* it, also when it starts before it.
Joined(spans, span) ==
    LET last == Last(spans)
    IN  IF span.start <= last.end + 1
        THEN Append(Front(spans), Span(last.start, IF span.end > last.end THEN span.end ELSE last.end))
        ELSE Append(spans, span)

\* _coalesce_changed_ranges
Coalesce(spans) == FoldLeft(Joined, <<Head(spans)>>, Tail(spans))

-----------------------------------------------------------------------------
(***************************************************************************)
(* A changed file as the review sees it.  The reader of its patch is       *)
(* consulted only for a file that exists after the change and whose patch  *)
(* is there as a whole.                                                    *)
(***************************************************************************)
InlineableFileStatuses == {"added", "modified", "renamed"}

ChangedRanges(status, patch_status, reader) ==
    IF status \notin InlineableFileStatuses \/ patch_status # "available" THEN <<>>
    ELSE IF EndOfPatch(reader).reason # None THEN <<>>
    ELSE Coalesce(EndOfPatch(reader).changed)

ContainsLine(file, line) == line \in LinesOf(file.changed_ranges)

\* The file a finding is about is the first one of its path that has the line.
FilesFor(files, finding) ==
    ElementsAt(files, {i \in DOMAIN files :
        files[i].path = finding.path /\ ContainsLine(files[i], finding.line)})

LineEnd(finding) == IF finding.line_end = None THEN finding.line ELSE finding.line_end

\* Mutant: the first line alone has to be inside the hunk.
RangesForLine(file, finding) ==
    ElementsAt(file.changed_ranges, {i \in DOMAIN file.changed_ranges :
        finding.line \in Lines(file.changed_ranges[i])})

RangesFor(file, finding) ==
    ElementsAt(file.changed_ranges, {i \in DOMAIN file.changed_ranges :
        /\ file.changed_ranges[i].start <= finding.line
        /\ LineEnd(finding) <= file.changed_ranges[i].end})

NoAnchor == [hunk |-> None]

DiffAnchor(files, head_sha, finding) ==
    LET candidates == FilesFor(files, finding)
    IN  IF candidates = <<>> THEN NoAnchor
        ELSE LET file == Head(candidates)
             IN  IF \/ file.patch_status # "available"
                    \/ file.status \notin InlineableFileStatuses
                    \/ RangesFor(file, finding) = <<>>
                 THEN NoAnchor
                 ELSE [path |-> file.path, line |-> finding.line,
                       hunk |-> Head(RangesFor(file, finding)), target_commit_sha |-> head_sha]

AttachDiffAnchors(files, head_sha, findings) ==
    [i \in DOMAIN findings |->
        [findings[i] EXCEPT !.diff_anchor =
            IF @ # NoAnchor THEN @ ELSE DiffAnchor(files, head_sha, findings[i])]]

\* validates_finding_location of the data model
ValidatesLocation(anchor, finding, head_sha) ==
    /\ anchor.path = finding.path /\ anchor.line = finding.line
    /\ anchor.target_commit_sha = head_sha
    /\ anchor.hunk.start <= anchor.line
    /\ finding.line <= LineEnd(finding) /\ LineEnd(finding) <= anchor.hunk.end
=============================================================================
