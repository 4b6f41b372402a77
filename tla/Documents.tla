------------------------------ MODULE Documents ------------------------------
(***************************************************************************)
(* Untrusted documents: which text of an upload is hidden or resembles     *)
(* instructions, what is left after sanitising and redaction, and the      *)
(* disposition that follows.  A document is its format, whether it is      *)
(* within the limits, whether it holds images, and its spans: one line of  *)
(* text each, with the layout a PDF gives it.  The kind of a line is what  *)
(* stands in it: the candidate's name as it was given with the upload, the *)
(* same name with other blanks or broken over the end of a line, nothing   *)
(* at all (in a text; blank spans of a PDF are left out).                  *)
(***************************************************************************)
EXTENDS Integers, SequenceFilters

TinyFontPoints == 2
PaleChannel == 245

\* normalize_pdf_opacity, in 255ths: alpha above 1 is on the 0..255 scale.
Opacity(alpha) == IF alpha > 1 THEN alpha ELSE alpha * 255

\* The ways a span of a PDF can be hidden from a human reader.
HiddenBy(s) ==
    {kind \in {"tiny_font", "low_visibility", "off_page"} :
        CASE kind = "tiny_font" -> s.size < TinyFontPoints
          [] kind = "low_visibility" -> s.tone >= PaleChannel \/ Opacity(s.alpha) * 100 <= 5 * 255
          [] OTHER -> ~s.inside}

\* Something that starts on line i and goes on on line j, with at most empty lines between.
OverLines(lines, i, j, first, second) ==
    /\ i < j /\ lines[i].kind = first /\ lines[j].kind = second
    /\ \A k \in DOMAIN lines : i < k /\ k < j => lines[k].kind = "empty"

\* _INJECTION_PATTERNS on one line, and the role header, whose blanks reach over the
\* ends of lines: a role on one line, its colon on the next that is not empty.
LineMatches(s) == s.injection
TextMatches(lines) ==
    (UNION {LineMatches(lines[i]) : i \in DOMAIN lines})
    \cup IF \E i, j \in DOMAIN lines : OverLines(lines, i, j, "role", "colon")
         THEN {"role_impersonation"} ELSE {}

\* prompt_injection_findings
InjectionFindings(matches) ==
    {[kind |-> m, severity |-> IF m = "instruction_override" THEN "critical" ELSE "high"] : m \in matches}

\* The lines no pattern matches by themselves.
Unmatched(lines) == {s \in ToSet(lines) : LineMatches(s) = {}}

\* Mutant: the text is searched line by line only.
SanitizedMutant(lines) ==
    [lines |-> Keep(lines, Unmatched(lines)),
     findings |-> InjectionFindings(UNION {LineMatches(lines[i]) : i \in DOMAIN lines})]

\* sanitize_untrusted_text: the findings of the whole text, and the safe lines.
Sanitized(lines) ==
    [lines |-> Keep(lines, Unmatched(lines)),
     findings |-> InjectionFindings(TextMatches(lines))]

\* PlainTextDocumentExtractor: any finding quarantines.
ExtractText(d) ==
    LET clean == Sanitized(d.spans)
    IN  [lines |-> clean.lines, findings |-> clean.findings,
         disposition |-> IF clean.findings = {} THEN "pass" ELSE "quarantine"]

\* PdfDocumentExtractor: spans are judged one by one, the visible rest as a text.
ExtractPdf(d) ==
    LET visible == Keep(d.spans, {s \in Unmatched(d.spans) : HiddenBy(s) = {}})
        clean == Sanitized(visible)
        findings ==
            (UNION {{[kind |-> h, severity |-> "high"] : h \in HiddenBy(d.spans[i])}
                       \cup InjectionFindings(LineMatches(d.spans[i])) : i \in DOMAIN d.spans})
            \cup clean.findings
            \cup IF ~d.images THEN {}
                 ELSE IF d.spans = <<>> THEN {[kind |-> "ocr_required", severity |-> "medium"]}
                 ELSE {[kind |-> "images_excluded", severity |-> "low"]}
    IN  [lines |-> clean.lines, findings |-> findings,
         disposition |-> IF \E f \in findings : f.severity \in {"high", "critical"} THEN "quarantine"
                         ELSE IF findings # {} THEN "review" ELSE "pass"]

\* extractor_for and the limits, which refuse the upload.
Extractable(d) == d.format \in {"pdf", "text"} /\ d.within_limits

Extract(d) == IF d.format = "pdf" THEN ExtractPdf(d) ELSE ExtractText(d)

\* candidate_identity_entities: the name given with the upload, and a first line that is
\* not empty and looks like one.
IdentityEntities(lines) ==
    {"name"} \cup IF \E i \in DOMAIN lines : /\ lines[i].kind = "header"
                                             /\ \A j \in DOMAIN lines : j < i => lines[j].kind = "empty"
                  THEN {"header"} ELSE {}

\* redact_pii replaces the exact strings of the entities: a name with other blanks or over
\* the end of a line stays.
Redacted(lines, entities) ==
    [i \in DOMAIN lines |->
        IF lines[i].kind \in entities \cup {"contact", "address", "demographic"}
        THEN [lines[i] EXCEPT !.kind = "redacted"] ELSE lines[i]]

\* What the pipeline keeps of a document.
SanitizedResume(d) ==
    LET lines == Extract(d).lines IN Redacted(lines, IdentityEntities(lines))

=============================================================================
