----------------------------- MODULE Comparison -----------------------------
(* The comparison of two extracts of one project, the verdict on all           *)
(* comparisons, and the fidelity derived from the findings: compare_project,    *)
(* build_run_summary and derive_fidelity_from_counts.                           *)
(*                                                                              *)
(* An extract is a record [names, ambiguous, issues]: the custom fields whose   *)
(* name is unique on the instance, the names that are not, and a function from  *)
(* issue numbers to issues. An issue is a record                                *)
(*   fields    the compared fields, "created", "reporter", "summary" and others *)
(*   body      fingerprint of the description                                   *)
(*   comments  [total, items]: the declared number, fingerprints of those sent  *)
(*   files     attachments, by name and size                                    *)
(*   custom    field name -> [kind, fp], of the fields with a value             *)
EXTENDS Integers, Sequences, FiniteSets, SequencesExt, FiniteSetsExt, Functions

CONSTANTS
  NoValue,   \* None, and every other empty value of a field
  NoBody,    \* the fingerprint of an empty description
  SysFloor,  \* SYS_ABS_FLOOR
  SysShare,  \* SYS_FRAC, in percent
  SysEmpty   \* SYS_TARGET_EMPTY, in percent

Project == 0   \* stands for the key of a finding about the whole project
Blank == ""   \* no field, or nothing to note
Finding(kind, key, field, note) == [kind |-> kind, key |-> key, field |-> field, note |-> note]
OfKind(fs, kinds) == {f \in fs : f.kind \in kinds}
KeysIn(fs) == {f.key : f \in fs} \ {Project}

-----------------------------------------------------------------------------
(* Which issues are on both sides, on one, or on one under another key *)

Common(S, T) == DOMAIN S.issues \cap DOMAIN T.issues
Missing(S, T) == DOMAIN S.issues \ DOMAIN T.issues
LastOf(X) == Max(DOMAIN X.issues \cup {-1})

Fingerprint(i) == <<i.fields["created"], i.body>>
Degenerate(fp) == fp[1] = NoValue \/ fp[2] = NoBody

\* Content that exactly one unmatched target issue has, paired with the first unmatched source
\* issue that has it.
RekeyPairs(S, T) ==
  LET fp(X, n) == Fingerprint(X.issues[n])
      same(a) == {b \in Missing(T, S) : fp(T, b) = fp(S, a)}
      first(a) == ~Degenerate(fp(S, a)) /\ \A c \in Missing(S, T) : c < a => fp(S, c) # fp(S, a)
  IN  {p \in Missing(S, T) \X Missing(T, S) : first(p[1]) /\ same(p[1]) = {p[2]}}

\* A missing issue above everything the other side has came after the cutover, provided that
\* the sides overlap at all.
AfterCutover(X, Y, n) == Common(X, Y) # {} /\ n > LastOf(Y)

PresenceFindings(S, T) ==
  LET pairs == RekeyPairs(S, T)
      lost  == Missing(S, T) \ {p[1] : p \in pairs}
      extra == Missing(T, S) \ {p[2] : p \in pairs}
  IN  {Finding("rekey_suspected", Project, Blank, Blank) : p \in pairs}
        \cup {IF AfterCutover(S, T, n) THEN Finding("tail_post_cutover", n, Blank, "source")
              ELSE Finding("missing_in_tgt", n, Blank, Blank) : n \in lost}
        \cup {IF AfterCutover(T, S, n) THEN Finding("tail_post_cutover", n, Blank, "target")
              ELSE Finding("missing_in_src", n, Blank, Blank) : n \in extra}

-----------------------------------------------------------------------------
(* One issue that both sides have *)

Differs(s, t, f) == s.fields[f] # t.fields[f]
Collides(s, t) == Differs(s, t, "created") /\ (Differs(s, t, "reporter") \/ Differs(s, t, "summary"))

BagOf(q) == [x \in ToSet(q) |-> Cardinality({i \in DOMAIN q : q[i] = x})]
Complete(c) == Len(c.items) = c.total
CommentFindings(n, s, t) ==
  CASE s.total # t.total -> {Finding("comment_mismatch", n, "comment", "total")}
    [] s.total = t.total /\ Complete(s) /\ Complete(t) ->
         {Finding("comment_mismatch", n, "comment", "content") : x \in {BagOf(s.items), BagOf(t.items)} \ {BagOf(s.items)}}
    [] OTHER -> {Finding("comment_uncheckable", n, "comment", Blank)}

\* Names with a value on the source whose value the target has not, or has otherwise.
CustomLost(s, t) ==
  {x \in DOMAIN s.custom : x \in DOMAIN t.custom =>
     s.custom[x].kind = t.custom[x].kind /\ s.custom[x].fp # t.custom[x].fp}

IssueFindings(n, s, t) ==
  IF Collides(s, t) THEN {Finding("key_collision", n, Blank, Blank)}
  ELSE {Finding(IF f = "issuelinks" THEN "link_mismatch" ELSE "field_mismatch", n, f,
                IF t.fields[f] = NoValue THEN "empty" ELSE "value")
          : f \in {f \in DOMAIN s.fields : Differs(s, t, f)}}
         \cup {Finding("content_mismatch", n, "description", Blank) : b \in {s.body, t.body} \ {s.body}}
         \cup CommentFindings(n, s.comments, t.comments)
         \cup {Finding("attachment_mismatch", n, "attachment", Blank) : a \in {s.files, t.files} \ {s.files}}
         \cup {Finding("cf_value_mismatch", n, x, Blank) : x \in CustomLost(s, t)}

-----------------------------------------------------------------------------
(* The project *)

Divergent(S, T) ==
  {x \in S.names \cap T.names : \E n \in Common(S, T) :
     LET s == S.issues[n]
         t == T.issues[n]
     IN  /\ ~Collides(s, t)
         /\ x \in DOMAIN s.custom \cap DOMAIN t.custom
         /\ s.custom[x].kind # t.custom[x].kind}

Compare(S, T) ==
  LET common == UNION {IssueFindings(n, S.issues[n], T.issues[n]) : n \in Common(S, T)}
  IN  PresenceFindings(S, T) \cup common
        \cup {Finding("cf_field_not_in_target", Project, f.field, Blank)
                : f \in {f \in OfKind(common, {"cf_value_mismatch"}) : f.field \notin T.names}}
        \cup {Finding("cf_value_not_compared", Project, x, Blank)
                : x \in S.ambiguous \cup T.ambiguous \cup Divergent(S, T)}

Dents == {"key_collision", "field_mismatch", "link_mismatch", "content_mismatch",
          "comment_mismatch", "attachment_mismatch", "cf_value_mismatch"}
Count(fs, kind) == Cardinality(OfKind(fs, {kind}))

\* What is stored of a project: its findings and the stats that later stages read.
Result(S, T) ==
  LET fs == Compare(S, T)
  IN  [findings |-> fs, src |-> Cardinality(DOMAIN S.issues), common |-> Cardinality(Common(S, T)),
       mismatched |-> Cardinality(KeysIn(OfKind(fs, Dents)))]

\* The verdict ladder. blind: a blind spot was found; config: the configuration has a finding.
Verdict(results, blind, config) ==
  LET fs == UNION {results[p].findings : p \in DOMAIN results}
      some(kinds) == OfKind(fs, kinds) # {}
      bad == some({"missing_in_tgt", "key_collision"}) \/ blind
      gaps == some(Dents \cup {"rekey_suspected"}) \/ config
  IN  CASE bad -> "CRITICAL"
        [] ~bad /\ gaps -> "GAPS_FOUND"
        [] ~bad /\ ~gaps /\ some({"tail_post_cutover"}) -> "CLEAN_WITH_TAILS"
        [] OTHER -> "CLEAN"

-----------------------------------------------------------------------------
(* Fidelity, derived from the stored findings *)

FieldLike == {"field_mismatch", "link_mismatch"}
NotMismatch == {"missing_in_tgt", "tail_post_cutover", "missing_in_src", "comment_uncheckable"}

\* The fields that the target lost on a large part of a project's issues.
Systematic(r) ==
  LET affected(x) == {f \in OfKind(r.findings, FieldLike) : f.field = x}
      empty(x) == {f \in affected(x) : f.note = "empty"}
  IN  {x \in {f.field : f \in OfKind(r.findings, FieldLike)} :
         /\ Cardinality(affected(x)) >= SysFloor
         /\ 100 * Cardinality(affected(x)) >= SysShare * r.common
         /\ 100 * Cardinality(empty(x)) >= SysEmpty * Cardinality(affected(x))}

\* Issues with a mismatch that is not one of a systematic gap.
CoreMismatched(r) ==
  KeysIn({f \in r.findings : f.kind \notin NotMismatch /\ ~(f.kind \in FieldLike /\ f.field \in Systematic(r))})

\* Mutant: issues born on the target after the cutover are subtracted too.
LostOfAllTails(r) == Count(r.findings, "missing_in_tgt") + Count(r.findings, "tail_post_cutover")
\* Issues of the audited population that no comparison reached.
LostOf(r) ==
  Count(r.findings, "missing_in_tgt")
    + Cardinality({f \in OfKind(r.findings, {"tail_post_cutover"}) : f.note = "source"})

Total(results, n(_)) == SumFunction([p \in DOMAIN results |-> n(results[p])])
AuditedOf(r) == r.src
RawOf(r) == r.src - LostOf(r) - r.mismatched
CoreOf(r) == r.src - LostOf(r) - Cardinality(CoreMismatched(r))
Audited(results) == Total(results, AuditedOf)
FidelityRaw(results) == Total(results, RawOf)
FidelityCore(results) == Total(results, CoreOf)
=============================================================================
