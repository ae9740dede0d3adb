---------------------------- MODULE ListingFields ----------------------------
(***************************************************************************)
(* What a listing says and what becomes of it: the extraction of the       *)
(* collectors (app/jobs/sources), of app/jobs/parsing and normalize_job,   *)
(* and the merge of the result into the rows of global_jobs and jobs.      *)
(*                                                                         *)
(* A payload is what a page of the source holds:                           *)
(*   core    the core fields that are present                              *)
(*   years   the matches of the experience patterns, in pattern order      *)
(*   base    structured salary: minValue, maxValue, value                  *)
(*   ranges, singles   matches of the two salary patterns in the text      *)
(* Texts are reduced to the matches that the regular expressions find in   *)
(* them; the title of a listing holds none.                                *)
(***************************************************************************)
EXTENDS Integers, SequencesExt

Kinds == {"dice", "linkedin", "glassdoor", "hiringcafe"}

CoreFields == {"company", "location", "url", "description", "employment", "posted"}

\* None of Python, for the parts of a range.
Absent == -1
Range2(lo, hi) == [lo |-> lo, hi |-> hi]
NoRange == Range2(Absent, Absent)
Range2s == [lo : Int, hi : Int]

RangeMatches == [lo : Int, hi : Int, loK : BOOLEAN, hiK : BOOLEAN,
                 curr : BOOLEAN, period : BOOLEAN, ofYears : BOOLEAN]
SingleMatches == [amount : Int, k : BOOLEAN, curr : BOOLEAN, period : BOOLEAN]
PagePayloads ==
  [core : SUBSET CoreFields, years : Seq(Range2s), base : [min : Int, max : Int, exact : Int],
   ranges : Seq(RangeMatches), singles : Seq(SingleMatches)]

\* min_years, max_years = max_years, min_years
Sorted(r) == IF r.hi # Absent /\ r.lo > r.hi THEN Range2(r.hi, r.lo) ELSE r

\* The value of the first match that passes the test, or no range.
FirstMatch(s, Test(_), Value(_)) ==
  LET i == SelectInSeq(s, Test) IN IF i = 0 THEN NoRange ELSE Value(s[i])

-----------------------------------------------------------------------------
(* app/jobs/parsing                                                        *)

Sane(m) == m.lo <= 30 /\ m.hi <= 30

extract_experience(years) == FirstMatch(years, Sane, Sorted)

\* "120 - 160k": the k also belongs to the first number.
Scaled(n, k) == IF k THEN n * 1000 ELSE n
Lower(m) == Scaled(m.lo, m.loK \/ (m.hiK /\ m.lo < 1000))

\* A range needs a currency, a k or a period, must not be "3-5 years", and
\* without a currency is no small number.
IsSalaryRange(m) ==
  /\ m.curr \/ m.loK \/ m.hiK \/ m.period
  /\ m.curr \/ m.period \/ ~m.ofYears
  /\ m.curr \/ Lower(m) >= 5

IsSalary(m) == (m.curr \/ (m.k /\ m.period)) /\ (m.period \/ Scaled(m.amount, m.k) >= 10)

parse_salary(p) ==
  LET range == FirstMatch(p.ranges, IsSalaryRange,
                          LAMBDA m : Sorted(Range2(Lower(m), Scaled(m.hi, m.hiK))))
  IN IF range # NoRange THEN range
     ELSE FirstMatch(p.singles, IsSalary,
            LAMBDA m : Range2(Scaled(m.amount, m.k), Scaled(m.amount, m.k)))

-----------------------------------------------------------------------------
(* The collectors: RawSourceJob                                            *)

\* Dice's JobPosting may name each of them; the URL is made up from the id.
DiceCore(p) == p.core \cup {"url"}

\* LinkedIn's detail pages carry no date.
LinkedInCore(p) == (p.core \ {"posted"}) \cup {"url"}

\* Glassdoor skips cards without a company and makes up a description.
GlassdoorCore(p) == p.core \cup {"url", "company", "description"}

HiringCafeCore(p) == p.core \cup {"url"}

CoreOf(kind, p) ==
  CASE kind = "dice" -> DiceCore(p) [] kind = "linkedin" -> LinkedInCore(p)
    [] kind = "glassdoor" -> GlassdoorCore(p) [] OTHER -> HiringCafeCore(p)

Or(a, b) == IF a # Absent THEN a ELSE b

\* Dice: structured numbers as they stand, else the text.
DiceSalary(p) ==
  LET base == Range2(Or(p.base.min, p.base.exact), Or(p.base.max, p.base.exact))
  IN IF base # NoRange THEN base ELSE parse_salary(p)

\* Glassdoor: both numbers, else the text, else the one number.
GlassdoorSalary(p) ==
  LET base == Range2(p.base.min, p.base.max)
      text == parse_salary(p)
  IN IF (base.lo # Absent /\ base.hi # Absent) \/ text = NoRange THEN base ELSE text

SalaryOf(kind, p) ==
  CASE kind = "dice"      -> DiceSalary(p)
    [] kind = "glassdoor" -> GlassdoorSalary(p)
    [] OTHER              -> parse_salary(p)

\* normalize_job scans the text once more for what the collector did not find.
normalize_job(kind, p) ==
  [core |-> CoreOf(kind, p),
   exp  |-> extract_experience(p.years),
   pay  |-> IF SalaryOf(kind, p) = NoRange THEN parse_salary(p) ELSE SalaryOf(kind, p),
   doc  |-> p.years]

-----------------------------------------------------------------------------
(* The rows.  A row keeps what it knows where the new listing is silent,   *)
(* each end of a range on its own.                                         *)

MergeRange(old, new) == Range2(Or(new.lo, old.lo), Or(new.hi, old.hi))

\* The CHECK constraints experience_ordered and salary_ordered.
Ordered(r) == r.lo = Absent \/ r.hi = Absent \/ r.lo <= r.hi

LegacyRows ==
  [stored : BOOLEAN, core : SUBSET CoreFields, exp : Range2s, doc : Seq(Range2s), recent : BOOLEAN]
JobRows ==
  [stored : BOOLEAN, core : SUBSET CoreFields, exp : Range2s, pay : Range2s, detail : BOOLEAN]

NoLegacy == [stored |-> FALSE, core |-> {}, exp |-> NoRange, doc |-> <<>>, recent |-> FALSE]
NoJob == [stored |-> FALSE, core |-> {}, exp |-> NoRange, pay |-> NoRange, detail |-> FALSE]

\* Mutant: the new values replace the old ones.
MergeLegacyBlindly(row, d) ==
  [stored |-> TRUE, core |-> d.core, exp |-> d.exp, doc |-> d.doc, recent |-> TRUE]

MergeLegacy(row, d) ==
  [stored |-> TRUE, core |-> row.core \cup d.core, exp |-> MergeRange(row.exp, d.exp),
   doc |-> IF "description" \in d.core THEN d.doc ELSE row.doc,
   recent |-> TRUE]

\* Mutant: only a new listing brings its details, an observation of an old one
\* brings the payload alone.
MergeJobOnce(row, d, detail) ==
  IF row.stored THEN [row EXCEPT !.detail = @ \/ detail]
  ELSE [stored |-> TRUE, core |-> d.core, exp |-> d.exp, pay |-> d.pay,
        detail |-> detail]

MergeJob(row, d, detail) ==
  [stored |-> TRUE, core |-> row.core \cup d.core, exp |-> MergeRange(row.exp, d.exp),
   pay |-> MergeRange(row.pay, d.pay), detail |-> row.detail \/ detail]

LegacyOk(row) == Ordered(row.exp)
JobOk(row) == Ordered(row.exp) /\ Ordered(row.pay)

-----------------------------------------------------------------------------
\* _has_complete_core_details
Complete(row) == CoreFields \subseteq row.core

\* _INCOMPLETE_SQL; the URL belongs to the observation.
RepairFields == CoreFields \ {"url"}
Incomplete(job) == job.stored /\ ~(RepairFields \subseteq job.core)

\* _LOCAL_IMPROVEMENT_SQL
Improvable(legacy, job) == job.stored /\ (legacy.core \cap RepairFields) \ job.core # {}
=============================================================================
