------------------------------- MODULE Balance -------------------------------
(***************************************************************************)
(* How one balance is put together of upstream's answers (quota.go), and   *)
(* what of it a credential's label shows (main.go).  No state.             *)
(***************************************************************************)
EXTENDS Integers, Sequences, FiniteSets, SequencesExt

CONSTANTS
    Codes,      \* package codes
    FreeCodes,  \* freePackageCodes
    NoCode      \* a blank code

(***************************************************************************)
(* What upstream answers: the summary (api1) is refused, fails, or has one *)
(* row per package; the free packages (api3), which only add to these, may *)
(* fail and count as none then.  A slice is a set of at most one figure.   *)
(* The plan has a route of its own; "" is none.                            *)
(***************************************************************************)
SummaryRow == [code : Codes \cup {NoCode}, left : Nat, total : Nat]
FreeRow == [code : Codes \cup {NoCode}, ends : BOOLEAN, refills : BOOLEAN,
            slice : {f \in SUBSET Nat : Cardinality(f) <= 1}]
Reply == [summary : {"ok", "expired", "fails"}, rows : Seq(SummaryRow),
          free : Seq(FreeRow), plan : {"", "free", "paid"}, paid : BOOLEAN]

\* quotaPackage and quotaAccount
Package == [code : Codes \cup {NoCode}, left : Nat, total : Nat, free : BOOLEAN,
            ends : BOOLEAN, refills : BOOLEAN, slice : SUBSET Nat]
Account == [error : {"", "expired", "fails"}, plan : {"", "free", "paid"},
            left : Nat, packages : Seq(Package)]

NoFacts == [ends |-> FALSE, refills |-> FALSE, slice |-> {}]

AddFacts(facts, row) ==
    IF row.code = NoCode THEN facts
    ELSE [facts EXCEPT ![row.code] =
             [ends    |-> @.ends \/ row.ends,
              refills |-> @.refills \/ row.refills,
              slice   |-> IF row.slice # {} THEN row.slice ELSE @.slice]]

\* Several rows of a code add up: nothing that is missing takes anything back.
freePackageFacts(rows) == FoldLeft(AddFacts, [c \in Codes \cup {NoCode} |-> NoFacts], rows)

PackageOf(row, facts) ==
    LET known == facts[row.code]
    IN  [code |-> row.code, left |-> row.left, total |-> row.total,
         free |-> row.code \in FreeCodes,
         ends |-> known.ends, refills |-> known.refills, slice |-> known.slice]

\* The order of the page.  A package with a slice leads, then the free ones.
Leads(p, q) ==
    IF (p.slice # {}) # (q.slice # {}) THEN p.slice # {}
    ELSE IF p.free # q.free THEN p.free
    ELSE p.left > q.left

\* The last package that p does not lead, and p behind it.
LastAhead(list, p) == SelectLastInSeq(list, LAMBDA q : ~Leads(p, q))

PutInOrder(list, p) ==
    SubSeq(list, 1, LastAhead(list, p)) \o <<p>>
        \o SubSeq(list, LastAhead(list, p) + 1, Len(list))

\* What sort.Slice makes of the packages, but for names, which break ties.
InOrder(list) == FoldLeft(PutInOrder, <<>>, list)

AddLeft(sum, p) == sum + p.left
Total(list) == FoldLeft(AddLeft, 0, list)

Failed(error) == [error |-> error, plan |-> "", left |-> 0, packages |-> <<>>]

\* A regression: what the free packages' answer does not name is not counted.
FetchOnlyEnriched(reply) ==
    LET facts == freePackageFacts(reply.free)
        rows == SelectSeq(reply.rows, LAMBDA r : facts[r.code] # NoFacts)
    IN  IF reply.summary # "ok" THEN Failed(reply.summary)
        ELSE [error    |-> "",
              plan     |-> IF reply.plan # "" THEN reply.plan
                           ELSE IF reply.paid THEN "paid" ELSE "free",
              left     |-> Total(rows),
              packages |-> InOrder([i \in DOMAIN rows |-> PackageOf(rows[i], facts)])]

fetchQuotaFrom(reply) ==
    LET facts == freePackageFacts(reply.free)
        rows == reply.rows
    IN  IF reply.summary # "ok" THEN Failed(reply.summary)
        ELSE [error    |-> "",
              plan     |-> IF reply.plan # "" THEN reply.plan
                           ELSE IF reply.paid THEN "paid" ELSE "free",
              left     |-> Total(rows),
              packages |-> InOrder([i \in DOMAIN rows |-> PackageOf(rows[i], facts)])]

\* The first package with a slice, else the first that refills; 0 is none.
refillingPackage(account) ==
    LET sliced == SelectInSeq(account.packages, LAMBDA p : p.slice # {})
    IN  IF sliced # 0 THEN sliced
        ELSE SelectInSeq(account.packages, LAMBDA p : p.refills)
=============================================================================
