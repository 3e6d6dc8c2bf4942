---- MODULE MCSeedRunner ----
EXTENDS SeedRunner, TLC

CONSTANTS smithers, system, legacy    \* addresses: a seeded account, the system account, and its former one

MCSeedUsers == {[email |-> smithers, role |-> "SUPER_ADMIN"]}
MCSeedTypes == {[code |-> "T", name |-> "seed"]}
MCSeedReports == {[code |-> "T", text |-> "seeded", status |-> "closed", by |-> smithers, about |-> {smithers}]}

\* A description with paragraphs, as six of the committed list have.
MCLongReports == {[code |-> "T", text |-> "paragraphs", status |-> "closed", by |-> smithers, about |-> {smithers}]}

\* A line break ends the literal early, and Python with it.
MCTextRead == [text \in Texts |-> IF text = "paragraphs" THEN Nothing ELSE text]
MCCodeRead == [code \in Codes |-> code]

\* Rows are interchangeable.
Uids == Permutations(UserIds) \cup Permutations(TypeIds) \cup Permutations(ReportIds)
====
