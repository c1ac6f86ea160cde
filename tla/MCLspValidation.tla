-------------------------- MODULE MCLspValidation --------------------------
(* Instances of LspValidation for TLC.                                     *)
EXTENDS LspRequests, TLC

CONSTANTS m, a,            \* a module and its importer
          m1, m2,          \* texts of the module
          a1, a2, ax       \* texts of the importer: a1 and a2 import the
                           \* module, ax makes the checker crash

\* one document that is edited on its own
SoloTexts == [d \in {a} |-> {a1, a2}]
SoloImports == [s \in {a1, a2} |-> {}]
SoloCrashTexts == [d \in {a} |-> {a1, a2, ax}]
SoloCrashImports == [s \in {a1, a2, ax} |-> {}]

\* an importer and its module
PairTexts == [d \in {m, a} |-> IF d = m THEN {m1, m2} ELSE {a1}]
PairImports == [s \in {m1, m2, a1} |-> IF s = a1 THEN {m} ELSE {}]

\* the importer may also drop its import, and the client its text
DropTexts == [d \in {m, a} |-> IF d = m THEN {m1, m2} ELSE {a1, a2, Empty}]
DropImports == [s \in {m1, m2, a1, a2, Empty} |-> IF s = a1 THEN {m} ELSE {}]
=============================================================================
