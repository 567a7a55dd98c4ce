---------------------------- MODULE MCEnrollment ----------------------------
(***************************************************************************)
(* Instances of the enrollment lifecycle for TLC.  Two schools, A and B;   *)
(* a section is a model value named after its school, level and year.      *)
(***************************************************************************)
EXTENDS EnrollmentProperties, TLC

CONSTANTS A7y1, A7y2, A8y1, A8y2, B8y2, A1y3, B1y3

Primary(school, level, year) ==
  [school |-> school, year |-> year, division |-> "PRIMARY", level |-> level]
Secondary(school, level, year) ==
  [school |-> school, year |-> year, division |-> "SECONDARY", level |-> level]

AllClassOf ==
  (A7y1 :> Primary("A", 7, 1)) @@ (A7y2 :> Primary("A", 7, 2)) @@
  (A8y1 :> Primary("A", 8, 1)) @@ (A8y2 :> Primary("A", 8, 2)) @@
  (B8y2 :> Primary("B", 8, 2)) @@
  (A1y3 :> Secondary("A", 1, 3)) @@ (B1y3 :> Secondary("B", 1, 3))

MCClassOf == [sec \in Sections |-> AllClassOf[sec]]
MCClasses == {AllClassOf[sec] : sec \in Sections}

\* One seat in the classes the batches go to, two in Form 1, no limit elsewhere.
MCCapacity ==
  [sec \in Sections |-> CASE sec \in {A8y2, B8y2} -> 1 [] sec = B1y3 -> 2 [] OTHER -> Unlimited]

Symmetry == Permutations(Students) \cup Permutations(Workers)

=============================================================================
