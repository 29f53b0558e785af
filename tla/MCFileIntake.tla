---------------------------- MODULE MCFileIntake ----------------------------
(* Two selections of up to two units: files, small and large folders, an empty folder or a missing
   path beside what is added by itself, beside what waits for an answer, and alone. *)
EXTENDS FileIntake

CONSTANTS s1, s2

MCSelections == {s1, s2}

Holds(files, small, big, empty, missing) ==
  [files |-> files, small |-> small, big |-> big, empty |-> empty, missing |-> missing]
MCAnswers == {Holds(TRUE,  0, 0, FALSE, FALSE), Holds(FALSE, 0, 0, FALSE, TRUE),
              Holds(TRUE,  1, 0, FALSE, TRUE),  Holds(FALSE, 1, 1, FALSE, TRUE),
              Holds(FALSE, 0, 1, TRUE,  FALSE), Holds(FALSE, 0, 2, FALSE, FALSE),
              Holds(FALSE, 2, 0, FALSE, FALSE), Holds(TRUE,  0, 1, FALSE, TRUE)}
=============================================================================
