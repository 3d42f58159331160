----------------------------- MODULE MCPemText -----------------------------
(* Instances of PemText for TLC. *)
EXTENDS PemText

\* Two keys of one type, one of another level, and one of the other algorithm whose last
\* line is not padded.
FourKeys ==
  {KeyOf("kem", "Level1", 0), KeyOf("kem", "Level1", 1),
   KeyOf("kem", "Level3", 2), KeyOf("dsa", "Level5", 3)}
\* A comment, the headers of two levels, and a line that names both.
FewLevelSets == {{}, {"Level1"}, {"Level3"}, {"Level1", "Level3"}}
OneKey == {KeyOf("kem", "Level1", 0)}
=============================================================================
