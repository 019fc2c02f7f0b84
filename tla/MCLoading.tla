------------------------------ MODULE MCLoading ------------------------------
(***************************************************************************)
(* Reading files and loading one, for model checking: the two ways of      *)
(* MCFiles and LoadImage, one in each behaviour (PickleApp composes them). *)
(***************************************************************************)
EXTENDS MCFiles, Elf

\* An Elf object that is not used.
ElfOff == LoadInit /\ img = CHOOSE im \in Images : TRUE

LoadingInit ==
  \/ AllInit /\ ElfOff
  \/ turn = "elf" /\ LoadInit /\ FOff /\ ROff

LoadingNext ==
  \/ AllNext /\ UNCHANGED loadVars
  \/ turn = "elf" /\ LoadNext /\ UNCHANGED all

LoadingSpec == LoadingInit /\ [][LoadingNext]_<<all, loadVars>>

=============================================================================
