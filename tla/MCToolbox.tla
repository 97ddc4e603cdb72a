----------------------------- MODULE MCToolbox -----------------------------
(* Two coders on the same files, or two on the same server: a coder on files *)
(* and one on the server have nothing in common.                             *)
EXTENDS Toolbox

CONSTANTS leo, zoe

TwoTeams ==
  {[c \in {leo, zoe} |-> {"write_file", "git_commit"}],
   [c \in {leo, zoe} |-> {"server"}]}
=============================================================================
