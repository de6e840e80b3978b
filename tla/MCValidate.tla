------------------------------- MODULE MCValidate -------------------------------
(***************************************************************************)
(* Values of PATH for model-checking Validate.  A program finds the        *)
(* session's wrapper first, then installed ones, first in the directory of *)
(* their slush-shim and then in two that link to it, and no native tool; a *)
(* probe finds the session's wrapper and a native tool.                    *)
(***************************************************************************)
EXTENDS Validate

MCPath == {<<"cache", "install", "bin", "opt">>}
MCShimDirs == {"cache", "install"}
MCWrapperDirs == MCShimDirs \union {"bin", "opt"}
MCShimOf == [d \in MCWrapperDirs |-> IF d = "cache" THEN "session's" ELSE "installed"]
MCEnv == SUBSET {"token", "port"}
MCProbePath == <<"cache", "native">>
\* The ports are alike, and no liveness is checked.
MCAlike == Permutations(Port)
\* Of the counters only the number of lines told and whether one is FAIL matters,
\* to the steps as well as to the properties.
MCView ==
  <<accountVars, check, status, direct, quiet, carried, passed + failed, passed > 0, failed > 0>>
=============================================================================
