-------------------------- MODULE MCLoaderFixture --------------------------
(* Instances of LoaderFixture and LoaderRefinement for TLC: the file       *)
(* universes are those of MCClassLoading.                                  *)
EXTENDS LoaderRefinement, MCClassLoading
=============================================================================
