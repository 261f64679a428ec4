-------------------------- MODULE MCAssetPipeline ---------------------------
(* Instances of AssetPipeline for TLC. *)
EXTENDS AssetPipeline

CONSTANTS c1, c2

\* Two packages, a module beside a build, and two builds.
DefaultMixes ==
  {[c \in Commands |-> "pkg"], [c \in Commands |-> "build"],
   [c \in Commands |-> IF c = c1 THEN "js" ELSE "build"]}

\* A package has two releases.
DefaultOffers == [js |-> {"m"}, pkg |-> {"p1", "p2"}, bin |-> {"t"}]
=============================================================================
