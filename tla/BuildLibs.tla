------------------------------ MODULE BuildLibs ------------------------------
(***************************************************************************)
(* tastebot-build (plugin.py): it checks out, patches, compiles and        *)
(* installs the libraries of the client, one after the other.  run_build   *)
(* looks at no result: after a step that fails it goes on with the next    *)
(* library.  A git command that fails or is stopped may leave a tree half  *)
(* changed; any other step then leaves what counts here as it is.          *)
(***************************************************************************)
EXTENDS Integers, Sequences

CONSTANT MaxRuns  \* bound: commands run

ASSUME RunsAssumption == MaxRuns \in Nat

Lib == {"proto", "consensus", "waku", "statusgo", "falkorDB", "redis"}

\* Libraries that need a patch of this repository.
PatchedLib == {"consensus", "waku", "statusgo"}

\* The order of run_build.
Order == <<"proto", "consensus", "waku", "statusgo", "falkorDB", "redis">>

\* What is done for each; "other" leaves nothing behind that matters here.
Plan ==
  [proto     |-> <<"generate">>,
   consensus |-> <<"checkout", "patch", "tool", "compile", "other", "install", "other">>,
   waku      |-> <<"patch", "compile", "install">>,
   statusgo  |-> <<"checkout", "patch", "other", "compile", "compile", "install",
                   "install">>,
   falkorDB  |-> <<"checkout", "download", "other">>,
   redis     |-> <<"checkout", "compile", "install", "module">>]

\* A tree in which git stopped half way is "partial".
Source == {"plain", "patched", "partial"}
Product == Source \cup {"none"}

VARIABLES
  command, \* the command that is running
  lib,     \* building: index of the library in Order,
  step,    \* and of the step in its plan
  src,     \* per library, its working tree
  made,    \* what this build compiled last, and from what,
  refused, \* history: whether the last patch it came to, not yet in its tree, was left out
  libs,    \* per library, what is installed
  tool,    \* the tendermint program
  modules, \* loadmodule lines of ai/redis/redis.conf
  runs     \* commands run

products == <<made, libs, tool>>
buildVars == <<lib, step, refused, src, products, modules>>

Init ==
  /\ command = "none"
  /\ lib = 1 /\ step = 1 /\ made = "none" /\ refused = FALSE
  /\ src = [l \in Lib |-> "plain"]
  /\ libs = [l \in Lib |-> "none"]
  /\ tool = "none"
  /\ modules = 0
  /\ runs = 0

Current == Order[lib]
StepOfPlan == Plan[Current][step]

StartBuild ==
  /\ command = "none"
  /\ runs < MaxRuns
  /\ runs' = runs + 1
  /\ command' = "build"
  /\ lib' = 1 /\ step' = 1 /\ made' = "none" /\ refused' = FALSE
  /\ UNCHANGED <<src, libs, tool, modules>>

-----------------------------------------------------------------------------
(* Steps.                                                                  *)

\* Variant: without -f the changes in the tree stay.
CheckoutKeeping == UNCHANGED <<src, refused, products, modules>>

\* git checkout -f undoes every change in the tree.
Checkout ==
  /\ src' = [src EXCEPT ![Current] = "plain"]
  /\ modules' = IF Current = "redis" THEN 0 ELSE modules
  /\ UNCHANGED <<refused, products>>

\* git apply --check passes, for which the tree must be plain, and the patch is
\* applied.
Patches ==
  /\ src[Current] = "plain"
  /\ src' = [src EXCEPT ![Current] = "patched"]
  /\ refused' = FALSE
  /\ UNCHANGED <<products, modules>>

\* It is refused, for whatever reason: without a word the tree is compiled as it
\* is.  That is well when the patch is in it already.
PatchRefused ==
  /\ refused' = (src[Current] # "patched")
  /\ UNCHANGED <<src, products, modules>>

\* Variant: the result of git apply itself is not looked at.
ApplyPatchUnchecked ==
  \/ Patches
  \/ PatchRefused
  \/ /\ src[Current] = "plain"
     /\ \E tree \in {"plain", "partial"} : src' = [src EXCEPT ![Current] = tree]
     /\ refused' = FALSE
     /\ UNCHANGED <<products, modules>>

ApplyPatch == Patches \/ PatchRefused

Compile ==
  /\ made' = src[Current]
  /\ UNCHANGED <<src, refused, libs, tool, modules>>

\* The program of tendermint, with which a validator is configured.
MakeTool ==
  /\ tool' = src[Current]
  /\ UNCHANGED <<src, refused, made, libs, modules>>

InstallLib ==
  /\ libs' = [libs EXCEPT ![Current] = made]
  /\ UNCHANGED <<src, refused, made, tool, modules>>

Download ==
  /\ libs' = [libs EXCEPT ![Current] = "plain"]
  /\ UNCHANGED <<src, refused, made, tool, modules>>

\* The last step of redis adds its line to the end of redis.conf.
LoadModule ==
  /\ modules' = modules + 1
  /\ UNCHANGED <<src, refused, products>>

\* protoc writes the stubs of the neighbour service anew; nothing that follows
\* depends on them.
GenerateStubs == UNCHANGED <<src, refused, products, modules>>

Do(kind) ==
  \/ kind = "generate" /\ GenerateStubs
  \/ kind = "checkout" /\ Checkout
  \/ kind = "patch"    /\ ApplyPatch
  \/ kind = "compile"  /\ Compile
  \/ kind = "tool"     /\ MakeTool
  \/ kind = "install"  /\ InstallLib
  \/ kind = "download" /\ Download
  \/ kind = "module"   /\ LoadModule
  \/ kind = "other"    /\ UNCHANGED <<src, refused, products, modules>>

NextLib ==
  IF lib < Len(Order)
  THEN lib' = lib + 1 /\ step' = 1 /\ UNCHANGED command
  ELSE command' = "none" /\ lib' = 1 /\ step' = 1

BuildStep ==
  /\ command = "build"
  /\ Do(StepOfPlan)
  /\ IF step < Len(Plan[Current])
     THEN step' = step + 1 /\ UNCHANGED <<command, lib>>
     ELSE NextLib
  /\ UNCHANGED runs

\* The trees a step that does not come to its end may leave: git may have done
\* nothing, part of its work, or all of it.
TreesLeft ==
  LET tree == src[Current]
      done == IF StepOfPlan = "checkout" THEN "plain"
              ELSE IF StepOfPlan = "patch" /\ tree = "plain" THEN "patched"
              ELSE tree
  IN  IF done = tree THEN {tree} ELSE {tree, "partial", done}

LeftUndone ==
  /\ command = "build"
  /\ \E tree \in TreesLeft : src' = [src EXCEPT ![Current] = tree]
  /\ UNCHANGED <<refused, products, modules, runs>>

\* The error is written out, and the next library is built.
BuildFails == LeftUndone /\ NextLib

\* The user stops the command.
Interrupt ==
  /\ LeftUndone
  /\ command' = "none"
  /\ lib' = 1 /\ step' = 1

Build == StartBuild \/ BuildStep \/ BuildFails \/ Interrupt
-----------------------------------------------------------------------------
BuildTypeOK ==
  /\ lib \in 1..Len(Order)
  /\ step \in 1..Len(Plan[Current])
  /\ src \in [Lib -> Source]
  /\ made \in Product
  /\ libs \in [Lib -> Product]
  /\ tool \in Product
  /\ refused \in BOOLEAN
  /\ modules \in Nat
  /\ runs \in 0..MaxRuns

\* Whatever failed and however often the build was run or stopped, a library
\* that needs a patch is installed, and the tendermint program made, without it
\* only if git apply --check refused the patch in the same build: a git apply
\* that failed or was stopped half way never leads to that by itself, though only
\* some trees are reset.  Half a patch is never in what is installed, but for
\* waku, whose tree nothing ever resets.
UnpatchedWasRefused ==
  [][BuildStep /\ Current \in PatchedLib =>
       /\ StepOfPlan = "install" /\ libs'[Current] # "patched" =>
            /\ refused
            /\ libs'[Current] = "partial" => Current = "waku"
       /\ StepOfPlan = "tool" /\ tool' # "patched" =>
            /\ refused
            /\ tool' = "plain"]_<<command, runs, buildVars>>
=============================================================================
