--------------------------- MODULE ConfigureProofs ---------------------------
(***************************************************************************)
(* Proofs about the build and configure commands, for any number of        *)
(* commands run, steps failed and edits of the .env file.  First what is   *)
(* built and installed and how often a file is added to, then the texts    *)
(* the .env file can have: four and, with the generated lines, four more.  *)
(***************************************************************************)
EXTENDS Configure, DataProofs, SequenceTheorems

\* The steps of each library that patch its tree and that compile it first.
PatchStep == [l \in PatchedLib |-> IF l = "waku" THEN 1 ELSE 2]
CompileStep == [l \in PatchedLib |-> IF l = "waku" THEN 2 ELSE 4]

PlaceOK ==
  /\ lib \in 1..Len(Order)
  /\ step \in 1..Len(Plan[Current])

\* A tree is compiled as patched, or the patch has been refused; half of a patch
\* is only in a tree that is never checked out.
Compiled(l, tree) ==
  tree # "patched" => refused /\ (tree = "partial" => l = "waku")

\* What the plan of library l relies on when its step k is next: a tree to be
\* patched has been checked out, unless it is that of waku; a tree past its patch
\* step may be compiled; and what has been compiled is that tree.
AtStep(l, k) ==
  /\ k = PatchStep[l] => src[l] = "plain" \/ l = "waku"
  /\ k > PatchStep[l] => Compiled(l, src[l])
  /\ k > CompileStep[l] => made = src[l]

Patched ==
  /\ src \in [Lib -> Source]
  /\ made \in Product
  /\ libs \in [Lib -> Product]
  /\ tool \in {"none", "plain", "patched"}
  /\ refused \in BOOLEAN
  /\ command = "build" /\ Current \in PatchedLib => AtStep(Current, step)

\* The module line of redis.conf is only added after the checkout of redis took
\* it out.
ModuleLines ==
  /\ modules \in 0..1
  /\ command = "build" /\ Current = "redis" /\ step > 1 => modules = 0

BuildInv == PlaceOK /\ Patched /\ ModuleLines

\* A root directory is tagged once and has redis.conf as the build left it.
RootDir ==
  [toml : BOOLEAN, edited : BOOLEAN, tags : 0..1, keys : {"none", "plain", "patched"},
   conf : BOOLEAN, modules : 0..1, port : BOOLEAN]

DirsOK == dirs \in [DOMAIN dirs -> RootDir]

IInv == BuildInv /\ DirsOK

-----------------------------------------------------------------------------
(* The plan.                                                               *)

LEMMA PlanShape ==
  /\ Len(Order) = 6
  /\ \A i \in 1..6 : Order[i] \in Lib /\ Len(Plan[Order[i]]) >= 1
                     /\ Len(Plan[Order[i]]) \in Nat
<1>1. Len(Order) = 6
  BY DEF Order
<1>2. ASSUME NEW i \in 1..6 PROVE Order[i] \in Lib
  BY <1>2 DEF Order, Lib
<1>3. ASSUME NEW l \in Lib PROVE Len(Plan[l]) >= 1 /\ Len(Plan[l]) \in Nat
  <2>1. CASE l = "proto"
    BY <2>1 DEF Plan
  <2>2. CASE l = "consensus"
    BY <2>2 DEF Plan
  <2>3. CASE l = "waku"
    BY <2>3 DEF Plan
  <2>4. CASE l = "statusgo"
    BY <2>4 DEF Plan
  <2>5. CASE l = "falkorDB"
    BY <2>5 DEF Plan
  <2>6. CASE l = "redis"
    BY <2>6 DEF Plan
  <2>. QED
    BY <2>1, <2>2, <2>3, <2>4, <2>5, <2>6 DEF Lib
<1>. QED
  BY <1>1, <1>2, <1>3

\* In the plan of a patched library only the patch step makes up for a checkout,
\* and all else that counts comes after it.
LEMMA PlanOfPatched ==
  ASSUME NEW l \in PatchedLib, NEW k \in 1..Len(Plan[l])
  PROVE  /\ PatchStep[l] \in 1..2 /\ CompileStep[l] \in 2..4
         /\ PatchStep[l] < CompileStep[l]
         /\ Plan[l][k] \notin {"download", "module", "generate"}
         /\ Plan[l][k] = "checkout" <=> k < PatchStep[l]
         /\ Plan[l][k] = "patch" <=> k = PatchStep[l]
         /\ Plan[l][k] = "compile" => k >= CompileStep[l]
         /\ k = CompileStep[l] => Plan[l][k] = "compile"
         /\ Plan[l][k] = "install" => k > CompileStep[l]
         /\ Plan[l][k] = "tool" => k > PatchStep[l] /\ l = "consensus"
<1>1. CASE l = "consensus"
  BY <1>1 DEF Plan, PatchedLib, PatchStep, CompileStep
<1>2. CASE l = "waku"
  BY <1>2 DEF Plan, PatchedLib, PatchStep, CompileStep
<1>3. CASE l = "statusgo"
  BY <1>3 DEF Plan, PatchedLib, PatchStep, CompileStep
<1>. QED
  BY <1>1, <1>2, <1>3 DEF PatchedLib

\* The tool is made for a patched library only, and only redis has a module.
LEMMA PlanOfOthers ==
  ASSUME NEW l \in Lib \ PatchedLib, NEW k \in 1..Len(Plan[l])
  PROVE  /\ Plan[l][k] # "tool"
         /\ Plan[l][k] = "module" => l = "redis" /\ k = 4
<1>1. CASE l = "proto"
  BY <1>1 DEF Plan, PatchedLib
<1>2. CASE l = "falkorDB"
  BY <1>2 DEF Plan, PatchedLib
<1>3. CASE l = "redis"
  BY <1>3 DEF Plan, PatchedLib
<1>. QED
  BY <1>1, <1>2, <1>3 DEF PatchedLib, Lib

LEMMA PlanOfRedis ==
  /\ Len(Plan["redis"]) = 4
  /\ Plan["redis"][1] = "checkout"
BY DEF Plan
-----------------------------------------------------------------------------
(* The build.                                                              *)

LEMMA InitInv == ASSUME ConfigInit PROVE IInv
<1>1. PlaceOK
  BY PlanShape DEF ConfigInit, Init, PlaceOK, Current
<1>2. Patched
  BY DEF ConfigInit, Init, Patched, Source, Product
<1>3. ModuleLines
  BY DEF ConfigInit, Init, ModuleLines
<1>4. DirsOK
  BY DEF ConfigInit, DirsOK
<1>. QED
  BY <1>1, <1>2, <1>3, <1>4 DEF IInv, BuildInv

\* The next library starts at the first step of its plan.
LEMMA NextLibPlace ==
  ASSUME PlaceOK, NextLib
  PROVE  PlaceOK' /\ (command' = "build" => step' = 1)
<1>1. lib' \in 1..6 /\ step' = 1
  BY PlanShape DEF PlaceOK, NextLib
<1>. QED
  BY <1>1, PlanShape DEF PlaceOK, Current

\* What the steps of a plan keep.
LEMMA DoKeeps ==
  ASSUME BuildInv, command = "build", Do(StepOfPlan)
  PROVE  /\ src' \in [Lib -> Source]
         /\ made' \in Product
         /\ libs' \in [Lib -> Product]
         /\ tool' \in {"none", "plain", "patched"}
         /\ refused' \in BOOLEAN
         /\ modules' \in 0..1
<1>. DEFINE kind == StepOfPlan
<1>1. /\ Current \in Lib /\ step \in 1..Len(Plan[Current])
      /\ PatchedLib \subseteq Lib
      /\ kind = Plan[Current][step]
  BY PlanShape DEF BuildInv, PlaceOK, Current, PatchedLib, Lib, StepOfPlan
<1>2. kind = "tool" => src[Current] \in {"plain", "patched"}
  <2>1. kind = "tool" => Current \in PatchedLib
    BY <1>1, PlanOfOthers
  <2>2. Current \in PatchedLib =>
          /\ kind \notin {"download", "module", "generate"}
          /\ kind = "tool" => step > PatchStep[Current] /\ Current = "consensus"
    BY <1>1, PlanOfPatched
  <2>. QED
    BY <1>1, <2>1, <2>2 DEF BuildInv, Patched, AtStep, Compiled, Source
<1>3. kind = "module" => modules = 0
  <2>1. Current \in PatchedLib => kind # "module"
    BY <1>1, PlanOfPatched
  <2>2. Current \notin PatchedLib => (kind = "module" => Current = "redis" /\ step = 4)
    BY <1>1, PlanOfOthers
  <2>. QED
    BY <2>1, <2>2 DEF BuildInv, ModuleLines
<1>. HIDE DEF kind
<1>a. Patched /\ modules \in 0..1
  BY DEF BuildInv, ModuleLines
<1>4. CASE kind = "generate" /\ GenerateStubs
  BY <1>a, <1>4 DEF GenerateStubs, Patched, products
<1>5. CASE kind = "checkout" /\ Checkout
  <2>1. src' \in [Lib -> Source]
    BY <1>a, <1>5 DEF Checkout, Patched, Source
  <2>2. modules' \in 0..1 /\ UNCHANGED <<refused, made, libs, tool>>
    BY <1>a, <1>5 DEF Checkout, products
  <2>. QED
    BY <1>a, <2>1, <2>2 DEF Patched
<1>6. CASE kind = "patch" /\ ApplyPatch
  <2>1. UNCHANGED <<made, libs, tool, modules>>
    BY <1>6 DEF ApplyPatch, Patches, PatchRefused, products
  <2>2. src' \in [Lib -> Source]
    BY <1>a, <1>6 DEF ApplyPatch, Patches, PatchRefused, Patched, Source
  <2>3. refused' \in BOOLEAN
    BY <1>6, Zenon DEF ApplyPatch, Patches, PatchRefused
  <2>. QED
    BY <1>a, <2>1, <2>2, <2>3 DEF Patched
<1>7. CASE kind = "compile" /\ Compile
  <2>1. src[Current] \in Product
    BY <1>a, <1>1 DEF Patched, Product
  <2>. QED
    BY <1>a, <1>7, <2>1 DEF Compile, Patched
<1>8. CASE kind = "tool" /\ MakeTool
  BY <1>a, <1>2, <1>8 DEF MakeTool, Patched
<1>9. CASE kind = "install" /\ InstallLib
  BY <1>a, <1>1, <1>9 DEF InstallLib, Patched
<1>10. CASE kind = "download" /\ Download
  BY <1>a, <1>1, <1>10 DEF Download, Patched, Product, Source
<1>11. CASE kind = "module" /\ LoadModule
  BY <1>a, <1>3, <1>11 DEF LoadModule, Patched, products
<1>12. CASE kind = "other" /\ UNCHANGED <<src, refused, products, modules>>
  BY <1>a, <1>12 DEF Patched, products
<1>. QED
  BY <1>4, <1>5, <1>6, <1>7, <1>8, <1>9, <1>10, <1>11, <1>12 DEF Do, kind

\* Within a plan: the checkout leaves a plain tree; the patch step patches it, or
\* is refused; what comes after changes neither the tree nor what was refused, and
\* compiles the tree as it is.
LEMMA DoPatches ==
  ASSUME BuildInv, command = "build", Do(StepOfPlan), Current \in PatchedLib
  PROVE  /\ step + 1 = PatchStep[Current] => src'[Current] = "plain" \/ Current = "waku"
         /\ step + 1 > PatchStep[Current] =>
              (src'[Current] # "patched" =>
                 refused' /\ (src'[Current] = "partial" => Current = "waku"))
         /\ step + 1 > CompileStep[Current] => made' = src'[Current]
<1>. DEFINE l == Current
            p == PatchStep[l]
            c == CompileStep[l]
            kind == StepOfPlan
<1>1. /\ step \in 1..Len(Plan[l])
      /\ l \in Lib /\ src \in [Lib -> Source]
      /\ kind = Plan[l][step]
  BY PlanShape DEF BuildInv, PlaceOK, Patched, Current, PatchedLib, Lib, StepOfPlan
<1>2. step \in Int
  BY <1>1, PlanShape DEF Lib, Plan
<1>3. /\ p \in 1..2 /\ c \in 2..4 /\ p < c
      /\ kind \notin {"download", "module", "generate"}
      /\ kind = "checkout" <=> step < p
      /\ kind = "patch" <=> step = p
      /\ kind = "compile" => step >= c
      /\ step = c => kind = "compile"
  BY <1>1, PlanOfPatched
<1>4. AtStep(l, step)
  BY DEF BuildInv, Patched
<1>. HIDE DEF p, c, kind
<1>5. CASE kind = "checkout" /\ Checkout
  <2>1. step < p /\ step < c /\ src'[l] = "plain"
    BY <1>1, <1>2, <1>3, <1>5 DEF Checkout
  <2>. QED
    BY <1>2, <1>3, <2>1 DEF p, c
<1>6. CASE kind = "patch" /\ ApplyPatch
  <2>1. step = p /\ step < c
    BY <1>3, <1>6
  <2>2. CASE Patches
    <3>1. src'[l] = "patched"
      BY <1>1, <2>2 DEF Patches
    <3>. QED
      BY <1>2, <1>3, <2>1, <3>1 DEF p, c
  <2>3. CASE PatchRefused
    <3>1. src'[l] = src[l] /\ (src[l] # "patched" => refused')
      BY <2>3 DEF PatchRefused
    <3>2. src[l] = "plain" \/ l = "waku"
      BY <1>4, <2>1 DEF AtStep, p
    <3>. QED
      BY <1>2, <1>3, <2>1, <3>1, <3>2 DEF p, c
  <2>. QED
    BY <1>6, <2>2, <2>3 DEF ApplyPatch
<1>7. CASE kind = "compile" /\ Compile
  <2>1. step > p /\ step + 1 # p
    BY <1>2, <1>3, <1>7
  <2>2. src[l] # "patched" => refused /\ (src[l] = "partial" => l = "waku")
    BY <1>4, <2>1 DEF AtStep, Compiled, p
  <2>3. src' = src /\ refused' = refused /\ made' = src[l]
    BY <1>7 DEF Compile
  <2>. QED
    BY <2>1, <2>2, <2>3 DEF p, c
<1>8. CASE kind \notin {"checkout", "patch", "compile"} /\ UNCHANGED <<src, refused, made>>
  <2>1. step > p /\ step + 1 # p /\ step # c
    BY <1>2, <1>3, <1>8
  <2>2. src[l] # "patched" => refused /\ (src[l] = "partial" => l = "waku")
    BY <1>4, <2>1 DEF AtStep, Compiled, p
  <2>3. step + 1 > c => made = src[l]
    BY <1>2, <1>3, <1>4, <2>1 DEF AtStep, c
  <2>. QED
    BY <1>8, <2>1, <2>2, <2>3 DEF p, c
<1>. QED
  BY <1>3, <1>5, <1>6, <1>7, <1>8
  DEF Do, kind, products, MakeTool, InstallLib, Download, LoadModule, GenerateStubs

\* In the plan of redis the checkout comes first and the module line last.
LEMMA DoModules ==
  ASSUME BuildInv, command = "build", Do(StepOfPlan),
         Current = "redis", step < Len(Plan[Current])
  PROVE  modules' = 0
<1>1. step \in 1..3 /\ StepOfPlan = Plan["redis"][step]
  BY PlanOfRedis DEF BuildInv, PlaceOK, StepOfPlan
<1>2. StepOfPlan # "module" /\ (step = 1 => StepOfPlan = "checkout")
  BY <1>1 DEF Plan
<1>3. CASE step = 1
  BY <1>2, <1>3 DEF Do, Checkout
<1>4. CASE step > 1
  <2>1. modules = 0
    BY <1>4 DEF BuildInv, ModuleLines
  <2>. QED
    BY <1>2, <2>1 DEF Do, GenerateStubs, Checkout, ApplyPatch, Patches, PatchRefused, Compile,
                      MakeTool, InstallLib, Download
<1>. QED
  BY <1>1, <1>3, <1>4

\* Nothing is asked of a plan that begins.
LEMMA FirstStepNext ==
  ASSUME step' = 1, Current' \in PatchedLib
  PROVE  AtStep(Current, step)'
<1>. DEFINE l == Current'
<1>1. 1 # PatchStep[l] \/ l = "waku"
  BY DEF PatchStep, PatchedLib
<1>2. ~ (1 > PatchStep[l]) /\ ~ (1 > CompileStep[l])
  BY DEF PatchStep, CompileStep, PatchedLib
<1>. HIDE DEF l
<1>3. l = Current'
  BY DEF l
<1>. QED
  BY <1>1, <1>2, <1>3 DEF AtStep

\* What a step that does not come to its end keeps.
LEMMA UndoneKeeps ==
  ASSUME BuildInv, LeftUndone
  PROVE  /\ src' \in [Lib -> Source]
         /\ made' \in Product
         /\ libs' \in [Lib -> Product]
         /\ tool' \in {"none", "plain", "patched"}
         /\ refused' \in BOOLEAN
         /\ modules' \in 0..1
         /\ UNCHANGED modules
<1>1. Current \in Lib /\ src \in [Lib -> Source]
  BY PlanShape DEF BuildInv, PlaceOK, Patched, Current
<1>2. TreesLeft \subseteq Source
  BY <1>1 DEF TreesLeft, Source
<1>3. src' \in [Lib -> Source]
  BY <1>1, <1>2 DEF LeftUndone
<1>4. UNCHANGED <<refused, made, libs, tool, modules>>
  BY DEF LeftUndone, products
<1>. QED
  BY <1>3, <1>4 DEF BuildInv, Patched, ModuleLines

\* No step of the build breaks the invariant, nor does one that fails, nor a
\* command that is stopped.
LEMMA BuildKeepsInv == ASSUME BuildInv, Build PROVE BuildInv'
<1>1. ASSUME StartBuild PROVE BuildInv'
  <2>1. /\ lib' = 1 /\ step' = 1 /\ made' = "none" /\ refused' = FALSE
        /\ UNCHANGED <<src, libs, tool, modules>>
    BY <1>1 DEF StartBuild
  <2>2. PlaceOK'
    BY <2>1, PlanShape DEF PlaceOK, Current
  <2>3. Patched'
    <3>1. Current' \notin PatchedLib
      BY <2>1 DEF Current, Order, PatchedLib
    <3>2. refused' \in BOOLEAN
      BY <2>1, Zenon
    <3>. QED
      BY <2>1, <3>1, <3>2 DEF BuildInv, Patched, Product
  <2>4. ModuleLines'
    BY <2>1 DEF BuildInv, ModuleLines
  <2>. QED
    BY <2>2, <2>3, <2>4 DEF BuildInv
<1>2. ASSUME BuildStep PROVE BuildInv'
  <2>1. command = "build" /\ Do(StepOfPlan)
    BY <1>2 DEF BuildStep
  <2>2. CASE step < Len(Plan[Current])
    <3>1. step' = step + 1 /\ lib' = lib /\ command' = command /\ Current' = Current
      BY <1>2, <2>2 DEF BuildStep, Current
    <3>2. PlaceOK'
      BY <2>2, <3>1, PlanShape DEF BuildInv, PlaceOK, Current
    <3>3. Patched'
      <4>1. Current \in PatchedLib => AtStep(Current, step)'
        BY <2>1, <3>1, DoPatches DEF AtStep, Compiled
      <4>. QED
        BY <2>1, <3>1, <4>1, DoKeeps DEF Patched
    <3>4. ModuleLines'
      BY <2>1, <2>2, <3>1, DoKeeps, DoModules DEF ModuleLines
    <3>. QED
      BY <3>2, <3>3, <3>4 DEF BuildInv
  <2>3. CASE ~ (step < Len(Plan[Current]))
    <3>1. NextLib
      BY <1>2, <2>3 DEF BuildStep
    <3>2. PlaceOK' /\ (command' = "build" => step' = 1)
      BY <3>1, NextLibPlace DEF BuildInv
    <3>3. Patched'
      <4>1. command' = "build" /\ Current' \in PatchedLib => AtStep(Current, step)'
        BY <3>2, FirstStepNext
      <4>. QED
        BY <2>1, <4>1, DoKeeps DEF Patched
    <3>4. ModuleLines'
      BY <2>1, <3>2, DoKeeps DEF ModuleLines
    <3>. QED
      BY <3>2, <3>3, <3>4 DEF BuildInv
  <2>. QED
    BY <2>2, <2>3
<1>3. ASSUME BuildFails PROVE BuildInv'
  <2>1. NextLib /\ LeftUndone
    BY <1>3 DEF BuildFails
  <2>2. PlaceOK' /\ (command' = "build" => step' = 1)
    BY <2>1, NextLibPlace DEF BuildInv
  <2>3. Patched'
    <3>1. command' = "build" /\ Current' \in PatchedLib => AtStep(Current, step)'
      BY <2>2, FirstStepNext
    <3>. QED
      BY <2>1, <3>1, UndoneKeeps DEF Patched
  <2>4. ModuleLines'
    BY <2>1, <2>2, UndoneKeeps DEF ModuleLines
  <2>. QED
    BY <2>2, <2>3, <2>4 DEF BuildInv
<1>4. ASSUME Interrupt PROVE BuildInv'
  <2>1. lib' = 1 /\ step' = 1 /\ command' = "none" /\ LeftUndone
    BY <1>4 DEF Interrupt
  <2>2. PlaceOK'
    BY <2>1, PlanShape DEF PlaceOK, Current
  <2>3. Patched'
    BY <2>1, UndoneKeeps DEF Patched
  <2>4. ModuleLines'
    BY <2>1, UndoneKeeps DEF ModuleLines
  <2>. QED
    BY <2>2, <2>3, <2>4 DEF BuildInv
<1>. QED
  BY <1>1, <1>2, <1>3, <1>4 DEF Build

-----------------------------------------------------------------------------
(* The configuration.                                                      *)

\* The other commands leave what was built alone.
LEMMA OthersKeepBuild ==
  ASSUME BuildInv, UNCHANGED buildVars, command # "build" => command' # "build",
         command = "build" => command' = "build"
  PROVE  BuildInv'
<1>1. /\ UNCHANGED <<lib, step, refused, src, made, libs, tool, modules>>
      /\ Current' = Current
  BY DEF buildVars, products, Current
<1>2. PlaceOK'
  BY <1>1 DEF BuildInv, PlaceOK
<1>3. Patched'
  BY <1>1 DEF BuildInv, Patched, AtStep, Compiled
<1>4. ModuleLines'
  BY <1>1 DEF BuildInv, ModuleLines
<1>. QED
  BY <1>2, <1>3, <1>4 DEF BuildInv

\* A root directory is filled with a record of the same kind.
LEMMA FillKeepsDirs ==
  ASSUME DirsOK, NEW d,
         hash \in DOMAIN dirs => d \in RootDir,
         dirs' = [dirs EXCEPT ![hash] = d]
  PROVE  DirsOK'
BY DEF DirsOK

LEMMA ConfigStepKeepsDirs ==
  ASSUME BuildInv, DirsOK, ConfigStep
  PROVE  DirsOK'
<1>a. /\ dirs \in [DOMAIN dirs -> RootDir]
      /\ tool \in {"none", "plain", "patched"} /\ modules \in 0..1
  BY DEF DirsOK, BuildInv, Patched, ModuleLines
<1>1. CASE dirs' = dirs
  BY <1>1 DEF DirsOK
<1>2. CASE MakeRoot
  BY <1>a, <1>2 DEF MakeRoot, NewDir, RootDir, DirsOK
<1>3. CASE InitValidator
  <2>. DEFINE d == dirs[hash]
              keys == IF d.keys = "none" THEN tool ELSE d.keys
  <2>1. PICK e : /\ dirs' = [dirs EXCEPT ![hash] = e]
                 /\ \/ e = [d EXCEPT !.toml = TRUE, !.keys = keys]
                    \/ \E toml \in {d.toml, TRUE} : e = [d EXCEPT !.toml = toml]
    BY <1>3 DEF InitValidator
  <2>2. hash \in DOMAIN dirs => e \in RootDir
    BY <1>a, <2>1 DEF RootDir
  <2>. QED
    BY <2>1, <2>2, FillKeepsDirs
<1>4. CASE EditToml
  <2>. DEFINE e == [dirs[hash] EXCEPT !.edited = TRUE]
  <2>1. hash \in DOMAIN dirs => e \in RootDir
    BY <1>a DEF RootDir
  <2>2. dirs' = [dirs EXCEPT ![hash] = e]
    BY <1>4 DEF EditToml, Fill
  <2>. QED
    BY <2>1, <2>2, FillKeepsDirs
<1>5. CASE AddTags
  <2>. DEFINE e == [dirs[hash] EXCEPT !.tags = IF @ = 0 THEN 1 ELSE @]
  <2>1. hash \in DOMAIN dirs => e \in RootDir
    BY <1>a DEF RootDir
  <2>2. dirs' = [dirs EXCEPT ![hash] = e]
    BY <1>5 DEF AddTags, Fill
  <2>. QED
    BY <2>1, <2>2, FillKeepsDirs
<1>6. CASE CopyRedisConf
  <2>. DEFINE e == [dirs[hash] EXCEPT !.conf = TRUE, !.modules = modules, !.port = FALSE]
  <2>1. hash \in DOMAIN dirs => e \in RootDir
    BY <1>a DEF RootDir
  <2>2. dirs' = [dirs EXCEPT ![hash] = e]
    BY <1>6 DEF CopyRedisConf, Fill
  <2>. QED
    BY <2>1, <2>2, FillKeepsDirs
<1>7. CASE SetPort
  <2>. DEFINE e == [dirs[hash] EXCEPT !.port = TRUE]
  <2>1. hash \in DOMAIN dirs => e \in RootDir
    BY <1>a DEF RootDir
  <2>2. dirs' = [dirs EXCEPT ![hash] = e]
    BY <1>7 DEF SetPort, Fill
  <2>. QED
    BY <2>1, <2>2, FillKeepsDirs
<1>. QED
  BY <1>1, <1>2, <1>3, <1>4, <1>5, <1>6, <1>7
  DEF ConfigStep, RecreateEnvfile, ReadConfig, UpdateEnvfile, Return

LEMMA NextInv == ASSUME IInv, [Next]_vars PROVE IInv'
<1>1. ASSUME Build, UNCHANGED configVars PROVE IInv'
  BY <1>1, BuildKeepsInv DEF IInv, configVars, DirsOK
<1>2. ASSUME EditEnv PROVE IInv'
  BY <1>2, OthersKeepBuild DEF EditEnv, IInv, DirsOK
<1>3. ASSUME NEW args \in Arguments, RunConfig(args) PROVE IInv'
  <2>1. UNCHANGED <<buildVars, dirs>> /\ command # "build" /\ command' # "build"
    BY <1>3 DEF RunConfig
  <2>. QED
    BY <2>1, OthersKeepBuild DEF IInv, DirsOK
<1>4. ASSUME ConfigStep PROVE IInv'
  <2>1. UNCHANGED buildVars /\ command # "build" /\ command' # "build"
    BY <1>4 DEF ConfigStep
  <2>. QED
    BY <1>4, <2>1, OthersKeepBuild, ConfigStepKeepsDirs DEF IInv
<1>5. ASSUME ConfigFails PROVE IInv'
  <2>1. UNCHANGED <<buildVars, dirs>> /\ command # "build" /\ command' # "build"
    BY <1>5 DEF ConfigFails
  <2>. QED
    BY <2>1, OthersKeepBuild DEF IInv, DirsOK
<1>6. ASSUME UNCHANGED vars PROVE IInv'
  BY <1>6, OthersKeepBuild DEF vars, configVars, IInv, DirsOK
<1>. QED
  BY <1>1, <1>2, <1>3, <1>4, <1>5, <1>6 DEF Next

-----------------------------------------------------------------------------
(* The texts of the .env file.                                             *)

Names == SetToSeq(Setting)
Count == Cardinality(Setting)

\* The first n settings, one on a line.
Lines(n) == [i \in 1..n |-> {Names[i]}]

\* What a user writes, what is left of it when the last setting has run
\* together with a generated one, and what a rewrite that is cut short leaves;
\* and these with the generated lines.
User(ended) == [lines |-> Lines(Count), ended |-> ended]
Shorter == [lines |-> Lines(Count - 1), ended |-> TRUE]
Bases == {User(TRUE), User(FALSE), Shorter, Empty}
Full == {WithGenerated(b) : b \in Bases}

\* Where there is a root directory and .env is as it was recreated.
Recreated == {"config", "init", "toml", "tags", "conf", "port", "update"}

TextsOK ==
  /\ env \in Bases \cup Full /\ held \in Bases \cup Full
  /\ hash \in Bases /\ volume \in Bases /\ DOMAIN dirs \subseteq Bases
  /\ target \in {[home |-> RootHome, name |-> volume], [home |-> RootHome, name |-> Shared]}
  /\ at = "recreating" => held \in Bases
  /\ at \in {"recreating", "updating"} => env = Empty
  /\ at \in Recreated => env \in Bases

\* With no line run together, all texts are made from those in us.
Whole(us) == {WithGenerated(u) : u \in {v \in us : v.ended}}
TextsFrom(us) ==
  /\ env \in us \cup Whole(us) \cup {Empty}
  /\ at = "recreating" => held \in us
  /\ at \in Recreated => env \in us
  /\ at = "updating" => held \in Whole(us)
  /\ DOMAIN dirs \subseteq us
  /\ cuts = 0 /\ at \notin {"recreating", "updating"} => env # Empty

KeptOK ==
  /\ at = "recreate" => Alone(Project)
  /\ ~ unended => TextsFrom(UserText)
  /\ ~ unended /\ edits = 0 => \E u \in UserText : TextsFrom({u})

\* A root directory is filled step by step.
Ready(t) == dirs[t].keys # "none" \/ t \in badInit
Filled(t) ==
  /\ dirs[t].edited /\ dirs[t].tags = 1 /\ dirs[t].conf /\ dirs[t].port
  /\ Ready(t)
FilledAt ==
  /\ badInit \subseteq DOMAIN dirs
  /\ at \notin {"none", "recreate", "recreating"} => hash \in DOMAIN dirs
  /\ at \in {"toml", "tags", "conf", "port", "update", "updating"} => Ready(hash)
  /\ at \in {"tags", "conf", "port", "update", "updating"} => dirs[hash].edited
  /\ at \in {"conf", "port", "update", "updating"} => dirs[hash].tags = 1
  /\ at \in {"port", "update", "updating"} => dirs[hash].conf
  /\ at \in {"update", "updating"} => dirs[hash].port
  /\ AllGenerated =>
       at \in {"none", "recreate"} /\ volume \in DOMAIN dirs /\ Filled(volume)

CountersOK ==
  /\ home \in Home
  /\ command \in {"none", "build", "configure"}
  /\ at \in {"none", "recreate", "recreating", "updating"} \cup Recreated
  /\ (command = "configure") <=> (at # "none")
  /\ exit \in {"none", "ok", "error"}
  /\ edits \in 0..MaxEdits
  /\ runs \in 0..MaxRuns
  /\ cuts \in Nat /\ cuts <= runs
  /\ at # "none" => cuts < runs
  /\ unended \in BOOLEAN

\* A sequence of the settings, each once.
LEMMA NamesOf ==
  /\ Count \in Nat /\ Count >= 1
  /\ Names \in [1..Count -> Setting]
  /\ \A i, j \in 1..Count : Names[i] = Names[j] => i = j
  /\ \A s \in Setting : \E i \in 1..Count : Names[i] = s
<1>1. IsFiniteSet(Setting) /\ Setting # {} /\ Count \in Nat
  BY SettingAssumption, FS_CardinalityType DEF Count
<1>2. Count >= 1
  BY <1>1, FS_EmptySet DEF Count
<1>3. \E f \in [1..Count -> Setting] : IsInjective(f)
  <2>1. IsFiniteSet(1..Count) /\ Cardinality(1..Count) = Count
    BY <1>1, FS_Interval
  <2>2. ExistsBijection(1..Count, Setting)
    BY <1>1, <2>1, FS_SameCardinalityBij DEF Count
  <2>3. PICK f : f \in Bijection(1..Count, Setting)
    BY <2>2 DEF ExistsBijection
  <2>. QED
    BY <2>3 DEF Bijection, Injection
<1>4. Names \in [1..Count -> Setting] /\ IsInjective(Names)
  BY <1>3 DEF Names, SetToSeq, Count
<1>5. Names \in Surjection(1..Count, Setting)
  <2>1. IsFiniteSet(1..Count) /\ Cardinality(1..Count) = Count
    BY <1>1, FS_Interval
  <2>2. Names \in Injection(1..Count, Setting)
    BY <1>4 DEF Injection
  <2>. QED
    BY <1>1, <2>1, <2>2, FS_Injection DEF Count
<1>6. \A i, j \in 1..Count : Names[i] = Names[j] => i = j
  BY <1>4 DEF IsInjective
<1>7. \A s \in Setting : \E i \in 1..Count : Names[i] = s
  BY <1>5 DEF Surjection
<1>. QED
  BY <1>1, <1>2, <1>4, <1>6, <1>7

\* The generated lines come after n settings, the first of them on a line of
\* its own, or on the line of the last setting.
Below(n) ==
  [i \in 1..(n + 3) |-> IF i <= n THEN {Names[i]} ELSE {Generated[i - n]}]
Beside ==
  [i \in 1..(Count + 2) |->
     IF i < Count THEN {Names[i]}
     ELSE IF i = Count THEN {Names[Count], Generated[1]}
     ELSE {Generated[(i - Count) + 1]}]

LEMMA GeneratedOf ==
  /\ ToSet(Generated) = {Generated[1], Generated[2], Generated[3]}
  /\ Generated[1] # Generated[2] /\ Generated[1] # Generated[3] /\ Generated[2] # Generated[3]
  /\ \A i \in 1..Count : Names[i] \in Setting /\ Names[i] \notin ToSet(Generated)
<1>1. /\ ToSet(Generated) = {Generated[1], Generated[2], Generated[3]}
      /\ Generated[1] # Generated[2] /\ Generated[1] # Generated[3]
      /\ Generated[2] # Generated[3]
  BY DEF Generated, ToSet
<1>. QED
  BY <1>1, NamesOf, SettingAssumption

\* They are sequences of lines.
LEMMA LinesOf ==
  /\ \A n \in 0..Count : Lines(n) \in Seq(Line) /\ Len(Lines(n)) = n
  /\ \A n \in 0..Count : Below(n) \in Seq(Line) /\ Len(Below(n)) = n + 3
  /\ Beside \in Seq(Line) /\ Len(Beside) = Count + 2
  /\ [i \in 1..3 |-> {Generated[i]}] \in Seq(Line)
  /\ Len([i \in 1..3 |-> {Generated[i]}]) = 3
<1>1. \A i \in 1..3 : {Generated[i]} \in Line
  <2>. SUFFICES ASSUME NEW i \in 1..3 PROVE {Generated[i]} \in Line
    OBVIOUS
  <2>1. i = 1 \/ i = 2 \/ i = 3
    OBVIOUS
  <2>2. Generated[i] \in ToSet(Generated)
    BY <2>1, GeneratedOf
  <2>. QED
    BY <2>2 DEF Line
<1>2. \A i \in 1..Count : {Names[i]} \in Line /\ {Names[i], Generated[1]} \in Line
  BY GeneratedOf DEF Line
<1>3. ASSUME NEW n \in 0..Count
      PROVE  /\ Lines(n) \in Seq(Line) /\ Len(Lines(n)) = n
             /\ Below(n) \in Seq(Line) /\ Len(Below(n)) = n + 3
  <2>1. n \in Nat /\ n <= Count /\ Count \in Nat
    BY NamesOf
  <2>c. \A i \in 1..n : i \in 1..Count
    BY <2>1
  <2>a. \A i \in 1..n : {Names[i]} \in Line
    BY <1>2, <2>c
  <2>2. Lines(n) \in [1..n -> Line]
    BY <2>a DEF Lines
  <2>3. \A i \in 1..(n + 3) : i <= n \/ i - n \in 1..3
    BY <2>1
  <2>b. \A i \in 1..(n + 3) : (IF i <= n THEN {Names[i]} ELSE {Generated[i - n]}) \in Line
    <3>. SUFFICES ASSUME NEW i \in 1..(n + 3)
                  PROVE  (IF i <= n THEN {Names[i]} ELSE {Generated[i - n]}) \in Line
      OBVIOUS
    <3>1. i <= n => i \in 1..n
      BY <2>1
    <3>. QED
      BY <1>1, <2>a, <2>3, <3>1
  <2>4. Below(n) \in [1..(n + 3) -> Line]
    BY <2>b DEF Below
  <2>5. n + 3 \in Nat
    BY <2>1
  <2>6. Lines(n) \in Seq(Line) /\ Below(n) \in Seq(Line)
    BY <2>1, <2>2, <2>4, <2>5, SeqDef
  <2>7. DOMAIN Lines(n) = 1..n /\ DOMAIN Below(n) = 1..(n + 3)
    BY <2>2, <2>4
  <2>. QED
    BY <2>1, <2>5, <2>6, <2>7, LenProperties
<1>4. Beside \in Seq(Line) /\ Len(Beside) = Count + 2
  <2>1. \A i \in 1..(Count + 2) : i < Count \/ i = Count \/ (i - Count) + 1 \in 1..3
    BY NamesOf
  <2>a. \A i \in 1..(Count + 2) :
          (IF i < Count THEN {Names[i]}
           ELSE IF i = Count THEN {Names[Count], Generated[1]}
           ELSE {Generated[(i - Count) + 1]}) \in Line
    <3>. SUFFICES ASSUME NEW i \in 1..(Count + 2)
                  PROVE  (IF i < Count THEN {Names[i]}
                          ELSE IF i = Count THEN {Names[Count], Generated[1]}
                          ELSE {Generated[(i - Count) + 1]}) \in Line
      OBVIOUS
    <3>1. i < Count => i \in 1..Count
      BY NamesOf
    <3>2. CASE i < Count
      BY <1>2, <3>1, <3>2
    <3>3. CASE ~ (i < Count) /\ i = Count
      <4>1. Count \in 1..Count
        BY NamesOf
      <4>. QED
        BY <1>2, <3>3, <4>1
    <3>4. CASE ~ (i < Count) /\ i # Count
      BY <1>1, <2>1, <3>4
    <3>. QED
      BY <3>2, <3>3, <3>4
  <2>2. Beside \in [1..(Count + 2) -> Line]
    BY <2>a DEF Beside
  <2>3. Count + 2 \in Nat /\ DOMAIN Beside = 1..(Count + 2)
    BY <2>2, NamesOf
  <2>4. Beside \in Seq(Line)
    BY <2>2, <2>3, SeqDef
  <2>. QED
    BY <2>3, <2>4, LenProperties
<1>5. [i \in 1..3 |-> {Generated[i]}] \in Seq(Line)
  <2>1. [i \in 1..3 |-> {Generated[i]}] \in [1..3 -> Line]
    BY <1>1
  <2>. QED
    BY <2>1, SeqDef
<1>6. Len([i \in 1..3 |-> {Generated[i]}]) = 3
  OBVIOUS
<1>. QED
  BY <1>3, <1>4, <1>5, <1>6

\* What update_envfile makes of the texts without generated lines.
LEMMA AddedBelow ==
  ASSUME NEW n \in 0..Count, NEW t, t.lines = Lines(n), t.ended \/ n = 0
  PROVE  WithGenerated(t) = [lines |-> Below(n), ended |-> TRUE]
<1>. DEFINE added == [i \in 1..3 |-> {Generated[i]}]
<1>1. Len(Generated) = 3
  BY DEF Generated
<1>2. n \in Nat
  BY NamesOf
<1>3. Lines(n) \o added = Below(n)
  <2>1. /\ Lines(n) \in Seq(Line) /\ added \in Seq(Line) /\ Below(n) \in Seq(Line)
        /\ Len(Lines(n)) = n /\ Len(added) = 3 /\ Len(Below(n)) = n + 3
    BY LinesOf
  <2>2. \A i \in 1..(n + 3) : Below(n)[i] = IF i <= n THEN Lines(n)[i] ELSE added[i - n]
    <3>. SUFFICES ASSUME NEW i \in 1..(n + 3)
                  PROVE  Below(n)[i] = IF i <= n THEN Lines(n)[i] ELSE added[i - n]
      OBVIOUS
    <3>1. CASE i <= n
      BY <1>2, <3>1 DEF Below, Lines
    <3>2. CASE ~ (i <= n)
      <4>1. i - n \in 1..3
        BY <1>2, <3>2
      <4>. QED
        BY <3>2, <4>1 DEF Below
    <3>. QED
      BY <3>1, <3>2
  <2>. HIDE DEF added
  <2>3. /\ Lines(n) \o added \in Seq(Line) /\ Len(Lines(n) \o added) = n + 3
        /\ \A i \in 1..(n + 3) :
             (Lines(n) \o added)[i] = IF i <= n THEN Lines(n)[i] ELSE added[i - n]
    <3>1. /\ Lines(n) \o added \in Seq(Line)
          /\ Len(Lines(n) \o added) = Len(Lines(n)) + Len(added)
          /\ \A i \in 1..(Len(Lines(n)) + Len(added)) :
               (Lines(n) \o added)[i]
                 = IF i <= Len(Lines(n)) THEN Lines(n)[i] ELSE added[i - Len(Lines(n))]
      BY <2>1, ConcatProperties
    <3>. QED
      BY <2>1, <3>1
  <2>. DEFINE joined == Lines(n) \o added
  <2>4. /\ joined \in Seq(Line) /\ Len(joined) = n + 3
        /\ Below(n) \in Seq(Line) /\ Len(Below(n)) = n + 3
        /\ \A i \in 1..(n + 3) : joined[i] = Below(n)[i]
    BY <2>1, <2>2, <2>3
  <2>. HIDE DEF joined
  <2>5. joined = Below(n)
    <3>1. Len(joined) = Len(Below(n)) /\ \A i \in 1..Len(joined) : joined[i] = Below(n)[i]
      BY <2>4
    <3>. QED
      BY <2>4, <3>1, SeqEqual
  <2>. QED
    BY <2>5 DEF joined
<1>4. n = 0 => t.lines = <<>>
  BY DEF Lines
<1>. QED
  BY <1>1, <1>3, <1>4 DEF WithGenerated

LEMMA AddedBeside ==
  WithGenerated(User(FALSE)) = [lines |-> Beside, ended |-> TRUE]
<1>. DEFINE added == [i \in 1..3 |-> {Generated[i]}]
            first == Front(Lines(Count))
            joined == <<Last(Lines(Count)) \cup added[1]>>
            rest == Tail(added)
<1>1. Len(Generated) = 3
  BY DEF Generated
<1>2. Count \in Nat /\ Count >= 1 /\ Count \in 0..Count
  BY NamesOf
<1>3. Lines(Count) \in Seq(Line) /\ Len(Lines(Count)) = Count
  BY <1>2, LinesOf
<1>4. Lines(Count) # <<>>
  BY <1>2, <1>3
<1>5. /\ first \in Seq(Line) /\ Len(first) = Count - 1
      /\ \A i \in 1..(Count - 1) : first[i] = {Names[i]}
  <2>1. \A i \in 1..(Count - 1) : Lines(Count)[i] \in Line /\ Lines(Count)[i] = {Names[i]}
    BY <1>2, <1>3, ElementOfSeq DEF Lines
  <2>2. Count - 1 \in Int /\ 1 \in Int
    BY <1>2
  <2>3. /\ SubSeq(Lines(Count), 1, Count - 1) \in Seq(Line)
        /\ Len(SubSeq(Lines(Count), 1, Count - 1))
             = IF 1 <= Count - 1 THEN (Count - 1) - 1 + 1 ELSE 0
        /\ \A i \in 1..((Count - 1) - 1 + 1) :
             SubSeq(Lines(Count), 1, Count - 1)[i] = Lines(Count)[1 + i - 1]
    BY <2>1, <2>2, SubSeqProperties
  <2>4. first = SubSeq(Lines(Count), 1, Count - 1)
    BY <1>3 DEF Front
  <2>. HIDE DEF first
  <2>5. \A i \in 1..(Count - 1) : i \in 1..((Count - 1) - 1 + 1) /\ 1 + i - 1 = i
    BY <1>2
  <2>6. \A i \in 1..(Count - 1) : first[i] = {Names[i]}
    BY <2>1, <2>3, <2>4, <2>5
  <2>. QED
    BY <1>2, <2>3, <2>4, <2>6
<1>6. joined \in Seq(Line) /\ Len(joined) = 1 /\ joined[1] = {Names[Count], Generated[1]}
  <2>1. Last(Lines(Count)) = {Names[Count]}
    BY <1>2, <1>3 DEF Last, Lines
  <2>2. {Names[Count], Generated[1]} \in Line
    BY <1>2, GeneratedOf DEF Line
  <2>. QED
    BY <2>1, <2>2
<1>7. /\ rest \in Seq(Line) /\ Len(rest) = 2
      /\ rest[1] = {Generated[2]} /\ rest[2] = {Generated[3]}
  <2>1. added \in Seq(Line) /\ Len(added) = 3
    BY LinesOf
  <2>2. added[2] = {Generated[2]} /\ added[3] = {Generated[3]} /\ added # <<>>
    BY <2>1
  <2>. HIDE DEF added
  <2>3. /\ rest \in Seq(Line) /\ Len(rest) = 2
        /\ \A i \in 1..Len(rest) : rest[i] = added[i + 1]
    BY <2>1, <2>2, HeadTailProperties
  <2>. QED
    BY <2>2, <2>3
<1>. HIDE DEF first, joined, rest
<1>8. /\ first \o joined \in Seq(Line) /\ Len(first \o joined) = Count
      /\ \A i \in 1..Count :
           (first \o joined)[i] = IF i <= Count - 1 THEN first[i] ELSE joined[i - (Count - 1)]
  <2>1. (Count - 1) + 1 = Count
    BY <1>2
  <2>a. first \in Seq(Line) /\ joined \in Seq(Line)
    BY <1>5, <1>6
  <2>2. /\ first \o joined \in Seq(Line)
        /\ Len(first \o joined) = Len(first) + Len(joined)
        /\ \A i \in 1..(Len(first) + Len(joined)) :
             (first \o joined)[i] = IF i <= Len(first) THEN first[i] ELSE joined[i - Len(first)]
    BY <2>a, ConcatProperties
  <2>. QED
    BY <1>5, <1>6, <2>1, <2>2
<1>9. /\ (first \o joined) \o rest \in Seq(Line)
      /\ Len((first \o joined) \o rest) = Count + 2
      /\ \A i \in 1..(Count + 2) :
           ((first \o joined) \o rest)[i]
             = IF i <= Count THEN (first \o joined)[i] ELSE rest[i - Count]
  <2>. DEFINE both == first \o joined
  <2>. HIDE DEF both
  <2>1. both \in Seq(Line) /\ Len(both) = Count
    BY <1>8 DEF both
  <2>a. both \in Seq(Line) /\ rest \in Seq(Line)
    BY <1>7, <2>1
  <2>2. /\ both \o rest \in Seq(Line)
        /\ Len(both \o rest) = Len(both) + Len(rest)
        /\ \A i \in 1..(Len(both) + Len(rest)) :
             (both \o rest)[i] = IF i <= Len(both) THEN both[i] ELSE rest[i - Len(both)]
    BY <2>a, ConcatProperties
  <2>3. /\ both \o rest \in Seq(Line)
        /\ Len(both \o rest) = Count + 2
        /\ \A i \in 1..(Count + 2) :
             (both \o rest)[i] = IF i <= Count THEN both[i] ELSE rest[i - Count]
    BY <1>7, <2>1, <2>2
  <2>. QED
    BY <2>3 DEF both
<1>10. \A i \in 1..(Count + 2) : ((first \o joined) \o rest)[i] = Beside[i]
  <2>. SUFFICES ASSUME NEW i \in 1..(Count + 2)
                PROVE  ((first \o joined) \o rest)[i] = Beside[i]
    OBVIOUS
  <2>1. CASE i < Count
    <3>1. i \in 1..(Count - 1) /\ i \in 1..Count /\ i <= Count /\ i <= Count - 1
      BY <1>2, <2>1
    <3>2. ((first \o joined) \o rest)[i] = {Names[i]}
      BY <1>5, <1>8, <1>9, <3>1
    <3>. QED
      BY <2>1, <3>2 DEF Beside
  <2>2. CASE i = Count
    <3>1. i \in 1..Count /\ i <= Count /\ ~ (i <= Count - 1) /\ i - (Count - 1) = 1
      BY <1>2, <2>2
    <3>2. ((first \o joined) \o rest)[i] = {Names[Count], Generated[1]}
      BY <1>6, <1>8, <1>9, <3>1
    <3>3. ~ (i < Count)
      BY <1>2, <2>2
    <3>. QED
      BY <2>2, <3>2, <3>3 DEF Beside
  <2>3. CASE i = Count + 1
    <3>1. ~ (i <= Count) /\ i - Count = 1 /\ (i - Count) + 1 = 2 /\ ~ (i < Count) /\ i # Count
      BY <1>2, <2>3
    <3>. QED
      BY <1>7, <1>9, <3>1 DEF Beside
  <2>4. CASE i = Count + 2
    <3>1. ~ (i <= Count) /\ i - Count = 2 /\ (i - Count) + 1 = 3 /\ ~ (i < Count) /\ i # Count
      BY <1>2, <2>4
    <3>. QED
      BY <1>7, <1>9, <3>1 DEF Beside
  <2>5. i < Count \/ i = Count \/ i = Count + 1 \/ i = Count + 2
    BY <1>2
  <2>. QED
    BY <2>1, <2>2, <2>3, <2>4, <2>5
<1>11. (first \o joined) \o rest = Beside
  BY <1>9, <1>10, LinesOf, SeqEqual
<1>12. first \o joined \o rest = Beside
  BY <1>11
<1>. QED
  BY <1>1, <1>4, <1>12 DEF WithGenerated, User, first, joined, rest

\* The lines with no generated name are the first k.
LEMMA Removed ==
  ASSUME NEW k \in 0..Count, NEW m \in Nat, k <= m, NEW t,
         DOMAIN t.lines = 1..m, Len(t.lines) = m,
         \A i \in 1..k : t.lines[i] = {Names[i]},
         \A i \in 1..m : i > k => t.lines[i] \cap ToSet(Generated) # {}
  PROVE  WithoutGenerated(t)
           = [lines |-> Lines(k), ended |-> k = 0 \/ {Names[k]} # t.lines[m] \/ t.ended]
<1>. DEFINE names == ToSet(Generated)
            places == {i \in DOMAIN t.lines : t.lines[i] \cap names = {}}
            kept == Pick(t.lines, Ascending(places))
<1>1. k \in Nat /\ k <= Count /\ Count \in Nat
  BY NamesOf
<1>2. places = 1..k
  <2>1. ASSUME NEW i \in 1..m, i <= k PROVE t.lines[i] \cap names = {}
    <3>1. i \in 1..k /\ i \in 1..Count
      BY <1>1, <2>1
    <3>. QED
      BY <3>1, GeneratedOf
  <2>2. \A i \in 1..m : i <= k \/ i > k
    BY <1>1
  <2>3. \A i \in 1..m : i > k => i \notin 1..k
    BY <1>1
  <2>4. \A i \in 1..k : i \in 1..m /\ i <= k
    BY <1>1
  <2>. HIDE DEF names
  <2>. QED
    BY <2>1, <2>2, <2>3, <2>4 DEF names
<1>3. kept = Lines(k)
  <2>1. Ascending(places) = [i \in 1..k |-> i]
    BY <1>1, <1>2, AscendingInterval
  <2>. HIDE DEF places
  <2>2. kept = [i \in 1..k |-> t.lines[i]]
    BY <2>1 DEF Pick
  <2>. HIDE DEF kept
  <2>. QED
    BY <2>2 DEF Lines
<1>4. k \in 0..Count /\ Len(Lines(k)) = k /\ Lines(k) \in Seq(Line)
  BY LinesOf
<1>5. (kept = <<>>) <=> (k = 0)
  <2>1. Lines(k) = <<>> => k = 0
    BY <1>4
  <2>2. k = 0 => Lines(k) = <<>>
    BY DEF Lines
  <2>. QED
    BY <1>3, <2>1, <2>2
<1>6. k # 0 => Last(kept) = {Names[k]}
  <2>1. Last(kept) = Lines(k)[k]
    BY <1>3, <1>4 DEF Last
  <2>2. k # 0 => k \in 1..k
    BY <1>1
  <2>. QED
    BY <2>1, <2>2 DEF Lines
<1>7. Last(t.lines) = t.lines[m]
  BY DEF Last
<1>8. WithoutGenerated(t)
        = [lines |-> kept, ended |-> kept = <<>> \/ Last(kept) # Last(t.lines) \/ t.ended]
  BY DEF WithoutGenerated, Without
<1>. HIDE DEF kept
<1>9. (kept = <<>> \/ Last(kept) # Last(t.lines) \/ t.ended)
        <=> (k = 0 \/ {Names[k]} # t.lines[m] \/ t.ended)
  BY <1>5, <1>6, <1>7
<1>. QED
  BY <1>3, <1>8, <1>9

\* recreate_envfile leaves the texts without generated lines as they are, and
\* takes the lines out again that were added.
LEMMA RemovedFromBase ==
  ASSUME NEW n \in 0..Count, NEW e \in BOOLEAN, n = 0 => e
  PROVE  WithoutGenerated([lines |-> Lines(n), ended |-> e]) = [lines |-> Lines(n), ended |-> e]
<1>. DEFINE t == [lines |-> Lines(n), ended |-> e]
<1>1. n \in Nat /\ n <= n
  BY NamesOf
<1>2. DOMAIN t.lines = 1..n /\ Len(t.lines) = n
  BY <1>1, LinesOf DEF Lines
<1>3. \A i \in 1..n : t.lines[i] = {Names[i]}
  BY DEF Lines
<1>4. \A i \in 1..n : ~ (i > n)
  BY <1>1
<1>5. WithoutGenerated(t)
        = [lines |-> Lines(n), ended |-> n = 0 \/ {Names[n]} # t.lines[n] \/ t.ended]
  BY <1>1, <1>2, <1>3, <1>4, Removed
<1>6. n = 0 \/ t.lines[n] = {Names[n]}
  BY <1>1, <1>3
<1>7. (n = 0 \/ {Names[n]} # t.lines[n] \/ t.ended) = e
  BY <1>6
<1>. QED
  BY <1>5, <1>7

LEMMA RemovedFromBelow ==
  ASSUME NEW n \in 0..Count
  PROVE  WithoutGenerated([lines |-> Below(n), ended |-> TRUE])
           = [lines |-> Lines(n), ended |-> TRUE]
<1>. DEFINE t == [lines |-> Below(n), ended |-> TRUE]
<1>1. n \in Nat /\ n + 3 \in Nat /\ n <= n + 3
  BY NamesOf
<1>2. DOMAIN t.lines = 1..(n + 3) /\ Len(t.lines) = n + 3
  BY LinesOf DEF Below
<1>3. \A i \in 1..n : t.lines[i] = {Names[i]}
  <2>1. \A i \in 1..n : i \in 1..(n + 3) /\ i <= n
    BY <1>1
  <2>. QED
    BY <2>1 DEF Below
<1>4. ASSUME NEW i \in 1..(n + 3), i > n
      PROVE  t.lines[i] \cap ToSet(Generated) # {}
  <2>1. ~ (i <= n) /\ (i - n = 1 \/ i - n = 2 \/ i - n = 3)
    BY <1>1, <1>4
  <2>2. t.lines[i] = {Generated[i - n]}
    BY <2>1 DEF Below
  <2>. QED
    BY <2>1, <2>2, GeneratedOf
<1>5. WithoutGenerated(t)
        = [lines |-> Lines(n), ended |-> n = 0 \/ {Names[n]} # t.lines[n + 3] \/ t.ended]
  BY <1>1, <1>2, <1>3, <1>4, Removed
<1>. QED
  BY <1>5

LEMMA RemovedFromBeside ==
  WithoutGenerated([lines |-> Beside, ended |-> TRUE]) = Shorter
<1>. DEFINE t == [lines |-> Beside, ended |-> TRUE]
            k == Count - 1
            m == Count + 2
<1>1. k \in 0..Count /\ m \in Nat /\ k <= m /\ Count \in Nat /\ Count >= 1
  BY NamesOf
<1>2. DOMAIN t.lines = 1..m /\ Len(t.lines) = m
  BY LinesOf DEF Beside
<1>3. \A i \in 1..k : t.lines[i] = {Names[i]}
  <2>1. \A i \in 1..k : i \in 1..m /\ i < Count
    BY <1>1
  <2>. QED
    BY <2>1 DEF Beside
<1>4. ASSUME NEW i \in 1..m, i > k
      PROVE  t.lines[i] \cap ToSet(Generated) # {}
  <2>1. CASE i = Count
    <3>1. t.lines[i] = {Names[Count], Generated[1]}
      BY <1>1, <2>1 DEF Beside
    <3>. QED
      BY <3>1, GeneratedOf
  <2>2. CASE i # Count
    <3>1. ~ (i < Count) /\ ((i - Count) + 1 = 2 \/ (i - Count) + 1 = 3)
      BY <1>1, <1>4, <2>2
    <3>2. t.lines[i] = {Generated[(i - Count) + 1]}
      BY <2>2, <3>1 DEF Beside
    <3>. QED
      BY <3>1, <3>2, GeneratedOf
  <2>. QED
    BY <2>1, <2>2
<1>. HIDE DEF k, m
<1>5. WithoutGenerated(t)
        = [lines |-> Lines(k), ended |-> k = 0 \/ {Names[k]} # t.lines[m] \/ t.ended]
  BY <1>1, <1>2, <1>3, <1>4, Removed
<1>. QED
  BY <1>5 DEF Shorter, k

\* The texts there are.
LEMMA TextsOf ==
  /\ UserText = {User(TRUE), User(FALSE)} /\ UserText \subseteq Bases
  /\ Empty = [lines |-> Lines(0), ended |-> TRUE]
  /\ WithGenerated(User(TRUE)) = [lines |-> Below(Count), ended |-> TRUE]
  /\ \A u \in UserText : u # Empty /\ WithoutGenerated(u) = u
  /\ WithGenerated(User(TRUE)) # Empty
  /\ WithoutGenerated(WithGenerated(User(TRUE))) = User(TRUE)
  /\ \A t \in Bases \cup Full : WithoutGenerated(t) \in Bases
  /\ \A t \in Full : \/ \E n \in 0..Count : t = [lines |-> Below(n), ended |-> TRUE]
                     \/ t = [lines |-> Beside, ended |-> TRUE]
  /\ \A t \in Bases : \E n \in 0..Count : t.lines = Lines(n) /\ t = [lines |-> Lines(n), ended |-> t.ended]
                                          /\ t.ended \in BOOLEAN
<1>1. /\ Count \in Nat /\ Count >= 1 /\ Count \in 0..Count /\ 0 \in 0..Count
      /\ Count - 1 \in 0..Count
  BY NamesOf
<1>2. UserText = {User(TRUE), User(FALSE)}
  <2>1. [i \in 1..Cardinality(Setting) |-> {SetToSeq(Setting)[i]}] = Lines(Count)
    BY DEF Lines, Count, Names
  <2>2. UserText = [lines : {Lines(Count)}, ended : BOOLEAN]
    BY <2>1 DEF UserText
  <2>3. ASSUME NEW t \in UserText PROVE t \in {User(TRUE), User(FALSE)}
    <3>1. t = [lines |-> Lines(Count), ended |-> t.ended] /\ t.ended \in BOOLEAN
      BY <2>2
    <3>2. t.ended = TRUE \/ t.ended = FALSE
      BY <3>1
    <3>. QED
      BY <3>1, <3>2 DEF User
  <2>4. User(TRUE) \in UserText /\ User(FALSE) \in UserText
    BY <2>2 DEF User
  <2>. QED
    BY <2>3, <2>4
<1>3. Empty = [lines |-> Lines(0), ended |-> TRUE]
  BY DEF Empty, Lines
<1>4. /\ WithGenerated(User(TRUE)) = [lines |-> Below(Count), ended |-> TRUE]
      /\ WithGenerated(Shorter) = [lines |-> Below(Count - 1), ended |-> TRUE]
      /\ WithGenerated(Empty) = [lines |-> Below(0), ended |-> TRUE]
      /\ WithGenerated(User(FALSE)) = [lines |-> Beside, ended |-> TRUE]
  <2>1. /\ User(TRUE).lines = Lines(Count) /\ User(TRUE).ended
        /\ Shorter.lines = Lines(Count - 1) /\ Shorter.ended
        /\ Empty.lines = Lines(0) /\ Empty.ended
    BY <1>3 DEF User, Shorter
  <2>. QED
    BY <1>1, <2>1, AddedBelow, AddedBeside
<1>5. WithoutGenerated(User(TRUE)) = User(TRUE) /\ WithoutGenerated(User(FALSE)) = User(FALSE)
  <2>1. Count # 0
    BY <1>1
  <2>. QED
    BY <1>1, <2>1, RemovedFromBase DEF User
<1>6. WithoutGenerated(Shorter) = Shorter /\ WithoutGenerated(Empty) = Empty
  BY <1>1, <1>3, RemovedFromBase DEF Shorter
<1>7. /\ WithoutGenerated(WithGenerated(User(TRUE))) = User(TRUE)
      /\ WithoutGenerated(WithGenerated(Shorter)) = Shorter
      /\ WithoutGenerated(WithGenerated(Empty)) = Empty
      /\ WithoutGenerated(WithGenerated(User(FALSE))) = Shorter
  BY <1>1, <1>3, <1>4, RemovedFromBelow, RemovedFromBeside DEF User, Shorter
<1>8. \A t \in Bases \cup Full : WithoutGenerated(t) \in Bases
  BY <1>5, <1>6, <1>7 DEF Bases, Full
<1>9. /\ Len(Lines(Count)) = Count /\ Len(Below(Count)) = Count + 3 /\ Len(Lines(0)) = 0
  BY <1>1, LinesOf
<1>a. Lines(Count) # Lines(0) /\ Below(Count) # Lines(0)
  <2>1. Count # 0 /\ Count + 3 # 0
    BY <1>1
  <2>. QED
    BY <1>9, <2>1
<1>10. User(TRUE) # Empty /\ User(FALSE) # Empty
  BY <1>3, <1>a DEF User
<1>11. WithGenerated(User(TRUE)) # Empty
  <2>1. [lines |-> Below(Count), ended |-> TRUE] # [lines |-> Lines(0), ended |-> TRUE]
    BY <1>a
  <2>. QED
    BY <1>3, <1>4, <2>1
<1>12. \A t \in Full : \/ \E n \in 0..Count : t = [lines |-> Below(n), ended |-> TRUE]
                       \/ t = [lines |-> Beside, ended |-> TRUE]
  BY <1>1, <1>4 DEF Full, Bases
<1>13. \A t \in Bases : \E n \in 0..Count :
          t.lines = Lines(n) /\ t = [lines |-> Lines(n), ended |-> t.ended] /\ t.ended \in BOOLEAN
  <2>1. ASSUME NEW n \in 0..Count, NEW e \in BOOLEAN, NEW t, t = [lines |-> Lines(n), ended |-> e]
        PROVE  \E k \in 0..Count :
                 t.lines = Lines(k) /\ t = [lines |-> Lines(k), ended |-> t.ended] /\ t.ended \in BOOLEAN
    BY <2>1
  <2>2. \A t \in Bases : \E n \in 0..Count, e \in BOOLEAN : t = [lines |-> Lines(n), ended |-> e]
    BY <1>1, <1>3 DEF Bases, User, Shorter
  <2>. QED
    BY <2>1, <2>2
<1>14. UserText \subseteq Bases
  BY <1>2 DEF Bases
<1>. QED
  BY <1>2, <1>3, <1>4, <1>5, <1>7, <1>8, <1>10, <1>11, <1>12, <1>13, <1>14

\* No name is twice in them.
LEMMA TextsTyped == Bases \cup Full \subseteq Text
<1>1. Count \in Nat
  BY NamesOf
<1>2. ASSUME NEW n \in 0..Count, NEW e \in BOOLEAN
      PROVE  [lines |-> Lines(n), ended |-> e] \in Text
  <2>1. Lines(n) \in Seq(Line) /\ Len(Lines(n)) = n
    BY LinesOf
  <2>2. ASSUME NEW i \in 1..n, NEW j \in 1..n, i # j PROVE Lines(n)[i] \cap Lines(n)[j] = {}
    <3>1. i \in 1..Count /\ j \in 1..Count
      BY <1>1
    <3>2. Names[i] # Names[j]
      BY <2>2, <3>1, NamesOf
    <3>. QED
      BY <3>2 DEF Lines
  <2>. QED
    BY <2>1, <2>2 DEF Text
<1>3. ASSUME NEW n \in 0..Count PROVE [lines |-> Below(n), ended |-> TRUE] \in Text
  <2>1. Below(n) \in Seq(Line) /\ Len(Below(n)) = n + 3
    BY LinesOf
  <2>2. ASSUME NEW i \in 1..(n + 3), NEW j \in 1..(n + 3), i # j
        PROVE  Below(n)[i] \cap Below(n)[j] = {}
    <3>1. /\ \A k \in 1..(n + 3) : k <= n => k \in 1..Count
          /\ \A k \in 1..(n + 3) : ~ (k <= n) => k - n = 1 \/ k - n = 2 \/ k - n = 3
          /\ i - n # j - n
      BY <1>1, <2>2
    <3>2. CASE i <= n /\ j <= n
      <4>1. Names[i] # Names[j]
        BY <2>2, <3>1, <3>2, NamesOf
      <4>. QED
        BY <3>2, <4>1 DEF Below
    <3>3. CASE i <= n /\ ~ (j <= n)
      <4>1. Names[i] # Generated[j - n]
        BY <3>1, <3>3, GeneratedOf
      <4>. QED
        BY <3>3, <4>1 DEF Below
    <3>4. CASE ~ (i <= n) /\ j <= n
      <4>1. Names[j] # Generated[i - n]
        BY <3>1, <3>4, GeneratedOf
      <4>. QED
        BY <3>4, <4>1 DEF Below
    <3>5. CASE ~ (i <= n) /\ ~ (j <= n)
      <4>1. Generated[i - n] # Generated[j - n]
        BY <3>1, <3>5, GeneratedOf
      <4>. QED
        BY <3>5, <4>1 DEF Below
    <3>. QED
      BY <3>2, <3>3, <3>4, <3>5
  <2>. QED
    BY <2>1, <2>2 DEF Text
<1>4. [lines |-> Beside, ended |-> TRUE] \in Text
  <2>1. Beside \in Seq(Line) /\ Len(Beside) = Count + 2
    BY LinesOf
  <2>a. ASSUME NEW i \in 1..(Count + 2), NEW j \in 1..(Count + 2), i < j
        PROVE  Beside[i] \cap Beside[j] = {}
    <3>1. CASE j < Count
      <4>1. i \in 1..Count /\ j \in 1..Count /\ i < Count /\ i # j
        BY <1>1, <2>a, <3>1
      <4>2. Names[i] # Names[j]
        BY <4>1, NamesOf
      <4>. QED
        BY <3>1, <4>1, <4>2 DEF Beside
    <3>2. CASE j = Count
      <4>1. i \in 1..Count /\ Count \in 1..Count /\ i < Count /\ i # Count /\ ~ (Count < Count)
        BY <1>1, <2>a, <3>2
      <4>2. Names[i] # Names[Count] /\ Names[i] # Generated[1]
        BY <4>1, NamesOf, GeneratedOf
      <4>. QED
        BY <3>2, <4>1, <4>2 DEF Beside
    <3>3. CASE j > Count
      <4>1. ~ (j < Count) /\ j # Count /\ ((j - Count) + 1 = 2 \/ (j - Count) + 1 = 3)
        BY <1>1, <3>3
      <4>2. Beside[j] = {Generated[(j - Count) + 1]}
        BY <4>1 DEF Beside
      <4>3. CASE i < Count
        <5>1. i \in 1..Count
          BY <1>1, <4>3
        <5>2. Beside[i] = {Names[i]} /\ Names[i] # Generated[(j - Count) + 1]
          BY <4>1, <4>3, <5>1, GeneratedOf DEF Beside
        <5>. QED
          BY <4>2, <5>2
      <4>4. CASE i = Count
        <5>1. Count \in 1..Count /\ ~ (Count < Count)
          BY <1>1, <4>4
        <5>2. /\ Beside[i] = {Names[Count], Generated[1]}
              /\ Names[Count] # Generated[(j - Count) + 1]
              /\ Generated[1] # Generated[(j - Count) + 1]
          BY <4>1, <4>4, <5>1, GeneratedOf DEF Beside
        <5>. QED
          BY <4>2, <5>2
      <4>5. CASE i > Count
        <5>1. ~ (i < Count) /\ i # Count /\ (i - Count) + 1 = 2 /\ (j - Count) + 1 = 3
          BY <1>1, <2>a, <4>5
        <5>2. Beside[i] = {Generated[2]} /\ Beside[j] = {Generated[3]}
          BY <4>1, <5>1 DEF Beside
        <5>. QED
          BY <5>2, GeneratedOf
      <4>. QED
        BY <1>1, <4>3, <4>4, <4>5
    <3>. QED
      BY <1>1, <3>1, <3>2, <3>3
  <2>2. ASSUME NEW i \in 1..(Count + 2), NEW j \in 1..(Count + 2), i # j
        PROVE  Beside[i] \cap Beside[j] = {}
    <3>1. i < j \/ j < i
      BY <1>1, <2>2
    <3>. QED
      BY <2>a, <3>1
  <2>. QED
    BY <2>1, <2>2 DEF Text
<1>5. Full \subseteq Text
  BY <1>3, <1>4, TextsOf
<1>6. Bases \subseteq Text
  BY <1>2, TextsOf
<1>. QED
  BY <1>5, <1>6

\* What can be read from them.
ReadFrom(t, name) == \E i \in 1..Len(t.lines) : t.lines[i] = {name}

LEMMA Reading ==
  /\ \A u \in UserText, s \in Setting : ReadFrom(u, s)
  /\ \A s \in Setting : ReadFrom(WithGenerated(User(TRUE)), s)
  /\ \A t \in Bases : ~ ReadFrom(t, Generated[1])
  /\ \A name : ~ ReadFrom(Empty, name)
<1>1. Count \in Nat /\ Count \in 0..Count /\ 0 \in 0..Count
  BY NamesOf
<1>2. ASSUME NEW s \in Setting
      PROVE  \E i \in 1..Count : Lines(Count)[i] = {s} /\ Below(Count)[i] = {s}
  <2>1. PICK i \in 1..Count : Names[i] = s
    BY NamesOf
  <2>2. i \in 1..(Count + 3) /\ i <= Count
    BY <1>1
  <2>. QED
    BY <2>1, <2>2 DEF Lines, Below
<1>3. Len(Lines(Count)) = Count /\ Len(Below(Count)) = Count + 3 /\ Len(Lines(0)) = 0
  BY <1>1, LinesOf
<1>4. ASSUME NEW u \in UserText, NEW s \in Setting PROVE ReadFrom(u, s)
  <2>1. u.lines = Lines(Count)
    BY TextsOf DEF User
  <2>. QED
    BY <1>2, <1>3, <2>1 DEF ReadFrom
<1>5. ASSUME NEW s \in Setting PROVE ReadFrom(WithGenerated(User(TRUE)), s)
  <2>a. WithGenerated(User(TRUE)) = [lines |-> Below(Count), ended |-> TRUE]
    BY TextsOf
  <2>b. [lines |-> Below(Count), ended |-> TRUE].lines = Below(Count)
    OBVIOUS
  <2>1. WithGenerated(User(TRUE)).lines = Below(Count)
    BY <2>a, <2>b, Zenon
  <2>2. \A i \in 1..Count : i \in 1..(Count + 3)
    BY <1>1
  <2>. QED
    BY <1>2, <1>3, <2>1, <2>2 DEF ReadFrom
<1>6. ASSUME NEW t \in Bases PROVE ~ ReadFrom(t, Generated[1])
  <2>1. PICK n \in 0..Count : t.lines = Lines(n)
    BY TextsOf
  <2>2. Len(t.lines) = n /\ \A i \in 1..n : i \in 1..Count
    BY <1>1, <2>1, LinesOf
  <2>3. \A i \in 1..n : t.lines[i] = {Names[i]} /\ Names[i] # Generated[1]
    BY <2>1, <2>2, GeneratedOf DEF Lines
  <2>. QED
    BY <2>2, <2>3 DEF ReadFrom
<1>7. \A name : ~ ReadFrom(Empty, name)
  <2>1. Empty.lines = Lines(0)
    BY TextsOf
  <2>. QED
    BY <1>3, <2>1 DEF ReadFrom
<1>. QED
  BY <1>4, <1>5, <1>6, <1>7

-----------------------------------------------------------------------------
(* The invariants of the configuration.                                    *)

LEMMA InitConfig == ASSUME ConfigInit PROVE CountersOK /\ TextsOK /\ KeptOK /\ FilledAt
<1>1. /\ at = "none" /\ command = "none" /\ exit = "none" /\ edits = 0 /\ cuts = 0
      /\ unended = FALSE /\ badInit = {} /\ runs = 0 /\ DOMAIN dirs = {}
      /\ env \in UserText /\ held = Empty /\ hash = Empty
      /\ target = [home |-> RootHome, name |-> Empty] /\ volume = Empty /\ home \in Home
  BY DEF ConfigInit, Init
<1>2. CountersOK
  <2>1. 0 \in 0..MaxRuns /\ 0 \in 0..MaxEdits
    BY RunsAssumption, EditsAssumption
  <2>2. ~ (command = "configure")
    BY <1>1
  <2>3. cuts \in Nat /\ cuts <= runs
    BY <1>1
  <2>4. unended \in BOOLEAN
    BY <1>1, Zenon
  <2>. QED
    BY <1>1, <2>1, <2>2, <2>3, <2>4 DEF CountersOK
<1>3. env \in Bases /\ env # Empty
  BY <1>1, TextsOf
<1>4. Empty \in Bases
  BY DEF Bases
<1>5. TextsOK
  BY <1>1, <1>3, <1>4 DEF TextsOK, Recreated
<1>6. KeptOK
  BY <1>1, <1>3 DEF KeptOK, TextsFrom, Recreated
<1>7. ~ AllGenerated
  <2>1. ~ ReadFrom(env, Generated[1])
    BY <1>3, Reading
  <2>. QED
    BY <2>1, GeneratedOf DEF AllGenerated, Alone, ReadFrom
<1>8. FilledAt
  BY <1>1, <1>7 DEF FilledAt
<1>. QED
  BY <1>2, <1>5, <1>6, <1>8

\* Where ConfigStep is, and what it counts.
LEMMA NextCounters == ASSUME CountersOK, [Next]_vars PROVE CountersOK'
<1>. USE DEF CountersOK
<1>1. ASSUME Build, UNCHANGED configVars PROVE CountersOK'
  <2>1. UNCHANGED <<home, at, exit, edits, cuts, unended>>
    BY <1>1 DEF configVars
  <2>2. at = "none"
    BY <1>1 DEF Build, StartBuild, BuildStep, BuildFails, Interrupt, LeftUndone
  <2>3. command' \in {"none", "build"}
    BY <1>1 DEF Build, StartBuild, BuildStep, BuildFails, Interrupt, LeftUndone, NextLib
  <2>4. runs' \in 0..MaxRuns /\ runs <= runs'
    BY <1>1, RunsAssumption DEF Build, StartBuild, BuildStep, BuildFails, Interrupt, LeftUndone
  <2>. QED
    BY <2>1, <2>2, <2>3, <2>4, RunsAssumption
<1>2. ASSUME EditEnv PROVE CountersOK'
  BY <1>2, EditsAssumption DEF EditEnv
<1>3. ASSUME NEW args \in Arguments, RunConfig(args) PROVE CountersOK'
  <2>1. /\ runs' = runs + 1 /\ runs' \in 0..MaxRuns /\ UNCHANGED <<home, edits, cuts, unended>>
        /\ cuts < runs' /\ cuts <= runs'
    BY <1>3, RunsAssumption DEF RunConfig
  <2>2. \/ command' = "configure" /\ at' = "recreate" /\ exit' = "none"
        \/ UNCHANGED <<command, at>> /\ exit' \in {"ok", "error"} /\ at = "none"
    BY <1>3 DEF RunConfig
  <2>. QED
    BY <2>1, <2>2
<1>4. ASSUME ConfigStep PROVE CountersOK'
  <2>1. UNCHANGED <<home, runs, edits, cuts>> /\ command = "configure" /\ at # "none"
        /\ command' = IF at' = "none" THEN "none" ELSE command
    BY <1>4 DEF ConfigStep
  <2>2. /\ at' \in {"none", "recreating", "updating"} \cup Recreated
        /\ exit' \in {exit, "ok"}
    BY <1>4
    DEF ConfigStep, RecreateEnvfile, MakeRoot, ReadConfig, InitValidator, EditToml, AddTags,
        CopyRedisConf, SetPort, UpdateEnvfile, Return, Fill, Recreated
  <2>3. unended' \in BOOLEAN
    BY <1>4
    DEF ConfigStep, RecreateEnvfile, MakeRoot, ReadConfig, InitValidator, EditToml, AddTags,
        CopyRedisConf, SetPort, UpdateEnvfile, Return, Fill
  <2>. QED
    BY <2>1, <2>2, <2>3 DEF Recreated
<1>5. ASSUME ConfigFails PROVE CountersOK'
  <2>1. /\ UNCHANGED <<home, runs, edits, unended>> /\ at' = "none" /\ command' = "none"
        /\ exit' \in {"ok", "error"} /\ cuts' \in {cuts, cuts + 1} /\ at # "none"
    BY <1>5 DEF ConfigFails
  <2>2. cuts' \in Nat /\ cuts' <= runs
    BY <2>1
  <2>. QED
    BY <2>1, <2>2
<1>6. ASSUME UNCHANGED vars PROVE CountersOK'
  BY <1>6 DEF vars, configVars
<1>. QED
  BY <1>1, <1>2, <1>3, <1>4, <1>5, <1>6 DEF Next

LEMMA NextTexts == ASSUME CountersOK, TextsOK, [Next]_vars PROVE TextsOK'
<1>a. Empty \in Bases
  BY DEF Bases
<1>1. ASSUME UNCHANGED configVars PROVE TextsOK'
  BY <1>1 DEF TextsOK, configVars, envVars
<1>2. ASSUME EditEnv PROVE TextsOK'
  <2>1. at = "none" /\ env' \in Bases
    BY <1>2, TextsOf DEF EditEnv, CountersOK
  <2>. QED
    BY <1>2, <2>1 DEF EditEnv, TextsOK, Recreated, envVars
<1>3. ASSUME NEW args \in Arguments, RunConfig(args) PROVE TextsOK'
  BY <1>3 DEF RunConfig, TextsOK, CountersOK, Recreated, envVars
<1>4. ASSUME ConfigStep PROVE TextsOK'
  <2>1. CASE RecreateEnvfile
    <3>1. WithoutGenerated(env) \in Bases
      BY TextsOf DEF TextsOK
    <3>. QED
      BY <1>a, <2>1, <3>1 DEF RecreateEnvfile, Truncate, TextsOK, Recreated, envVars
  <2>2. CASE MakeRoot
    <3>1. held \in Bases /\ env' = held /\ hash' = held /\ at' = "config"
          /\ UNCHANGED <<target, volume, held>>
      BY <2>2 DEF MakeRoot, TextsOK, envVars
    <3>2. DOMAIN dirs' \subseteq DOMAIN dirs \cup {held}
      BY <2>2 DEF MakeRoot
    <3>. QED
      BY <3>1, <3>2 DEF TextsOK, Recreated
  <2>3. CASE ReadConfig \/ InitValidator \/ EditToml \/ AddTags \/ CopyRedisConf \/ SetPort
    <3>1. /\ UNCHANGED <<env, target, volume, held, hash>> /\ DOMAIN dirs' = DOMAIN dirs
          /\ at \in Recreated /\ at' \in Recreated
      BY <2>3
      DEF ReadConfig, InitValidator, EditToml, AddTags, CopyRedisConf, SetPort, Fill, Recreated,
          envVars
    <3>2. at' \notin {"recreating", "updating"}
      BY <3>1 DEF Recreated
    <3>. QED
      BY <3>1, <3>2 DEF TextsOK
  <2>4. CASE UpdateEnvfile
    <3>1. env \in Bases
      BY <2>4 DEF UpdateEnvfile, TextsOK, Recreated
    <3>2. WithGenerated(env) \in Full
      BY <3>1 DEF Full
    <3>. QED
      BY <1>a, <2>4, <3>2 DEF UpdateEnvfile, Truncate, TextsOK, Recreated, envVars
  <2>5. CASE Return
    BY <2>5 DEF Return, TextsOK, Recreated
  <2>. QED
    BY <1>4, <2>1, <2>2, <2>3, <2>4, <2>5 DEF ConfigStep
<1>5. ASSUME ConfigFails PROVE TextsOK'
  BY <1>5 DEF ConfigFails, TextsOK, Recreated, envVars
<1>. QED
  BY <1>1, <1>2, <1>3, <1>4, <1>5 DEF Next, vars

\* The texts stay among those made from us, unless a line has run together.
LEMMA NextFrom ==
  ASSUME CountersOK, TextsOK, at = "recreate" => Alone(Project),
         NEW us \in SUBSET UserText, TextsFrom(us), ~ unended',
         \/ UNCHANGED configVars
         \/ EditEnv /\ us = UserText
         \/ (\E args \in Arguments : RunConfig(args)) \/ ConfigStep \/ ConfigFails
  PROVE  TextsFrom(us)'
<1>1. CASE UNCHANGED configVars
  BY <1>1 DEF TextsFrom, configVars
<1>2. CASE EditEnv /\ us = UserText
  <2>1. at = "none" /\ env' \in us /\ env' # Empty
    BY <1>2, TextsOf DEF EditEnv, CountersOK
  <2>. QED
    BY <1>2, <2>1 DEF EditEnv, TextsFrom, Recreated
<1>3. ASSUME NEW args \in Arguments, RunConfig(args) PROVE TextsFrom(us)'
  BY <1>3 DEF RunConfig, TextsFrom, CountersOK, Recreated
<1>4. CASE ConfigStep
  <2>1. CASE RecreateEnvfile
    <3>1. env # Empty
      <4>1. ReadFrom(env, Project)
        BY <2>1 DEF RecreateEnvfile, Alone, ReadFrom
      <4>. QED
        BY <4>1, Reading
    <3>2. WithoutGenerated(env) \in us
      <4>1. CASE env \in us
        <5>1. WithoutGenerated(env) = env
          BY <4>1, TextsOf
        <5>. QED
          BY <4>1, <5>1
      <4>2. CASE env \in Whole(us)
        <5>1. PICK u \in us : u.ended /\ env = WithGenerated(u)
          BY <4>2 DEF Whole
        <5>2. u = User(TRUE)
          <6>1. u \in {User(TRUE), User(FALSE)}
            BY TextsOf
          <6>. QED
            BY <5>1, <6>1 DEF User
        <5>. QED
          BY <5>1, <5>2, TextsOf
      <4>. QED
        BY <3>1, <4>1, <4>2 DEF TextsFrom
    <3>. QED
      BY <2>1, <3>2 DEF RecreateEnvfile, Truncate, TextsFrom, Recreated
  <2>2. CASE MakeRoot
    <3>1. held \in us /\ env' = held /\ at' = "config" /\ UNCHANGED held
      BY <2>2 DEF MakeRoot, TextsFrom
    <3>2. DOMAIN dirs' \subseteq DOMAIN dirs \cup {held}
      BY <2>2 DEF MakeRoot
    <3>3. held # Empty
      BY <3>1, TextsOf
    <3>. QED
      BY <3>1, <3>2, <3>3 DEF TextsFrom, Recreated
  <2>3. CASE ReadConfig \/ InitValidator \/ EditToml \/ AddTags \/ CopyRedisConf \/ SetPort
    <3>1. /\ UNCHANGED <<env, held, cuts>> /\ DOMAIN dirs' = DOMAIN dirs
          /\ at \in Recreated /\ at' \in Recreated
      BY <1>4, <2>3
      DEF ConfigStep, ReadConfig, InitValidator, EditToml, AddTags, CopyRedisConf, SetPort,
          Fill, Recreated
    <3>2. at \notin {"recreating", "updating"} /\ at' \notin {"recreating", "updating"}
      BY <3>1 DEF Recreated
    <3>. QED
      BY <3>1, <3>2 DEF TextsFrom
  <2>4. CASE UpdateEnvfile
    <3>1. env \in us /\ env.ended
      BY <2>4 DEF UpdateEnvfile, TextsFrom, Recreated
    <3>2. WithGenerated(env) \in Whole(us)
      BY <3>1 DEF Whole
    <3>. QED
      BY <2>4, <3>2 DEF UpdateEnvfile, Truncate, TextsFrom, Recreated
  <2>5. CASE Return
    <3>1. held \in Whole(us)
      BY <2>5 DEF Return, TextsFrom
    <3>2. held # Empty
      <4>1. PICK u \in us : u.ended /\ held = WithGenerated(u)
        BY <3>1 DEF Whole
      <4>2. u = User(TRUE)
        <5>1. u \in {User(TRUE), User(FALSE)}
          BY TextsOf
        <5>. QED
          BY <4>1, <5>1 DEF User
      <4>. QED
        BY <4>1, <4>2, TextsOf
    <3>. QED
      BY <2>5, <3>1, <3>2 DEF Return, TextsFrom, Recreated
  <2>. QED
    BY <1>4, <2>1, <2>2, <2>3, <2>4, <2>5 DEF ConfigStep
<1>5. CASE ConfigFails
  <2>1. /\ UNCHANGED <<env, held, dirs>> /\ at' = "none"
        /\ cuts' = IF at \in {"recreating", "updating"} THEN cuts + 1 ELSE cuts
    BY <1>5 DEF ConfigFails
  <2>2. cuts' = 0 => cuts = 0 /\ at \notin {"recreating", "updating"}
    BY <2>1 DEF CountersOK
  <2>. QED
    BY <2>1, <2>2 DEF TextsFrom, Recreated
<1>. QED
  BY <1>1, <1>2, <1>3, <1>4, <1>5

LEMMA NextKept == ASSUME CountersOK, TextsOK, KeptOK, [Next]_vars PROVE KeptOK'
<1>1. (at = "recreate" => Alone(Project))'
  <2>1. CASE UNCHANGED configVars
    BY <2>1 DEF KeptOK, Alone, configVars
  <2>2. CASE EditEnv
    BY <2>2 DEF EditEnv, CountersOK
  <2>3. ASSUME NEW args \in Arguments, RunConfig(args) PROVE (at = "recreate" => Alone(Project))'
    BY <2>3 DEF RunConfig, CountersOK, Alone
  <2>4. CASE ConfigStep \/ ConfigFails
    BY <2>4
    DEF ConfigStep, RecreateEnvfile, MakeRoot, ReadConfig, InitValidator, EditToml, AddTags,
        CopyRedisConf, SetPort, UpdateEnvfile, Return, Fill, ConfigFails
  <2>. QED
    BY <2>1, <2>2, <2>3, <2>4 DEF Next, vars
<1>2. \/ UNCHANGED configVars \/ EditEnv
      \/ (\E args \in Arguments : RunConfig(args)) \/ ConfigStep \/ ConfigFails
  BY DEF Next, vars
<1>3. unended => unended'
  BY <1>2
  DEF configVars, EditEnv, RunConfig, ConfigStep, RecreateEnvfile, MakeRoot, ReadConfig,
      InitValidator, EditToml, AddTags, CopyRedisConf, SetPort, UpdateEnvfile, Return, Fill,
      ConfigFails
<1>4. (UserText = UserText') /\ UserText \in SUBSET UserText
  BY DEF UserText
<1>5. ASSUME ~ unended' PROVE TextsFrom(UserText)'
  <2>1. TextsFrom(UserText)
    BY <1>3, <1>5 DEF KeptOK
  <2>. QED
    BY <1>2, <1>4, <1>5, <2>1, NextFrom DEF KeptOK
<1>6. ASSUME ~ unended', edits' = 0 PROVE \E u \in UserText : TextsFrom({u})'
  <2>1. edits = 0 /\ ~ EditEnv
    BY <1>2, <1>6
    DEF configVars, EditEnv, RunConfig, ConfigStep, ConfigFails, CountersOK
  <2>2. PICK u \in UserText : TextsFrom({u})
    BY <1>3, <1>6, <2>1 DEF KeptOK
  <2>. DEFINE us == {u}
  <2>3. us \in SUBSET UserText /\ TextsFrom(us) /\ (at = "recreate" => Alone(Project))
    BY <2>2 DEF KeptOK
  <2>. HIDE DEF us
  <2>a. \/ UNCHANGED configVars
        \/ EditEnv /\ us = UserText
        \/ (\E args \in Arguments : RunConfig(args)) \/ ConfigStep \/ ConfigFails
    BY <1>2, <2>1
  <2>4. TextsFrom(us)'
    BY <1>6, <2>3, <2>a, NextFrom
  <2>. QED
    BY <2>4 DEF us
<1>. QED
  BY <1>1, <1>5, <1>6 DEF KeptOK

\* A text without generated lines does not have them all.
LEMMA NotAllGenerated == ASSUME env' \in Bases PROVE ~ AllGenerated'
<1>1. ~ ReadFrom(env', Generated[1])
  BY Reading
<1>. QED
  BY <1>1, GeneratedOf DEF AllGenerated, Alone, ReadFrom

\* A step of the filling keeps what the steps before it have done.
LEMMA FillStep ==
  ASSUME DirsOK, FilledAt, env' \in Bases, hash \in DOMAIN dirs,
         NEW d, dirs' = [dirs EXCEPT ![hash] = d], UNCHANGED hash,
         badInit' \in {badInit, badInit \cup {hash}},
         at' \in {"toml", "tags", "conf", "port", "update"},
         d.keys # "none" \/ hash \in badInit',
         at' \in {"tags", "conf", "port", "update"} => d.edited,
         at' \in {"conf", "port", "update"} => d.tags = 1,
         at' \in {"port", "update"} => d.conf,
         at' = "update" => d.port
  PROVE  FilledAt'
<1>1. /\ dirs'[hash] = d /\ DOMAIN dirs' = DOMAIN dirs /\ hash' = hash
      /\ badInit' \subseteq DOMAIN dirs'
  BY DEF FilledAt, DirsOK
<1>2. ~ AllGenerated'
  BY NotAllGenerated
<1>. QED
  BY <1>1, <1>2 DEF FilledAt, Ready

LEMMA NextFilled ==
  ASSUME IInv, CountersOK, TextsOK, TextsOK', FilledAt, [Next]_vars
  PROVE  FilledAt'
<1>a. /\ DirsOK /\ tool \in {"none", "plain", "patched"}
      /\ \A t \in DOMAIN dirs : dirs[t] \in RootDir
  BY DEF IInv, BuildInv, Patched, DirsOK
<1>1. ASSUME UNCHANGED configVars PROVE FilledAt'
  BY <1>1 DEF FilledAt, Ready, Filled, AllGenerated, Alone, configVars, envVars
<1>2. ASSUME EditEnv PROVE FilledAt'
  <2>1. /\ at = "none" /\ env' \in Bases
        /\ UNCHANGED <<target, volume, hash, at, dirs, badInit>>
    BY <1>2, TextsOf DEF EditEnv, CountersOK, envVars
  <2>2. ~ AllGenerated'
    BY <2>1, NotAllGenerated
  <2>. QED
    BY <2>1, <2>2 DEF FilledAt
<1>3. ASSUME NEW args \in Arguments, RunConfig(args) PROVE FilledAt'
  <2>1. /\ UNCHANGED <<env, target, volume, hash, dirs, badInit>>
        /\ at = "none" /\ at' \in {"none", "recreate"}
    BY <1>3 DEF RunConfig, CountersOK, envVars
  <2>. QED
    BY <2>1 DEF FilledAt, Filled, Ready, AllGenerated, Alone
<1>4. ASSUME ConfigStep PROVE FilledAt'
  <2>a. Empty \in Bases
    BY DEF Bases
  <2>1. CASE RecreateEnvfile
    <3>1. /\ env' = Empty /\ at' = "recreating" /\ UNCHANGED <<hash, dirs, badInit>>
      BY <2>1 DEF RecreateEnvfile, Truncate
    <3>2. ~ AllGenerated'
      BY <2>a, <3>1, NotAllGenerated
    <3>. QED
      BY <3>1, <3>2 DEF FilledAt
  <2>2. CASE MakeRoot
    <3>1. /\ env' = held /\ hash' = held /\ at' = "config" /\ UNCHANGED badInit
          /\ held \in Bases /\ DOMAIN dirs' = DOMAIN dirs \cup {held}
      BY <2>2 DEF MakeRoot, TextsOK
    <3>2. ~ AllGenerated'
      BY <3>1, NotAllGenerated
    <3>. QED
      BY <3>1, <3>2 DEF FilledAt
  <2>3. CASE ReadConfig
    <3>1. /\ at = "config" /\ at' = "init" /\ UNCHANGED <<env, hash, dirs, badInit>>
      BY <2>3 DEF ReadConfig
    <3>2. env' \in Bases
      BY <3>1 DEF TextsOK, Recreated
    <3>3. ~ AllGenerated'
      BY <3>2, NotAllGenerated
    <3>. QED
      BY <3>1, <3>3 DEF FilledAt
  <2>4. CASE InitValidator
    <3>. DEFINE d == dirs[hash]
                keys == IF d.keys = "none" THEN tool ELSE d.keys
    <3>1. /\ at = "init" /\ at' = "toml" /\ tool # "none"
          /\ UNCHANGED <<env, hash>> /\ hash \in DOMAIN dirs
      BY <1>a, <2>4 DEF InitValidator, FilledAt
    <3>2. env' \in Bases
      BY <3>1 DEF TextsOK, Recreated
    <3>3. d \in RootDir /\ keys # "none"
      BY <1>a, <3>1 DEF RootDir
    <3>4. CASE dirs' = [dirs EXCEPT ![hash] = [d EXCEPT !.toml = TRUE, !.keys = keys]]
               /\ UNCHANGED badInit
      <4>. DEFINE e == [d EXCEPT !.toml = TRUE, !.keys = keys]
      <4>1. e.keys # "none"
        BY <3>3 DEF RootDir
      <4>. HIDE DEF d, keys
      <4>2. dirs' = [dirs EXCEPT ![hash] = e]
        BY <3>4
      <4>. HIDE DEF e
      <4>. QED
        BY <1>a, <3>1, <3>2, <3>4, <4>1, <4>2, FillStep
    <3>5. ASSUME NEW toml, dirs' = [dirs EXCEPT ![hash] = [d EXCEPT !.toml = toml]],
                 badInit' = badInit \cup {hash}
          PROVE  FilledAt'
      <4>. DEFINE e == [d EXCEPT !.toml = toml]
      <4>. HIDE DEF d
      <4>2. dirs' = [dirs EXCEPT ![hash] = e]
        BY <3>5
      <4>. HIDE DEF e
      <4>. QED
        BY <1>a, <3>1, <3>2, <3>5, <4>2, FillStep
    <3>. QED
      BY <2>4, <3>4, <3>5 DEF InitValidator
  <2>5. ASSUME NEW d, NEW next, Fill(d, next), hash \in DOMAIN dirs, at \in Recreated,
               next \in {"tags", "conf", "port", "update"},
               d.keys = dirs[hash].keys, at # "init", at # "config",
               d.edited,
               next \in {"conf", "port", "update"} => d.tags = 1,
               next \in {"port", "update"} => d.conf,
               next = "update" => d.port
        PROVE  FilledAt'
    <3>1. /\ dirs' = [dirs EXCEPT ![hash] = d] /\ at' = next
          /\ UNCHANGED <<env, hash, badInit>>
      BY <2>5 DEF Fill
    <3>2. env' \in Bases
      BY <2>5, <3>1 DEF TextsOK
    <3>3. d.keys # "none" \/ hash \in badInit'
      BY <2>5, <3>1 DEF FilledAt, Ready, Recreated
    <3>. QED
      BY <1>a, <2>5, <3>1, <3>2, <3>3, FillStep
  <2>b. at \in {"toml", "tags", "conf", "port"} =>
          /\ hash \in DOMAIN dirs /\ dirs[hash] \in RootDir /\ at \in Recreated
          /\ at # "init" /\ at # "config"
    BY <1>a DEF FilledAt, Recreated
  <2>6. CASE EditToml
    <3>. DEFINE d == [dirs[hash] EXCEPT !.edited = TRUE]
    <3>1. at = "toml" /\ Fill(d, "tags")
      BY <2>6 DEF EditToml
    <3>2. d.edited /\ d.keys = dirs[hash].keys
      BY <2>b, <3>1 DEF RootDir
    <3>. HIDE DEF d
    <3>. QED
      BY <2>5, <2>b, <3>1, <3>2
  <2>7. CASE AddTags
    <3>. DEFINE d == [dirs[hash] EXCEPT !.tags = IF @ = 0 THEN 1 ELSE @]
    <3>1. at = "tags" /\ Fill(d, "conf") /\ dirs[hash].edited
      BY <2>7 DEF AddTags, FilledAt
    <3>2. d.edited /\ d.keys = dirs[hash].keys /\ d.tags = 1
      BY <2>b, <3>1 DEF RootDir
    <3>. HIDE DEF d
    <3>. QED
      BY <2>5, <2>b, <3>1, <3>2
  <2>8. CASE CopyRedisConf
    <3>. DEFINE d == [dirs[hash] EXCEPT !.conf = TRUE, !.modules = modules, !.port = FALSE]
    <3>1. at = "conf" /\ Fill(d, "port") /\ dirs[hash].edited /\ dirs[hash].tags = 1
      BY <2>8 DEF CopyRedisConf, FilledAt
    <3>2. d.edited /\ d.keys = dirs[hash].keys /\ d.tags = 1 /\ d.conf
      BY <2>b, <3>1 DEF RootDir
    <3>. HIDE DEF d
    <3>. QED
      BY <2>5, <2>b, <3>1, <3>2
  <2>9. CASE SetPort
    <3>. DEFINE d == [dirs[hash] EXCEPT !.port = TRUE]
    <3>1. /\ at = "port" /\ Fill(d, "update") /\ dirs[hash].edited /\ dirs[hash].tags = 1
          /\ dirs[hash].conf
      BY <2>9 DEF SetPort, FilledAt
    <3>2. d.edited /\ d.keys = dirs[hash].keys /\ d.tags = 1 /\ d.conf /\ d.port
      BY <2>b, <3>1 DEF RootDir
    <3>. HIDE DEF d
    <3>. QED
      BY <2>5, <2>b, <3>1, <3>2
  <2>10. CASE UpdateEnvfile
    <3>1. /\ at = "update" /\ env' = Empty /\ at' = "updating"
          /\ UNCHANGED <<hash, dirs, badInit>>
      BY <2>10 DEF UpdateEnvfile, Truncate
    <3>2. ~ AllGenerated'
      BY <2>a, <3>1, NotAllGenerated
    <3>. QED
      BY <3>1, <3>2 DEF FilledAt, Ready
  <2>11. CASE Return
    <3>1. /\ at = "updating" /\ at' = "none" /\ volume' = hash
          /\ UNCHANGED <<hash, dirs, badInit>>
      BY <2>11 DEF Return
    <3>2. hash \in DOMAIN dirs /\ Filled(hash)
      BY <3>1 DEF FilledAt, Filled
    <3>. QED
      BY <3>1, <3>2 DEF FilledAt, Filled, Ready
  <2>. QED
    BY <1>4, <2>1, <2>2, <2>3, <2>4, <2>6, <2>7, <2>8, <2>9, <2>10, <2>11 DEF ConfigStep
<1>5. ASSUME ConfigFails PROVE FilledAt'
  <2>1. /\ UNCHANGED <<env, target, volume, hash, dirs, badInit>>
        /\ at' = "none"
    BY <1>5 DEF ConfigFails, envVars
  <2>. QED
    BY <2>1 DEF FilledAt, Filled, Ready, AllGenerated, Alone
<1>. QED
  BY <1>1, <1>2, <1>3, <1>4, <1>5 DEF Next, vars

-----------------------------------------------------------------------------
\* However often the build is run, stopped, or fails at a step that nobody looks
\* at, a library that needs a patch is installed without it only if git apply
\* --check refused it in the same build, and with half of it only if it is waku.
THEOREM PatchedInstalled == Spec => UnpatchedWasRefused
<1>. DEFINE A == BuildStep /\ Current \in PatchedLib =>
                   /\ StepOfPlan = "install" /\ libs'[Current] # "patched" =>
                        /\ refused
                        /\ libs'[Current] = "partial" => Current = "waku"
                   /\ StepOfPlan = "tool" /\ tool' # "patched" =>
                        /\ refused
                        /\ tool' = "plain"
<1>1. IInv => A
  <2>. SUFFICES ASSUME IInv, BuildStep, Current \in PatchedLib PROVE A
    OBVIOUS
  <2>1. /\ command = "build" /\ Do(StepOfPlan) /\ AtStep(Current, step)
        /\ step \in 1..Len(Plan[Current]) /\ StepOfPlan = Plan[Current][step]
        /\ Current \in Lib /\ src \in [Lib -> Source] /\ libs \in [Lib -> Product]
    BY DEF IInv, BuildInv, PlaceOK, Patched, BuildStep, StepOfPlan, PatchedLib, Lib
  <2>2. /\ PatchStep[Current] \in 1..2 /\ CompileStep[Current] \in 2..4
        /\ PatchStep[Current] < CompileStep[Current]
        /\ StepOfPlan = "install" => step > CompileStep[Current]
        /\ StepOfPlan = "tool" => step > PatchStep[Current] /\ Current = "consensus"
    BY <2>1, PlanOfPatched
  <2>3. step \in Int
    BY <2>1, PlanShape
  <2>4. ASSUME StepOfPlan = "install", libs'[Current] # "patched"
        PROVE  refused /\ (libs'[Current] = "partial" => Current = "waku")
    <3>1. libs'[Current] = made
      BY <2>1, <2>4 DEF Do, InstallLib
    <3>2. step > PatchStep[Current] /\ step > CompileStep[Current]
      BY <2>2, <2>3, <2>4
    <3>. QED
      BY <2>1, <2>4, <3>1, <3>2 DEF AtStep, Compiled
  <2>5. ASSUME StepOfPlan = "tool", tool' # "patched"
        PROVE  refused /\ tool' = "plain"
    <3>1. tool' = src[Current] /\ src[Current] \in Source
      BY <2>1, <2>5 DEF Do, MakeTool
    <3>2. step > PatchStep[Current] /\ Current # "waku"
      BY <2>2, <2>5
    <3>. QED
      BY <2>1, <2>5, <3>1, <3>2 DEF AtStep, Compiled, Source
  <2>. QED
    BY <2>4, <2>5
<1>2. IInv /\ [Next]_vars => IInv'
  BY NextInv
<1>3. ConfigInit => IInv
  BY InitInv
<1>4. IInv => [A]_<<command, runs, buildVars>>
  BY <1>1
<1>. QED
  BY <1>2, <1>3, <1>4, PTL DEF Spec, UnpatchedWasRefused

\* However often build and configure are run again, redis.conf loads the module
\* of falkorDB once and config.toml has the index tags once.
THEOREM NothingAddedTwice == Spec => []RerunsAddNothing
<1>1. IInv => RerunsAddNothing
  <2>. SUFFICES ASSUME IInv PROVE RerunsAddNothing
    OBVIOUS
  <2>1. modules <= 1
    BY DEF IInv, BuildInv, ModuleLines
  <2>2. ASSUME NEW t \in DOMAIN dirs PROVE dirs[t].tags <= 1 /\ dirs[t].modules <= 1
    BY <2>2 DEF IInv, DirsOK, RootDir
  <2>. QED
    BY <2>1, <2>2 DEF RerunsAddNothing
<1>. QED
  BY InitInv, NextInv, <1>1, PTL DEF Spec

ConfigIInv == IInv /\ CountersOK /\ TextsOK /\ KeptOK /\ FilledAt

LEMMA ConfigInductive ==
  /\ ConfigInit => ConfigIInv
  /\ ConfigIInv /\ [Next]_vars => ConfigIInv'
BY InitInv, InitConfig, NextInv, NextCounters, NextTexts, NextKept, NextFilled DEF ConfigIInv

\* Every variable keeps its type; no name is ever twice in the .env file.
THEOREM TypeCorrect == Spec => []TypeOK
<1>1. ConfigIInv => TypeOK
  <2>. SUFFICES ASSUME ConfigIInv PROVE TypeOK
    OBVIOUS
  <2>1. BuildTypeOK
    BY DEF ConfigIInv, IInv, BuildInv, PlaceOK, Patched, ModuleLines, CountersOK, BuildTypeOK,
           Product, Source
  <2>2. {env, volume, held, hash} \subseteq Text /\ DOMAIN dirs \subseteq Text
    BY TextsTyped DEF ConfigIInv, TextsOK
  <2>a. target \in [home : {RootHome}, name : Text \cup {Shared}]
    BY <2>2 DEF ConfigIInv, TextsOK
  <2>3. ASSUME NEW t \in DOMAIN dirs PROVE dirs[t] \in Dir
    <3>1. dirs[t] \in RootDir
      BY <2>3 DEF ConfigIInv, IInv, DirsOK
    <3>. QED
      BY <3>1 DEF RootDir, Dir, Product, Source
  <2>4. /\ command \in {"none", "build", "configure"}
        /\ at \in {"none", "recreate", "recreating", "config", "init", "toml", "tags", "conf",
                   "port", "update", "updating"}
        /\ (command = "configure") <=> (at # "none")
        /\ exit \in {"none", "ok", "error"}
        /\ edits \in 0..MaxEdits
        /\ unended \in BOOLEAN
        /\ home \in Home
    BY DEF ConfigIInv, CountersOK, Recreated
  <2>5. cuts \in 0..MaxRuns
    BY RunsAssumption DEF ConfigIInv, CountersOK
  <2>6. badInit \subseteq DOMAIN dirs
    BY DEF ConfigIInv, FilledAt
  <2>. QED
    BY <2>1, <2>2, <2>a, <2>3, <2>4, <2>5, <2>6 DEF TypeOK
<1>. QED
  BY ConfigInductive, <1>1, PTL DEF Spec

\* However often the file is rewritten, every setting of the user stays on a line
\* of its own, unless a rewrite was cut short or the last line had no newline.
THEOREM SettingsReadable == Spec => []SettingsKept
<1>1. ConfigIInv => SettingsKept
  <2>. SUFFICES ASSUME ConfigIInv, cuts = 0, ~ unended, at \notin {"recreating", "updating"},
                       NEW s \in Setting
                PROVE  Alone(s)
    BY DEF SettingsKept
  <2>1. env \in UserText \cup Whole(UserText)
    BY DEF ConfigIInv, KeptOK, TextsFrom
  <2>2. env \in Whole(UserText) => env = WithGenerated(User(TRUE))
    <3>1. \A u \in UserText : u.ended => u = User(TRUE)
      BY TextsOf DEF User
    <3>. QED
      BY <3>1 DEF Whole
  <2>3. ReadFrom(env, s)
    BY <2>1, <2>2, Reading
  <2>. QED
    BY <2>3 DEF ReadFrom, Alone
<1>. QED
  BY ConfigInductive, <1>1, PTL DEF Spec

\* As long as no lines have run together, there are no more root directories than
\* texts the user has written.
THEOREM OneRootPerText == Spec => []SameRoot
<1>1. ConfigIInv => SameRoot
  <2>. SUFFICES ASSUME ConfigIInv, ~ unended PROVE Cardinality(DOMAIN dirs) <= 1 + edits
    BY DEF SameRoot
  <2>1. edits \in Nat
    BY EditsAssumption DEF ConfigIInv, CountersOK
  <2>2. CASE edits = 0
    <3>1. PICK u \in UserText : DOMAIN dirs \in SUBSET {u}
      BY <2>2 DEF ConfigIInv, KeptOK, TextsFrom
    <3>2. IsFiniteSet({u}) /\ Cardinality({u}) = 1
      BY FS_Singleton
    <3>3. Cardinality(DOMAIN dirs) <= 1
      BY <3>1, <3>2, FS_Subset
    <3>. QED
      BY <2>2, <3>3
  <2>3. CASE edits >= 1
    <3>1. DOMAIN dirs \in SUBSET {User(TRUE), User(FALSE)}
      BY TextsOf DEF ConfigIInv, KeptOK, TextsFrom
    <3>2. IsFiniteSet({User(TRUE)}) /\ Cardinality({User(TRUE)}) = 1
      BY FS_Singleton
    <3>3. /\ IsFiniteSet({User(TRUE)} \cup {User(FALSE)})
          /\ Cardinality({User(TRUE)} \cup {User(FALSE)}) <= 2
      <4>. DEFINE S == {User(TRUE)}
      <4>. DEFINE u == User(FALSE)
      <4>1. IsFiniteSet(S) /\ Cardinality(S) = 1
        BY <3>2
      <4>. HIDE DEF S, u
      <4>2. /\ IsFiniteSet(S \cup {u})
            /\ Cardinality(S \cup {u}) = IF u \in S THEN Cardinality(S) ELSE Cardinality(S) + 1
        BY <4>1, FS_AddElement
      <4>3. IsFiniteSet(S \cup {u}) /\ Cardinality(S \cup {u}) <= 2
        BY <4>1, <4>2
      <4>. QED
        BY <4>3 DEF S, u
    <3>4. DOMAIN dirs \in SUBSET ({User(TRUE)} \cup {User(FALSE)})
      BY <3>1
    <3>5. IsFiniteSet(DOMAIN dirs) /\ Cardinality(DOMAIN dirs) <= 2
      <4>1. /\ IsFiniteSet(DOMAIN dirs)
            /\ Cardinality(DOMAIN dirs) <= Cardinality({User(TRUE)} \cup {User(FALSE)})
        BY <3>3, <3>4, FS_Subset
      <4>2. Cardinality(DOMAIN dirs) \in Nat /\ Cardinality({User(TRUE)} \cup {User(FALSE)}) \in Nat
        BY <3>3, <4>1, FS_CardinalityType
      <4>. QED
        BY <3>3, <4>1, <4>2
    <3>6. Cardinality(DOMAIN dirs) \in Nat
      BY <3>5, FS_CardinalityType
    <3>. QED
      BY <2>1, <2>3, <3>5, <3>6
  <2>. QED
    BY <2>1, <2>2, <2>3
<1>. QED
  BY ConfigInductive, <1>1, PTL DEF Spec

\* A .env file with all generated lines leads root, and everyone in a container,
\* to a directory that has been filled to the end, wherever the commands before
\* were stopped.
THEOREM NamedIsConfigured == Spec => []EnvNamesConfigured
<1>1. ConfigIInv => EnvNamesConfigured
  <2>. SUFFICES ASSUME ConfigIInv, AllGenerated, home = RootHome \/ InContainer
                PROVE  /\ Found.home = home /\ Found.name \in DOMAIN dirs
                       /\ Filled(Found.name)
    BY DEF EnvNamesConfigured, Filled, Ready
  <2>1. volume \in DOMAIN dirs /\ Filled(volume)
    BY DEF ConfigIInv, FilledAt
  <2>2. target = [home |-> RootHome, name |-> volume] \/ InContainer
    BY DEF ConfigIInv, TextsOK, InContainer
  <2>3. Found.name = volume /\ Found.home = home
    BY <2>2 DEF Found, InContainer
  <2>. QED
    BY <2>1, <2>3
<1>. QED
  BY ConfigInductive, <1>1, PTL DEF Spec
=============================================================================
