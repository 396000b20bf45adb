-------------------------------- MODULE MCDesk --------------------------------
(***************************************************************************)
(* Instances of sign-in, the invoice form, its way to the server, the      *)
(* assistant, the templates and the catalog.  They share no state, so a    *)
(* behaviour runs one of them and leaves the others as they start.         *)
(***************************************************************************)
EXTENDS SignIn, Composer, Sending, Assistant, Templates, Catalog, TLC

VARIABLE scene

HomeOf == ("asha" :> "north") @@ ("ben" :> "south")

\* Files that name a product twice, add one, count stock or not, bring a barcode, or have a row
\* that cannot be read.
FileRow(k, v, n, c) == [key |-> k, value |-> v, count |-> n, code |-> c]
SomeFiles ==
  {<<FileRow("k1", 2, NoColumn, NoCode), FileRow("k2", 0, 1, NoCode), FileRow("k2", 1, 1, "x")>>,
   <<FileRow("k1", 1, 1, NoCode), FileRow("k1", 2, NoColumn, "x")>>}

vars == <<signInVars, composerVars, sendingVars, assistantVars, templatesVars, catalogVars, scene>>

Init ==
  /\ SignInInit /\ ComposerInit /\ SendingInit /\ AssistantInit /\ TemplatesInit /\ CatalogInit
  /\ scene \in {"sign in", "form", "sending", "assistant", "templates", "catalog"}
  /\ scene # "form" => form = EmptyForm
  /\ scene # "sending" => session = "north"
  /\ scene # "assistant" => keys = {}

Next ==
  /\ UNCHANGED scene
  /\ \/ /\ scene = "sign in" /\ SignInNext
        /\ UNCHANGED <<composerVars, sendingVars, assistantVars, templatesVars, catalogVars>>
     \/ /\ scene = "form" /\ ComposerNext
        /\ UNCHANGED <<signInVars, sendingVars, assistantVars, templatesVars, catalogVars>>
     \/ /\ scene = "sending" /\ SendingNext
        /\ UNCHANGED <<signInVars, composerVars, assistantVars, templatesVars, catalogVars>>
     \/ /\ scene = "assistant" /\ AssistantNext
        /\ UNCHANGED <<signInVars, composerVars, sendingVars, templatesVars, catalogVars>>
     \/ /\ scene = "templates" /\ TemplatesNext
        /\ UNCHANGED <<signInVars, composerVars, sendingVars, assistantVars, catalogVars>>
     \/ /\ scene = "catalog" /\ CatalogNext
        /\ UNCHANGED <<signInVars, composerVars, sendingVars, assistantVars, templatesVars>>

Spec == Init /\ [][Next]_vars
=============================================================================
