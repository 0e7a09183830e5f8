------------------------------ MODULE Community ------------------------------
(***************************************************************************)
(* Bookmarks, comment moderation and pausing over one registry of          *)
(* campaigns: wallets, the admin, signers, creators and contributors call  *)
(* in any order, one invocation at a time.                                 *)
(***************************************************************************)
EXTENDS Bookmarks, Comments, Pausing

vars == <<registryVars, bookmarkVars, commentVars, pausingVars>>

Init == RegistryInit /\ BookmarksInit /\ CommentsInit /\ PausingInit

Next ==
  \/ /\ ~Running
     /\ \/ RegistryNext  /\ UNCHANGED <<bookmarkVars, commentVars, pausingVars>>
        \/ BookmarksNext /\ UNCHANGED <<registryVars, commentVars, pausingVars>>
        \/ CommentsNext  /\ UNCHANGED <<registryVars, bookmarkVars, pausingVars>>
  \/ PausingNext /\ UNCHANGED <<bookmarkVars, commentVars>>

Spec == Init /\ [][Next]_vars

-----------------------------------------------------------------------------
(* Properties.                                                             *)

\* Every variable has its type.
TypeOK == RegistryTypeOK /\ BookmarksTypeOK /\ CommentsTypeOK /\ PausingTypeOK
=============================================================================
