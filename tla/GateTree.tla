-------------------------------- MODULE GateTree --------------------------------
(***************************************************************************)
(* Committed trees as the gate-configuration guard sees them, and what it  *)
(* finds in a diff: pure functions of the default branch's tree and of the *)
(* tree that would be merged.                                              *)
(*                                                                         *)
(* A tree gives each path its content, a link being a content of its own.  *)
(* One path stands for each kind the guard tells apart: "agents" for       *)
(* AGENTS.md, "script" for .ttorch/validate.sh and everything else covered *)
(* in any repository, "SCRIPT" for another spelling of that path, "source" *)
(* for the Go and content files of ttorch itself, "top" for the directory a*)
(* covered file lies under, "odd" for a name with a control character, and *)
(* "code" for a file no rule speaks of.                                    *)
(***************************************************************************)
EXTENDS Naturals

Path == {"agents", "script", "SCRIPT", "source", "top", "odd", "code"}
Content == {"none", "v1", "v2", "link"}
Tree == [Path -> Content]

Holds(t, p) == t[p] # "none"

\* What a case-insensitive, normalizing file system takes a name for.
IdentityKey(p) == IF p = "SCRIPT" THEN "script" ELSE p

\* What the guard covers in every repository, and what it covers besides where
\* the default branch is the source ttorch is built from.
ConfigFiles  == {"agents", "script"}
SourceFiles  == {"source"}

\* The default branch embeds the content ttorch installs: here, "v2" of the
\* source no longer does.
EmbedsContent(t) == t["source"] = "v1"

Scope(base) == IF EmbedsContent(base) THEN ConfigFiles \cup SourceFiles ELSE ConfigFiles

Matches(p, scope) == \E f \in scope : IdentityKey(p) = IdentityKey(f)

Changed(base, rev) == {p \in Path : base[p] # rev[p]}

ChangedLinks(base, rev) == {p \in Changed(base, rev) : rev[p] = "link"}

Hostile(p) == p = "odd"

\* A link at covered ground, or at the directory covered ground lies under.
Shadows(p, scope) == Matches(p, scope) \/ p = "top"

LinksOver(base, rev) == \E p \in ChangedLinks(base, rev) : Shadows(p, Scope(base))

\* A new entry that a checkout would write over another one.
Collides(base, rev) ==
  \E p, q \in Path : /\ Holds(rev, p) /\ ~Holds(base, p)
                     /\ p # q /\ Holds(rev, q) /\ IdentityKey(p) = IdentityKey(q)

\* Hits no approval clears, and the covered paths a diff changes.
Blocking(base, rev) ==
  (\E p \in Changed(base, rev) : Hostile(p)) \/ LinksOver(base, rev) \/ Collides(base, rev)

Touched(base, rev) == {p \in Changed(base, rev) : Matches(p, Scope(base))}

\* The gate as the default branch defines it: its script, and whether its policy
\* waives the lead's approval of a gate change ("v2" of AGENTS.md requires it, and
\* a link or a missing file records no trusted mode).
Script(t)    == t["script"]
HasScript(t) == Script(t) # "none"
Waives(t)    == t["agents"] = "v1"
================================================================================
