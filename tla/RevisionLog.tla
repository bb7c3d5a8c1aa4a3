----------------------------- MODULE RevisionLog -----------------------------
(***************************************************************************)
(* What the publication of analysis revisions promises its readers.        *)
(*                                                                         *)
(* Each incident has a log of analysis attempts, numbered by revision, and *)
(* a pointer to the attempt being served.  An attempt is appended and      *)
(* never changed.  A published attempt becomes the served one in the same  *)
(* step and its inputs extend those of the attempt it replaces; a failed   *)
(* attempt leaves the served one alone.                                    *)
(***************************************************************************)
EXTENDS Naturals, Sequences

CONSTANTS Incidents, Fingerprints

VARIABLES log, current

Attempt == [published : BOOLEAN, fp : Fingerprints]

(* Inputs g extend inputs f: more events, or the same under newer rules.   *)
Extends(g, f) ==
    /\ f.events \subseteq g.events
    /\ f.version <= g.version
    /\ f # g

Init ==
    /\ log = [i \in Incidents |-> << >>]
    /\ current = [i \in Incidents |-> 0]

Untouched(i) ==
    /\ log'[i] = log[i]
    /\ current'[i] = current[i]

Fail(i) ==
    /\ \E fp \in Fingerprints :
          log'[i] = Append(log[i], [published |-> FALSE, fp |-> fp])
    /\ current'[i] = current[i]

Publish(i) ==
    /\ \E fp \in Fingerprints :
          /\ current[i] # 0 => Extends(fp, log[i][current[i]].fp)
          /\ log'[i] = Append(log[i], [published |-> TRUE, fp |-> fp])
    /\ current'[i] = Len(log[i]) + 1

(* One commit may carry an attempt for each of several incidents.          *)
Next == \A i \in Incidents : Untouched(i) \/ Fail(i) \/ Publish(i)

Spec == Init /\ [][Next]_<<log, current>>
=============================================================================
