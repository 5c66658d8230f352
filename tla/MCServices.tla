------------------------------ MODULE MCServices ------------------------------
(* The retention purge, and seven components that share no state with it or one another:
   a behaviour is a behaviour of the one that `part' names. *)
EXTENDS MCPurge, Services

CONSTANTS b1, b2, n0
VARIABLE part

controlFiles == <<control, flock, clerks, reveal, fleave>>
access == <<now, revoked, keyset, loading, verified, asked, aleave>>
artifacts == <<archive, copies, manifests, rows, snapshot, work, sweeper, rebuild, wrote, rleave>>
dossiers == <<page, dnote, catalog, job, person, torn, unheard, dleave>>
connections == <<config, credentials, discovery, tests, baseline, schema, slock, tabs, answered, storn, sleave>>
identities == <<people, suppressed, mentioned, held, used, said, purged, withdrawn, revived, wleave>>
index == <<ischema, mirror, present, txn, active, receipt, retry, refresh, listing, taken, ileave>>
allVars == <<part, vars, controlFiles, access, artifacts, dossiers, connections, identities, index>>

Run(name) == IF part = name THEN "idle" ELSE "off"
AllInit ==
  /\ part \in {"purge", "controlFiles", "access", "artifacts", "dossiers", "connections", "identities",
              "index"}
  /\ Init /\ (part = "purge" \/ vault = Notes)
  /\ Control!Start(Run("controlFiles")) /\ Api!Start(Run("access"))
  /\ Arts!Start(Run("artifacts")) /\ Doss!Start(Run("dossiers"))
  /\ Conn!Start(Run("connections")) /\ Who!Start(Run("identities"))
  /\ Fields!Start(Run("index"))
AllNext ==
  /\ UNCHANGED part
  /\ \/ part = "purge" /\ Next /\ UNCHANGED <<controlFiles, access, artifacts, dossiers, connections, identities, index>>
     \/ part = "controlFiles" /\ Control!Next /\ UNCHANGED <<vars, access, artifacts, dossiers, connections, identities, index>>
     \/ part = "access" /\ Api!Next /\ UNCHANGED <<vars, controlFiles, artifacts, dossiers, connections, identities, index>>
     \/ part = "artifacts" /\ Arts!Next /\ UNCHANGED <<vars, controlFiles, access, dossiers, connections, identities, index>>
     \/ part = "dossiers" /\ Doss!Next /\ UNCHANGED <<vars, controlFiles, access, artifacts, connections, identities, index>>
     \/ part = "connections" /\ Conn!Next /\ UNCHANGED <<vars, controlFiles, access, artifacts, dossiers, identities, index>>
     \/ part = "identities" /\ Who!Next /\ UNCHANGED <<vars, controlFiles, access, artifacts, dossiers, connections, index>>
     \/ part = "index" /\ Fields!Next /\ UNCHANGED <<vars, controlFiles, access, artifacts, dossiers, connections, identities>>
AllSpec == AllInit /\ [][AllNext]_allVars
=============================================================================
