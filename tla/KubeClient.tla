----------------------------- MODULE KubeClient -----------------------------
(***************************************************************************)
(* The clients the driver reaches the API server with.  Every call of the  *)
(* driver makes a new client, so a call may fail in three places: the      *)
(* client refuses it, no clientset can be built, or the API server answers *)
(* with an error.  In the first two a Get returns nil; in the third it     *)
(* returns the zero object, since the typed clients decode into one.       *)
(*                                                                         *)
(* A store is a partial function from names to objects.                    *)
(***************************************************************************)

CONSTANTS
  OpenEBSNamespace,         \* environment OPENEBS_NAMESPACE
  KubeMaster, KubeConfig    \* environment of that name, "" when it is not set

-----------------------------------------------------------------------------
(* Building a clientset *)

NewKubeclient(ops) == [ops |-> ops, namespace |-> "", kubeConfigPath |-> "",
                       clientset |-> FALSE]

WithNamespace(k, namespace) == [k EXCEPT !.namespace = namespace]

\* Without a kubeconfig path the environment is looked at, and without that the
\* account of the pod is taken.
Config == IF KubeMaster # "" \/ KubeConfig # "" THEN "env" ELSE "incluster"

GetConfigForPathOrDirect(k) ==
  IF k.kubeConfigPath # "" THEN "path" ELSE Config

\* A clientset is kept once it is there; a failure is not.
getClientOrCached(k, readable) ==
  k.clientset \/ GetConfigForPathOrDirect(k) \in readable

-----------------------------------------------------------------------------
(* The operations of each client and whether they refuse a missing argument (an
   empty name, a nil object, an empty list) *)

CVCOps == [Create |-> TRUE, Get |-> TRUE, GetRaw |-> TRUE, List |-> FALSE,
           Delete |-> TRUE, Update |-> TRUE, Patch |-> TRUE]

CVAOps == [Create |-> TRUE, Get |-> TRUE, GetRaw |-> TRUE, List |-> FALSE,
           Delete |-> TRUE, Update |-> TRUE]

\* Delete of a CStorVolume does not look at the name.
CVOps == [Get |-> TRUE, GetRaw |-> TRUE, List |-> FALSE, Delete |-> FALSE,
          Create |-> TRUE]

PVCOps == [Get |-> TRUE, List |-> FALSE, Delete |-> TRUE, Create |-> TRUE,
           Update |-> TRUE, CreateCollection |-> TRUE, DeleteCollection |-> FALSE]

NodeOps == [Get |-> TRUE, List |-> FALSE]

CVCClient   == WithNamespace(NewKubeclient(CVCOps), OpenEBSNamespace)
CVAClient   == WithNamespace(NewKubeclient(CVAOps), OpenEBSNamespace)
CVClient    == WithNamespace(NewKubeclient(CVOps), OpenEBSNamespace)
PVCClient(namespace) == WithNamespace(NewKubeclient(PVCOps), namespace)
NodeClient  == NewKubeclient(NodeOps)

\* The call reaches the API server.
Sent(k, op, argument, readable) ==
  /\ k.ops[op] => argument # ""
  /\ getClientOrCached(k, readable)

-----------------------------------------------------------------------------
(* What the API server does with a call *)

Found(store, name) == name \in DOMAIN store

Put(store, name, obj) ==
  [m \in DOMAIN store \cup {name} |-> IF m = name THEN obj ELSE store[m]]

Removed(store, name) == [m \in DOMAIN store \ {name} |-> store[m]]

\* An object that is being deleted goes with its last finalizer.
Settled(store, name) ==
  IF store[name].deleting /\ store[name].finalizers = {}
    THEN Removed(store, name) ELSE store

\* Every Delete asks for foreground propagation: the object is marked and kept
\* for the garbage collector.
Deleted(store, name) ==
  IF store[name].deleting THEN store
  ELSE [store EXCEPT ![name].deleting = TRUE,
                     ![name].finalizers = @ \cup {"foreground"}]

\* Mutant: the new object is sent as a whole.
PatchedWhole(store, name, old, new) == [store EXCEPT ![name] = new]

\* A merge patch of the difference between two objects, without a
\* resourceVersion: applied to whatever is there.
Patched(store, name, old, new) ==
  [store EXCEPT ![name] =
     [f \in DOMAIN @ |-> IF new[f] # old[f] THEN new[f] ELSE @[f]]]
=============================================================================
