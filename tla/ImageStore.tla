----------------------------- MODULE ImageStore -----------------------------
(* The images of a worker: PullImage downloads the layers of an image, each in *)
(* a goroutine of its own, into directories that images share, merges them     *)
(* into the image's root and writes a marker, the image's configuration and    *)
(* the index; StartInstance finds a root and its configuration through them    *)
(* (imageRootFS), without the lock that serialises pulls.  The worker may die  *)
(* between any two steps.  Roots are merged by an overlay mount, lost with the *)
(* worker, or by copying (Overlay).                                            *)
EXTENDS Naturals, Sequences, FiniteSets

CONSTANTS
  Images,
  LayersOf,    \* image -> its layers, lowest first
  Files,       \* layer -> the paths it has files for
  Whiteouts,   \* layer -> the paths it deletes
  Overlay,     \* the kernel mounts overlays for the worker
  MaxPulls, MaxFaults, MaxCrashes

VARIABLES
  disk,      \* layer -> the paths in its directory
  marked,    \* layers with a marker
  root,      \* image -> what its root holds: path -> layer it is from
  mounted,   \* images whose root is an overlay mount
  marker,    \* images whose root has a marker, not counting mounts
  config,    \* image -> whose configuration its root has, not counting mounts
  upper,     \* the upper directory, one for all overlay mounts: marker and configuration
  index,     \* images in index.json
  pull,      \* the pull that holds the lock: [image, pc, ok: layers that are there]
  jobs,      \* downloads: [layer, todo: paths to write, of: number of the pull, pc]
  raced,     \* layers whose directory was emptied while something else used it: a
             \* download that fills it, a later pull, or a mounted root
  pulls, faults, crashes

vars == <<disk, marked, root, mounted, marker, config, upper, index, pull, jobs, raced, pulls, faults, crashes>>

Layers == UNION {{LayersOf[i][k] : k \in DOMAIN LayersOf[i]} : i \in Images}
Of(i)  == {LayersOf[i][k] : k \in DOMAIN LayersOf[i]}
Paths  == UNION {Files[l] \cup Whiteouts[l] : l \in Layers}
NoRoot == [p \in {} |-> ""]
NoPull == [image |-> "none", pc |-> "idle", ok |-> {}]

Init ==
  /\ disk = [l \in Layers |-> {}] /\ marked = {} /\ root = [i \in Images |-> NoRoot]
  /\ mounted = {} /\ marker = {} /\ config = [i \in Images |-> "none"]
  /\ upper = [mark |-> FALSE, config |-> "none"] /\ index = {}
  /\ pull = NoPull /\ jobs = {} /\ raced = {} /\ pulls = 0 /\ faults = 0 /\ crashes = 0

(* What a reader sees in an image's root. *)
Marker(i) == IF i \in mounted THEN upper.mark ELSE i \in marker
Config(i) == IF i \in mounted THEN upper.config ELSE config[i]

WriteMarker(i) == IF i \in mounted THEN upper' = [upper EXCEPT !.mark = TRUE] /\ UNCHANGED marker
                  ELSE marker' = marker \cup {i} /\ UNCHANGED upper
WriteConfig(i) == IF i \in mounted THEN upper' = [upper EXCEPT !.config = i] /\ UNCHANGED config
                  ELSE config' = [config EXCEPT ![i] = i] /\ UNCHANGED upper
LoseConfig(i)  == IF i \in mounted THEN upper' = [upper EXCEPT !.config = "none"] /\ UNCHANGED config
                  ELSE config' = [config EXCEPT ![i] = "none"] /\ UNCHANGED upper

---------------------------------------------------------------------------
(* One of the worker's calls on its disk fails. *)
Fault == faults < MaxFaults /\ faults' = faults + 1

(* PullImage takes the lock and asks the registry.  An image that has its      *)
(* marker only gets its index entry and configuration again; that either write *)
(* may truncate its file and fail is not looked at.                            *)
PullKnown(i) ==
  /\ pull = NoPull /\ pulls < MaxPulls /\ Marker(i)
  /\ pulls' = pulls + 1
  /\ \/ index' = index \cup {i} /\ WriteConfig(i) /\ UNCHANGED faults
     \/ index' = {} /\ WriteConfig(i) /\ Fault
     \/ index' = index \cup {i} /\ LoseConfig(i) /\ Fault
  /\ UNCHANGED <<disk, marked, root, mounted, marker, pull, jobs, raced, crashes>>

(* Otherwise its root is emptied and one download per layer is started. *)
PullImage(i) ==
  /\ pull = NoPull /\ pulls < MaxPulls /\ ~Marker(i)
  /\ pulls' = pulls + 1
  /\ root' = [root EXCEPT ![i] = NoRoot] /\ config' = [config EXCEPT ![i] = "none"]
  /\ pull' = [image |-> i, pc |-> "layers", ok |-> {}]
  /\ jobs' = jobs \cup {[layer |-> l, todo |-> {}, of |-> pulls', pc |-> "check"] : l \in Of(i)}
  /\ UNCHANGED <<disk, marked, mounted, marker, upper, index, raced, faults, crashes>>

Current(j)   == j.of = pulls /\ pull.pc = "layers"
JobDone(j)   == pull' = IF Current(j) THEN [pull EXCEPT !.ok = @ \cup {j.layer}] ELSE pull
Becomes(j,k) == jobs' = (jobs \ {j}) \cup {k}

InUse(j) == \/ \E k \in jobs: k.layer = j.layer /\ k.pc = "write"
            \/ ~Current(j)
            \/ \E i \in mounted: j.layer \in Of(i)

(* A layer that has its marker is taken as it is; another's directory is       *)
(* emptied and filled, also when a download of a pull that failed is still at  *)
(* work on it.                                                                 *)
JobChecks(j) ==
  /\ j \in jobs /\ j.pc = "check"
  /\ IF j.layer \in marked THEN JobDone(j) /\ jobs' = jobs \ {j} /\ UNCHANGED <<disk, raced>>
     ELSE /\ disk' = [disk EXCEPT ![j.layer] = {}]
          /\ Becomes(j, [j EXCEPT !.pc = "write", !.todo = Files[j.layer]]) /\ UNCHANGED pull
          /\ raced' = IF InUse(j) THEN raced \cup {j.layer} ELSE raced
  /\ UNCHANGED <<marked, root, mounted, marker, config, upper, index, pulls, faults, crashes>>

(* extractTarLayer: the files of the layer.  Whiteouts remove files from the   *)
(* directory of this same layer, where there are none.                         *)
JobWrites(j) ==
  /\ j \in jobs /\ j.pc = "write"
  /\ \E p \in j.todo:
       disk' = [disk EXCEPT ![j.layer] = @ \cup {p}] /\ Becomes(j, [j EXCEPT !.todo = @ \ {p}])
  /\ UNCHANGED <<marked, root, mounted, marker, config, upper, index, pull, raced, pulls, faults, crashes>>


(* Whether the marker could be written is not looked at. *)
JobMarks(j) ==
  /\ j \in jobs /\ j.pc = "write" /\ j.todo = {}
  /\ \/ marked' = marked \cup {j.layer} /\ UNCHANGED faults
     \/ Fault /\ UNCHANGED marked
  /\ JobDone(j) /\ jobs' = jobs \ {j}
  /\ UNCHANGED <<disk, root, mounted, marker, config, upper, index, raced, pulls, crashes>>

(* The download or a write fails: the pull returns at the first error, and the *)
(* downloads of its other layers go on.                                        *)
JobFails(j) ==
  /\ j \in jobs /\ j.pc = "write" /\ Fault
  /\ pull' = IF Current(j) THEN NoPull ELSE pull
  /\ jobs' = jobs \ {j}
  /\ UNCHANGED <<disk, marked, root, mounted, marker, config, upper, index, raced, pulls, crashes>>

---------------------------------------------------------------------------
(* tryOverlayMount and mergeLayerDir: the highest layer that has a path. *)
Has(i, p) == {k \in DOMAIN LayersOf[i]: p \in disk[LayersOf[i][k]]}

(* The lowest layer wins. *)
MergedUpside(i) == [p \in {q \in Paths: Has(i, q) # {}} |->
                      LayersOf[i][CHOOSE k \in Has(i, p): \A m \in Has(i, p): m >= k]]

Merged(i) == [p \in {q \in Paths: Has(i, q) # {}} |->
                LayersOf[i][CHOOSE k \in Has(i, p): \A m \in Has(i, p): m <= k]]

(* An overlay that cannot be mounted is replaced by copying; a copy may fail   *)
(* half-way, which ends the pull.                                              *)
Merge ==
  /\ pull.pc = "layers" /\ pull.ok = Of(pull.image)
  /\ \/ /\ root' = [root EXCEPT ![pull.image] = Merged(pull.image)]
        /\ \/ Overlay /\ mounted' = mounted \cup {pull.image}
           \/ ~Overlay /\ UNCHANGED mounted
        /\ pull' = [pull EXCEPT !.pc = "marker"] /\ UNCHANGED faults
     \/ /\ ~Overlay /\ Fault
        /\ \E ps \in SUBSET DOMAIN Merged(pull.image):
             root' = [root EXCEPT ![pull.image] = [p \in ps |-> Merged(pull.image)[p]]]
        /\ pull' = NoPull /\ UNCHANGED mounted
  /\ UNCHANGED <<disk, marked, marker, config, upper, index, jobs, raced, pulls, crashes>>

MarkRoot ==
  /\ pull.pc = "marker"
  /\ \/ WriteMarker(pull.image) /\ pull' = [pull EXCEPT !.pc = "config"] /\ UNCHANGED faults
     \/ ~Overlay /\ Fault /\ pull' = NoPull /\ UNCHANGED <<marker, upper>>
  /\ UNCHANGED <<disk, marked, root, mounted, config, index, jobs, raced, pulls, crashes>>

(* Whether the configuration could be written is not looked at. *)
SaveConfig ==
  /\ pull.pc = "config" /\ pull' = [pull EXCEPT !.pc = "index"]
  /\ \/ WriteConfig(pull.image) /\ UNCHANGED faults
     \/ LoseConfig(pull.image) /\ Fault
  /\ UNCHANGED <<disk, marked, root, mounted, marker, index, jobs, raced, pulls, crashes>>

(* A write that fails may leave an index nobody can read, and a new one is     *)
(* begun at the next pull.                                                     *)
UpdateImageIndex ==
  /\ pull.pc = "index" /\ pull' = NoPull
  /\ \/ index' = index \cup {pull.image} /\ UNCHANGED faults
     \/ index' \in {index, {}} /\ Fault
  /\ UNCHANGED <<disk, marked, root, mounted, marker, config, upper, jobs, raced, pulls, crashes>>

(* The worker dies; its mounts are gone or taken away by cleanupOverlayMounts. *)
Crash ==
  /\ crashes < MaxCrashes /\ crashes' = crashes + 1
  /\ pull' = NoPull /\ jobs' = {} /\ mounted' = {}
  /\ root' = [i \in Images |-> IF i \in mounted THEN NoRoot ELSE root[i]]
  /\ UNCHANGED <<disk, marked, marker, config, upper, index, raced, pulls, faults>>

Next ==
  \/ \E i \in Images: PullKnown(i) \/ PullImage(i)
  \/ \E j \in jobs: JobChecks(j) \/ JobWrites(j) \/ JobMarks(j) \/ JobFails(j)
  \/ Merge \/ MarkRoot \/ SaveConfig \/ UpdateImageIndex
  \/ Crash

Spec == Init /\ [][Next]_vars

---------------------------------------------------------------------------
TypeOK ==
  /\ disk \in [Layers -> SUBSET Paths] /\ marked \subseteq Layers
  /\ mounted \subseteq Images /\ marker \subseteq Images /\ index \subseteq Images
  /\ pull.pc \in {"idle", "layers", "marker", "config", "index"} /\ pull.ok \subseteq Layers
  /\ raced \subseteq Layers
  /\ \A j \in jobs: j.layer \in Layers /\ j.todo \subseteq Files[j.layer] /\ j.of \in 1 .. pulls

(* imageRootFS finds the image. *)
ImageRootFS(i) == i \in index /\ Marker(i) /\ Config(i) # "none"

(* What an image is: of every path the highest layer that says something, if   *)
(* it does not delete it.                                                      *)
Says(i, p)   == {k \in DOMAIN LayersOf[i]: p \in Files[LayersOf[i][k]] \cup Whiteouts[LayersOf[i][k]]}
Top(i, p)    == LayersOf[i][CHOOSE k \in Says(i, p): \A m \in Says(i, p): m <= k]
ImageOf(i)   == [p \in {q \in Paths: Says(i, q) # {} /\ q \in Files[Top(i, q)]} |-> Top(i, p)]

(* An instance is never started on half an image: a root that imageRootFS      *)
(* finds, while pulls run, fail, are repeated and the worker dies, has of every *)
(* path of the image the file its layers make of it, and comes with its own    *)
(* entrypoint, user and environment.  (What an upper layer deletes is still    *)
(* there: a whiteout is applied to its own layer's directory only.)  The one   *)
(* exception is an image with a layer whose directory was emptied in use.      *)
UsableIsWhole ==
  \A i \in Images: ImageRootFS(i) /\ Of(i) \cap raced = {} =>
    /\ \A p \in DOMAIN ImageOf(i): p \in DOMAIN root[i] /\ root[i][p] = ImageOf(i)[p]
    /\ Config(i) = i

(* A layer with a marker, which later pulls take unseen, is complete, unless   *)
(* its directory was emptied in use, by or under a download that has outlived  *)
(* its pull.                                                                   *)
MarkedIsWhole == \A l \in marked \ raced: disk[l] = Files[l]
=============================================================================
