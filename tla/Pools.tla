------------------------------- MODULE Pools -------------------------------
(***************************************************************************)
(* The mixed benchmark (pkg/bench/mixed.go) and the versioned one          *)
(* (versioned.go).  Their threads take the next operation from a common    *)
(* cyclic list and the objects from a common pool; a thread that is        *)
(* working on an object has taken it out of the pool.  Every request goes  *)
(* to a host chosen by HostSelect.                                         *)
(*                                                                         *)
(* What the operations record is BenchRun's and Collector's matter; here   *)
(* an operation is four steps: it is issued (getOp), it takes an object    *)
(* and a client, the server serves it or fails, and the thread gives back  *)
(* what it holds.  The two locks an operation takes (pool and hosts) are   *)
(* independent of each other and are taken in one step.                    *)
(***************************************************************************)
EXTENDS HostSelect, SequencesExt

CONSTANTS
    Workers,     \* the threads (Concurrency of them)
    Creates,     \* values of CreateObjects
    OpLists,     \* shuffled lists of operations, of which one is used
    MaxOps,      \* bound: operations issued
    MaxFails     \* bound: requests that fail

ASSUME PoolWorkersAssumption == IsFiniteSet(Workers) /\ Workers # {}
ASSUME CreatesAssumption == Creates \subseteq Nat
ASSUME OpListsAssumption ==
    \A l \in OpLists :
        /\ l \in Seq({"GET", "PUT", "DELETE", "STAT"})
        /\ l # <<>>
        /\ LET Share(t) == Cardinality({i \in DOMAIN l : l[i] = t})
           IN  Share("DELETE") <= Share("PUT")  \* Generate refuses more deletes

VARIABLES
    versioned,   \* the versioned benchmark runs, else the mixed one
    create,      \* CreateObjects
    ops,         \* Dist.ops
    main,        \* where the goroutine that calls Prepare, Start, Cleanup is
    mine,        \* hosts of the clients this goroutine holds
    done,        \* the context is done
    todo,        \* tokens left in Prepare's channel obj
    groupErr,    \* a thread of Prepare failed
    pc,          \* where each thread is
    op,          \* its operation
    obj,         \* the object it took out of the pool, or NoObject
    new,         \* the object it uploads, or NoObject
    host,        \* the host of the client it holds, or NoHost
    ok,          \* its request succeeded
    issued,      \* history: operations issued, by type, and uploads failed
    made,        \* number of objects and versions named so far
    pool,        \* Dist.objects
    bucket,      \* the objects and versions the server has
    lost         \* history: objects of a request that failed

config == <<versioned, create, ops>>
threadVars == <<pc, op, obj, new, host, ok>>
prepareVars == <<todo, groupErr>>
storeVars == <<made, pool, bucket, lost>>
vars == <<config, main, mine, done, prepareVars, threadVars, issued,
          storeVars, hostVars>>

Concurrency == Cardinality(Workers)
NoHost == 0
NoOp == "none"
NoObject == [num |-> 0]

(* An object, or one version of it: its own number, the number that stands *)
(* for its name, and the random prefix of the generator that made the name *)
(* (every thread of Prepare and of Start has a generator).                 *)
Object == [num : Nat, name : Nat, prefix : {"prepare", "start"} \X Workers]
Fresh(stage, w) == [num |-> made + 1, name |-> made + 1, prefix |-> <<stage, w>>]
ObjectPrefixes(objs) == {o.prefix : o \in objs}

Held == {obj[w] : w \in Workers} \ {NoObject}
Total == issued["GET"] + issued["PUT"] + issued["DELETE"] + issued["STAT"]

Init ==
    /\ NewClient
    /\ versioned \in BOOLEAN
    /\ create \in Creates
    /\ ops \in OpLists
    /\ main = "prepare"
    /\ mine = <<>>
    /\ done = FALSE
    /\ todo = 0
    /\ groupErr = FALSE
    /\ pc = [w \in Workers |-> "idle"]
    /\ op = [w \in Workers |-> NoOp]
    /\ obj = [w \in Workers |-> NoObject]
    /\ new = [w \in Workers |-> NoObject]
    /\ host = [w \in Workers |-> NoHost]
    /\ ok = [w \in Workers |-> FALSE]
    /\ issued = [t \in {"GET", "PUT", "DELETE", "STAT", "failed"} |-> 0]
    /\ made = 0
    /\ pool = {}
    /\ bucket = {}
    /\ lost = {}

(* A request fails: the bound on failures.  A thread of Prepare whose      *)
(* upload failed keeps its client.                                         *)
MayFail ==
    Cardinality(lost) + Cardinality({w \in Workers : pc[w] = "left" /\ host[w] # NoHost}) < MaxFails
-----------------------------------------------------------------------------
(* Prepare.                                                                *)

(* The goroutine of the benchmark takes a client, or gives back the one it *)
(* took last.                                                              *)
Borrow(from, to) ==
    /\ main = from
    /\ main' = to
    /\ HandOut(Chosen)
    /\ mine' = Append(mine, Chosen)
    /\ UNCHANGED <<config, done, prepareVars, threadVars, issued, storeVars>>
Return(from, to) ==
    /\ main = from
    /\ main' = to
    /\ GiveBack(Last(mine))
    /\ mine' = Front(mine)
    /\ UNCHANGED <<config, done, prepareVars, threadVars, issued, storeVars>>

(* Too few objects for the threads.                                        *)
PrepareRefuses ==
    /\ main = "prepare"
    /\ create <= Concurrency
    /\ main' = "failed"
    /\ UNCHANGED <<config, mine, done, prepareVars, threadVars, issued, storeVars, hostVars>>

(* CreateEmptyBucket asks for the bucket, and clears it with a client of   *)
(* its own; its errors end the benchmark.                                  *)
CreateEmptyBucket ==
    \/ create > Concurrency /\ Borrow("prepare", "bucket")
    \/ Borrow("bucket", "clear")
    \/ Return("clear", "cleared")
    \/ Return("cleared", "created")
    \/ Return("bucket", "failed")

(* The versioned benchmark enables versions, unless the bucket has them.   *)
EnableVersioning ==
    \/ versioned /\ Borrow("created", "versions")
    \/ Return("versions", "enabled")
    \/ Return("versions", "failed")

(* The threads of Prepare are started, with a token for every object.      *)
PrepareSpawns ==
    /\ main \in {"created", "enabled"}
    /\ main' = "upload"
    /\ todo' = create
    /\ pc' = [w \in Workers |-> "next"]
    /\ UNCHANGED <<config, mine, done, groupErr, op, obj, new, host, ok,
                   issued, storeVars, hostVars>>

(* A thread takes a token and uploads an object, or it is through: no      *)
(* token, or the context is done.                                          *)
UploadBegins(w) ==
    /\ main = "upload" /\ pc[w] = "next"
    /\ todo > 0 /\ ~done
    /\ todo' = todo - 1
    /\ HandOut(Chosen)
    /\ host' = [host EXCEPT ![w] = Chosen]
    /\ new' = [new EXCEPT ![w] = Fresh("prepare", w)]
    /\ made' = made + 1
    /\ pc' = [pc EXCEPT ![w] = "sent"]
    /\ UNCHANGED <<config, main, mine, done, groupErr, op, obj, ok, issued,
                   pool, bucket, lost>>
UploadStops(w) ==
    /\ main = "upload" /\ pc[w] = "next"
    /\ todo = 0 \/ done
    /\ todo' = IF todo > 0 THEN todo - 1 ELSE 0
    /\ pc' = [pc EXCEPT ![w] = "left"]
    /\ UNCHANGED <<config, main, mine, done, groupErr, op, obj, new, host, ok,
                   issued, storeVars, hostVars>>

(* The upload ended: the object joins the pool ...                         *)
UploadEnds(w) ==
    /\ main = "upload" /\ pc[w] = "sent"
    /\ GiveBack(host[w])
    /\ bucket' = bucket \cup {new[w]}
    /\ pool' = pool \cup {new[w]}
    /\ new' = [new EXCEPT ![w] = NoObject]
    /\ host' = [host EXCEPT ![w] = NoHost]
    /\ pc' = [pc EXCEPT ![w] = "next"]
    /\ UNCHANGED <<config, main, mine, done, prepareVars, op, obj, ok, issued, made, lost>>

(* ... or it failed, stored or not, and the thread ends without giving the *)
(* client back.                                                            *)
UploadFails(w) ==
    /\ main = "upload" /\ pc[w] = "sent"
    /\ MayFail
    /\ \E stored \in SUBSET {new[w]} : bucket' = bucket \cup stored
    /\ groupErr' = TRUE
    /\ new' = [new EXCEPT ![w] = NoObject]
    /\ pc' = [pc EXCEPT ![w] = "left"]
    /\ UNCHANGED <<config, main, mine, done, todo, op, obj, host, ok, issued, made, pool,
                   lost, hostVars>>

(* wg.Wait: an error ends the program, otherwise the threads of Start run. *)
PrepareReturns ==
    /\ main = "upload"
    /\ \A w \in Workers : pc[w] = "left"
    /\ main' = IF groupErr THEN "failed" ELSE "run"
    /\ pc' = [w \in Workers |-> IF groupErr THEN "left" ELSE "next"]
    /\ UNCHANGED <<config, mine, done, prepareVars, op, obj, new, host, ok, issued,
                   storeVars, hostVars>>
-----------------------------------------------------------------------------
(* Start.                                                                  *)

(* The deadline, AutoTerm or the coordinator ends the context.             *)
Cancel ==
    /\ main \in {"upload", "run"}
    /\ ~done
    /\ done' = TRUE
    /\ UNCHANGED <<config, main, mine, prepareVars, threadVars, issued, storeVars, hostVars>>

(* A thread sees that the context is done, or goes on.                     *)
Leave(w) ==
    /\ main = "run" /\ pc[w] = "next"
    /\ done
    /\ pc' = [pc EXCEPT ![w] = "left"]
    /\ UNCHANGED <<config, main, mine, done, prepareVars, op, obj, new, host, ok, issued,
                   storeVars, hostVars>>

(* The next operation of the cyclic list.                                  *)
getOp(w) ==
    /\ main = "run" /\ pc[w] = "next"
    /\ ~done
    /\ Total < MaxOps
    /\ LET t == ops[(Total % Len(ops)) + 1]
       IN  /\ op' = [op EXCEPT ![w] = t]
           /\ issued' = [issued EXCEPT ![t] = @ + 1]
    /\ pc' = [pc EXCEPT ![w] = "take"]
    /\ UNCHANGED <<config, main, mine, done, prepareVars, obj, new, host, ok,
                   storeVars, hostVars>>

(* What every beginning operation does: it has its client and is sent.     *)
Takes(w, type) ==
    /\ main = "run" /\ pc[w] = "take" /\ op[w] = type
    /\ HandOut(Chosen)
    /\ host' = [host EXCEPT ![w] = Chosen]
    /\ pc' = [pc EXCEPT ![w] = "sent"]
    /\ UNCHANGED <<config, main, mine, done, prepareVars, op, ok, issued, bucket, lost>>

(* Mutant of randomObj: the object stays in the pool.                      *)
randomObjStays(w) ==
    \E o \in pool : obj' = [obj EXCEPT ![w] = o] /\ UNCHANGED pool

(* Any object of the pool, taken out until it is given back.               *)
randomObj(w) ==
    \E o \in pool :
        /\ obj' = [obj EXCEPT ![w] = o]
        /\ pool' = pool \ {o}

(* The same of the versioned pool, which holds the versions of each name.  *)
randomObjRead(w) ==
    \E name \in {o.name : o \in pool} : \E o \in {v \in pool : v.name = name} :
        /\ obj' = [obj EXCEPT ![w] = o]
        /\ pool' = pool \ {o}

Read(w) == IF versioned THEN randomObjRead(w) ELSE randomObj(w)

GetTakes(w) == Takes(w, "GET") /\ Read(w) /\ UNCHANGED <<new, made>>
StatTakes(w) == Takes(w, "STAT") /\ Read(w) /\ UNCHANGED <<new, made>>

(* A deleted object never comes back, whatever the server answers.         *)
deleteRandomObj(w) == Read(w)
DeleteTakes(w) == Takes(w, "DELETE") /\ deleteRandomObj(w) /\ UNCHANGED <<new, made>>

(* The mixed benchmark uploads an object of the thread's generator ...     *)
MixedPutTakes(w) ==
    /\ ~versioned
    /\ Takes(w, "PUT")
    /\ new' = [new EXCEPT ![w] = Fresh("start", w)]
    /\ made' = made + 1
    /\ UNCHANGED <<obj, pool>>

(* ... the versioned one a version of an object of the pool, which it      *)
(* keeps meanwhile.                                                        *)
newVersion(w) ==
    /\ versioned
    /\ Takes(w, "PUT")
    /\ randomObjRead(w)
    /\ new' = [new EXCEPT ![w] = [num |-> made + 1, name |-> obj'[w].name,
                                  prefix |-> obj'[w].prefix]]
    /\ made' = made + 1

(* "ran out of objects": the program ends.                                 *)
NeedsObject(w) == op[w] # "PUT" \/ versioned
RanOut(w) ==
    /\ main = "run" /\ pc[w] = "take"
    /\ NeedsObject(w) /\ pool = {}
    /\ main' = "panic"
    /\ UNCHANGED <<config, mine, done, prepareVars, threadVars, issued, storeVars, hostVars>>

(* The server serves the request; or the request fails, served or not.     *)
Effect(w) ==
    CASE op[w] = "PUT" -> bucket \cup {new[w]}
      [] op[w] = "DELETE" -> bucket \ {obj[w]}
      [] OTHER -> bucket
Serve(w) ==
    /\ main = "run" /\ pc[w] = "sent"
    /\ \/ /\ ok' = [ok EXCEPT ![w] = TRUE]
          /\ bucket' = Effect(w)
          /\ UNCHANGED lost
       \/ /\ MayFail
          /\ ok' = [ok EXCEPT ![w] = FALSE]
          /\ bucket' \in {bucket, Effect(w)}
          /\ lost' = lost \cup {IF op[w] = "PUT" THEN new[w] ELSE obj[w]}
    /\ pc' = [pc EXCEPT ![w] = "reply"]
    /\ UNCHANGED <<config, main, mine, done, prepareVars, op, obj, new, host, issued,
                   made, pool, hostVars>>

(* What every ending operation does: the client is given back.             *)
Ends(w, type) ==
    /\ main = "run" /\ pc[w] = "reply" /\ op[w] = type
    /\ GiveBack(host[w])
    /\ host' = [host EXCEPT ![w] = NoHost]
    /\ obj' = [obj EXCEPT ![w] = NoObject]
    /\ new' = [new EXCEPT ![w] = NoObject]
    /\ op' = [op EXCEPT ![w] = NoOp]
    /\ ok' = [ok EXCEPT ![w] = FALSE]
    /\ pc' = [pc EXCEPT ![w] = "next"]
    /\ UNCHANGED <<config, main, mine, done, prepareVars, made, bucket, lost>>

(* Mutant of GetEnds: the object of a failed request is not given back.    *)
GetEndsKeeping(w) ==
    /\ Ends(w, "GET")
    /\ pool' = IF ok[w] THEN pool \cup {obj[w]} ELSE pool
    /\ UNCHANGED issued

(* The object is given back, after an error too.                           *)
GetEnds(w) == Ends(w, "GET") /\ pool' = pool \cup {obj[w]} /\ UNCHANGED issued
StatEnds(w) == Ends(w, "STAT") /\ pool' = pool \cup {obj[w]} /\ UNCHANGED issued
DeleteEnds(w) == Ends(w, "DELETE") /\ UNCHANGED <<pool, issued>>

(* Mutant of Added: an upload is not added.                                *)
AddedNever(w) == {}

(* What joins the pool: the new object if its upload succeeded.            *)
Added(w) == IF ok[w] THEN {new[w]} ELSE {}
CountFailed(w) == issued' = [issued EXCEPT !["failed"] = @ + IF ok[w] THEN 0 ELSE 1]

MixedPutEnds(w) ==
    /\ ~versioned
    /\ Ends(w, "PUT")
    /\ pool' = pool \cup Added(w)
    /\ CountFailed(w)

(* The new version joins, and the object it is a version of comes back.    *)
VersionedPutEnds(w) ==
    /\ versioned
    /\ Ends(w, "PUT")
    /\ pool' = pool \cup Added(w) \cup {obj[w]}
    /\ CountFailed(w)

(* All threads are through.                                                *)
StartReturns ==
    /\ main = "run"
    /\ \A w \in Workers : pc[w] = "left"
    /\ main' = "cleanup"
    /\ UNCHANGED <<config, mine, done, prepareVars, threadVars, issued, storeVars, hostVars>>

(* Cleanup deletes what is under the prefixes of the pool's objects, and   *)
(* everything when there are none (DeleteAllInBucket, as in BenchRun).     *)
Cleanup ==
    /\ main = "cleanup"
    /\ main' = "done"
    /\ bucket' = {o \in bucket : pool # {} /\ o.prefix \notin ObjectPrefixes(pool)}
    /\ UNCHANGED <<config, mine, done, prepareVars, threadVars, issued, made, pool,
                   lost, hostVars>>
-----------------------------------------------------------------------------
PrepareThread(w) == UploadBegins(w) \/ UploadStops(w) \/ UploadEnds(w) \/ UploadFails(w)
Mixed(w) == MixedPutTakes(w) \/ MixedPutEnds(w)
Versioned(w) == newVersion(w) \/ VersionedPutEnds(w)
Thread(w) ==
    \/ Leave(w) \/ getOp(w) \/ RanOut(w) \/ Serve(w)
    \/ GetTakes(w) \/ StatTakes(w) \/ DeleteTakes(w)
    \/ GetEnds(w) \/ StatEnds(w) \/ DeleteEnds(w)
    \/ Mixed(w) \/ Versioned(w)
Main ==
    \/ PrepareRefuses \/ CreateEmptyBucket \/ EnableVersioning \/ PrepareSpawns
    \/ PrepareReturns \/ StartReturns \/ Cleanup

Next == Main \/ Cancel \/ \E w \in Workers : PrepareThread(w) \/ Thread(w)

Spec == Init /\ [][Next]_vars
-----------------------------------------------------------------------------
PoolTypeOK ==
    /\ HostTypeOK
    /\ versioned \in BOOLEAN /\ create \in Creates /\ ops \in OpLists
    /\ main \in {"prepare", "bucket", "clear", "cleared", "created", "versions", "enabled",
                 "upload", "run", "cleanup", "done", "failed", "panic"}
    /\ mine \in Seq(Host)
    /\ done \in BOOLEAN /\ groupErr \in BOOLEAN
    /\ todo \in Nat /\ made \in Nat
    /\ pc \in [Workers -> {"idle", "next", "take", "sent", "reply", "left"}]
    /\ op \in [Workers -> {"GET", "PUT", "DELETE", "STAT", NoOp}]
    /\ obj \in [Workers -> Object \cup {NoObject}]
    /\ new \in [Workers -> Object \cup {NoObject}]
    /\ host \in [Workers -> Host \cup {NoHost}]
    /\ ok \in [Workers -> BOOLEAN]
    /\ issued \in [{"GET", "PUT", "DELETE", "STAT", "failed"} -> Nat]
    /\ pool \subseteq Object /\ bucket \subseteq Object /\ lost \subseteq Object

(* "Remove it until we have read it so it isn't deleted"                   *)
(* (versioned.go:369): an object a thread reads or makes a version of      *)
(* stays in the bucket, nobody else has it, and every object of the pool   *)
(* is in the bucket, until the benchmark cleans up.                        *)
ObjectsTakenExist ==
    main \in {"upload", "run", "cleanup", "panic"} =>
        /\ pool \subseteq bucket
        /\ Held \cap pool = {}
        /\ \A w, v \in Workers : w # v /\ obj[w] # NoObject => obj[w] # obj[v]
        /\ \A w \in Workers : obj[w] # NoObject /\ op[w] # "DELETE" => obj[w] \in bucket

(* A pool of more than Concurrency objects runs out only if the deletes    *)
(* outnumber the uploads so far, failed uploads apart, by what is left of  *)
(* it when every other thread holds an object; in the versioned benchmark  *)
(* the others may each hold an object and owe one, and the thread that     *)
(* finds the pool empty may owe one too.                                   *)
Outstanding == IF versioned THEN 2 * Concurrency - 1 ELSE Concurrency - 1
RunsOutOnlyWhenOverdrawn ==
    main = "panic" =>
        issued["DELETE"] - issued["PUT"] + issued["failed"] >= create - Outstanding

(* "Keep track of handed out clients" (s3client.go:70): the counts of the  *)
(* hosts are the clients in use, those a failed Prepare keeps among them,  *)
(* and a host that is among the least loaded is passed over at most once   *)
(* for every other host.                                                   *)
HostsShared ==
    hostSelect = "weighed" =>
        \A h \in Host :
            /\ running[h] = Cardinality({w \in Workers : host[w] = h})
                            + Cardinality({i \in 1 .. Len(mine) : mine[i] = h})
            /\ passed[h] < Hosts

(* "Cleanup deletes everything uploaded to the bucket." (mixed.go:384,     *)
(* versioned.go:290), of which this holds: unless a request failed and its *)
(* object is not back in the pool, nothing at all is left, whatever the    *)
(* threads took, added and gave back, and under whatever prefixes.         *)
CleanupDeletesUploads == main = "done" /\ lost \subseteq pool => bucket = {}
=============================================================================
