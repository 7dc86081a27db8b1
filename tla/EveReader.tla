---- MODULE EveReader ----
\* The reader of a sensor's EVE file (internal/inspection/eve/reader.go,
\* checkpoint.go, identity.go) between the sensor that writes the file, the
\* launcher that rotates it and publishes the epoch of every sensor process
\* (scripts/start-suricata-sensor.sh), the log rotation
\* (scripts/rotate-suricata-logs.sh) and crashes of the engine. Files are
\* numbered in order of creation; a line is a complete record (an incomplete
\* last line ends the consuming loop like the end of the file). Each read of
\* the file system by the reader is a step.
EXTENDS Naturals, Sequences

CONSTANTS
  MaxFiles,    \* bound: files created
  MaxLines,    \* bound: records written to one file
  MaxEpochs,   \* bound: sensor processes
  MaxCrashes   \* bound: engine crashes

VARIABLES
  files,       \* of each file created: the epoch of its writer and its lines
  path,        \* the file named eve.json, or 0
  epochFile,   \* content of sensor.epoch
  sensor,      \* the sensor process and the launcher's progress
  disk,        \* the durable checkpoint
  rd,          \* Run's state: see Started
  offered,     \* identities of the records handed to the sink
  entered,     \* files this engine process has read from
  crashes

vars == <<files, path, epochFile, sensor, disk, rd, offered, entered, crashes>>
world == <<files, path, epochFile, sensor>>

NoCheckpoint == [file |-> 0, offset |-> 0, epoch |-> 0]
ManifestEpoch == 0    \* NewReader's Source.SensorEpoch: the install epoch
Lines(f) == files[f].lines

\* Run up to its loop: the checkpoint is loaded (an unreadable one counts as
\* none), no file is open.
Started(checkpoint) ==
  [pc |-> "epoch", epoch |-> ManifestEpoch, next |-> 0, mark |-> checkpoint,
   file |-> 0, offset |-> 0, size |-> 0, seen |-> 0, then |-> "none"]

Init ==
  /\ files = << >> /\ path = 0 /\ epochFile = 1
  /\ sensor = [state |-> "published", epoch |-> 1, file |-> 0]
  /\ disk = NoCheckpoint /\ rd = Started(NoCheckpoint)
  /\ offered = {} /\ entered = {} /\ crashes = 0

----
\* The sensor and its scripts.

\* The sensor opens its log: a new file under the path, owned by this process.
CreateFile(state) ==
  /\ Len(files) < MaxFiles
  /\ files' = Append(files, [epoch |-> sensor.epoch, lines |-> 0])
  /\ path' = Len(files')
  /\ sensor' = [sensor EXCEPT !.state = state, !.file = Len(files')]
  /\ UNCHANGED <<epochFile, disk, rd, offered, entered, crashes>>

SensorStart == sensor.state = "published" /\ CreateFile("running")

SensorWrite ==
  /\ sensor.state \in {"running", "moved"} /\ Lines(sensor.file) < MaxLines
  /\ files' = [files EXCEPT ![sensor.file].lines = @ + 1]
  /\ UNCHANGED <<path, epochFile, sensor, disk, rd, offered, entered, crashes>>

SensorExit ==
  /\ sensor.state \in {"running", "moved"} /\ sensor.epoch < MaxEpochs
  /\ sensor' = [sensor EXCEPT !.state = "down", !.file = 0]
  /\ UNCHANGED <<files, path, epochFile, disk, rd, offered, entered, crashes>>

\* The launcher of the next process: first the old file loses its name.
LauncherRotate ==
  /\ sensor.state = "down"
  /\ path' = 0 /\ sensor' = [sensor EXCEPT !.state = "rotated"]
  /\ UNCHANGED <<files, epochFile, disk, rd, offered, entered, crashes>>

\* Then the new epoch is published by a rename, before the exec of the sensor.
LauncherPublish ==
  /\ sensor.state = "rotated"
  /\ epochFile' = sensor.epoch + 1
  /\ sensor' = [sensor EXCEPT !.state = "published", !.epoch = @ + 1]
  /\ UNCHANGED <<files, path, disk, rd, offered, entered, crashes>>

\* rotate_sensor: the file is moved away, the running sensor still writes to it,
RotateMove ==
  /\ path # 0 /\ sensor.state = "running"
  /\ path' = 0 /\ sensor' = [sensor EXCEPT !.state = "moved"]
  /\ UNCHANGED <<files, epochFile, disk, rd, offered, entered, crashes>>

\* and the HUP makes it reopen its log.
RotateHup == sensor.state = "moved" /\ CreateFile("running")

----
\* Run.

Finish(next) ==
  /\ rd' = next
  /\ UNCHANGED <<world, disk, offered, entered, crashes>>

\* The loop reads sensor.epoch; a new epoch first drains the open file, up to
\* the size it has now, under the old epoch. A failed read changes nothing.
ReadEpoch ==
  /\ rd.pc = "epoch"
  /\ \/ Finish([rd EXCEPT !.pc = "stat"])
     \/ /\ epochFile # rd.epoch
        /\ Finish([rd EXCEPT !.pc = IF rd.file = 0 THEN "adopt" ELSE "consume",
                             !.next = epochFile, !.then = "adopt",
                             !.size = IF rd.file = 0 THEN 0 ELSE Lines(rd.file)])

\* setSensorEpoch; a checkpoint of another epoch is forgotten.
Adopt ==
  /\ rd.pc = "adopt"
  /\ Finish([rd EXCEPT !.pc = "stat", !.epoch = rd.next, !.file = 0, !.offset = 0,
                       !.mark = IF rd.mark.epoch = rd.next THEN @ ELSE NoCheckpoint])


\* Stat(Path): without a file the loop waits; another file than the open one
\* means a rotation, and the open file is drained before it is left.
Stat ==
  /\ rd.pc = "stat"
  /\ Finish(
       IF path = 0 THEN [rd EXCEPT !.pc = "epoch"]
       ELSE IF rd.file = 0 THEN [rd EXCEPT !.pc = "open"]
       ELSE IF rd.file # path
            THEN [rd EXCEPT !.pc = "consume", !.then = "open", !.size = Lines(rd.file)]
       ELSE [rd EXCEPT !.pc = "consume", !.then = "epoch", !.size = Lines(path)])

\* Open(Path): it may be gone, or another file, by now.
Open ==
  /\ rd.pc = "open"
  /\ Finish(IF path = 0 THEN [rd EXCEPT !.pc = "epoch", !.file = 0, !.offset = 0]
            ELSE [rd EXCEPT !.pc = "check", !.seen = path, !.size = Lines(path),
                            !.file = 0, !.offset = 0])

\* A mutated form: the file is read without looking at the epoch again.
CheckTrusting ==
  /\ rd.pc = "check"
  /\ rd' = [rd EXCEPT !.pc = "consume", !.then = "epoch", !.file = rd.seen,
                      !.offset = IF /\ rd.mark.file = rd.seen /\ rd.mark.epoch = rd.epoch
                                    /\ rd.mark.offset <= rd.size
                                 THEN rd.mark.offset ELSE 0]
  /\ entered' = entered \cup {rd.seen}
  /\ UNCHANGED <<world, disk, offered, crashes>>

\* The epoch read again after Open decides whether the file may be read under
\* it; reading starts at the loaded checkpoint if it is of this very file.
Check ==
  /\ rd.pc = "check"
  /\ \/ Finish([rd EXCEPT !.pc = "epoch"])
     \/ /\ epochFile = rd.epoch
        /\ rd' = [rd EXCEPT !.pc = "consume", !.then = "epoch", !.file = rd.seen,
                            !.offset = IF /\ rd.mark.file = rd.seen /\ rd.mark.epoch = rd.epoch
                                          /\ rd.mark.offset <= rd.size
                                       THEN rd.mark.offset ELSE 0]
        /\ entered' = entered \cup {rd.seen}
        /\ UNCHANGED <<world, disk, offered, crashes>>

\* EventID: a record is known by epoch, file and position.
EventID == [epoch |-> rd.epoch, file |-> rd.file, at |-> rd.offset + 1]

\* consumeAvailable, one line: the offset moves, and the observation goes to the
\* sink under its identity. A full queue drops it for good (queueDrop), so here
\* accepted and dropped are alike.
ConsumeLine ==
  /\ rd.pc = "consume" /\ rd.offset < rd.size
  /\ rd' = [rd EXCEPT !.pc = "save", !.offset = @ + 1]
  /\ offered' = offered \cup {EventID}
  /\ UNCHANGED <<world, disk, entered, crashes>>

\* Save after each line; a failed save is only reported.
SaveCheckpoint ==
  /\ rd.pc = "save"
  /\ disk' \in {disk, [file |-> rd.file, offset |-> rd.offset, epoch |-> rd.epoch]}
  /\ rd' = [rd EXCEPT !.pc = "consume"]
  /\ UNCHANGED <<world, offered, entered, crashes>>

\* The end of what there was to read: after a drain the file is closed.
Consumed ==
  /\ rd.pc = "consume" /\ rd.offset = rd.size
  /\ Finish(IF rd.then = "epoch" THEN [rd EXCEPT !.pc = "epoch"]
            ELSE [rd EXCEPT !.pc = rd.then, !.file = 0, !.offset = 0])

\* The engine dies and is started again.
EngineCrash ==
  /\ crashes < MaxCrashes
  /\ crashes' = crashes + 1 /\ entered' = {}
  /\ \E mark \in {disk, NoCheckpoint} : rd' = Started(mark)
  /\ UNCHANGED <<world, disk, offered>>

Next ==
  \/ SensorStart \/ SensorWrite \/ SensorExit
  \/ LauncherRotate \/ LauncherPublish \/ RotateMove \/ RotateHup
  \/ ReadEpoch \/ Adopt \/ Stat \/ Open \/ Check
  \/ ConsumeLine \/ SaveCheckpoint \/ Consumed
  \/ EngineCrash

Spec == Init /\ [][Next]_vars

----
\* "so records from separate sensor processes never share IDs" (reader.go
\* 119-121): although the launcher rotates and publishes between any two reads
\* of the reader, every observation carries the epoch of the process that wrote
\* it, so that a record read twice has one identity and two have two.
EpochAttributed == \A s \in offered : s.epoch = files[s.file].epoch

Offered(f, i) == \E s \in offered : s.file = f /\ s.at = i

====
