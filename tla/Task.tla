-------------------------------- MODULE Task --------------------------------
(***************************************************************************)
(* The task list of src/kern/task.c as operators over a sequence of task  *)
(* records, in `tasks` list order; Boot holds it in a variable.  A task's *)
(* name is kept as the number of bytes task_create copies.                *)
(***************************************************************************)
EXTENDS Integers, Sequences

TASK_STATE_INACTIVE == 0
TASK_NAME_MAX_LEN == 32

\* task_create: zalloc(task_zone), ref_count 2, INACTIVE, the next pid,
\* the name clamped to TASK_NAME_MAX_LEN bytes, an empty thread list, and
\* list_add_tail onto `tasks`.  Returns the new list and task_pid.
task_create(tasks, task_pid, name_len) ==
    [tasks |-> Append(tasks, [pid |-> task_pid, state |-> TASK_STATE_INACTIVE,
                              ref_count |-> 2, threads |-> <<>>,
                              name_len |-> IF name_len > TASK_NAME_MAX_LEN
                                           THEN TASK_NAME_MAX_LEN ELSE name_len]),
     task_pid |-> task_pid + 1]

\* task_assign_thread: list_add_tail of the thread onto the task's threads.
task_assign_thread(tasks, i, t) == [tasks EXCEPT ![i].threads = Append(@, t)]
=============================================================================
