----------------------------- MODULE MCSettings -----------------------------
(* Instances of Deadlines.  The figures of the code (60, 15 and 300 seconds,
   60 for shell.run, 30 for http.request) are scaled down in their order. *)
EXTENDS Deadlines

File(url, token) == [base_url |-> url, bearer_token |-> token]
With(field, value) == [k \in {field} |-> value]
Both(c, d) == [k \in DOMAIN c \cup DOMAIN d |-> IF k \in DOMAIN d THEN d[k] ELSE c[k]]

MCDefaults == [base_url |-> "", bearer_token |-> "",
               lease_seconds |-> 3, heartbeat_interval_seconds |-> 1,
               default_job_timeout_seconds |-> 2,
               allowed_capabilities |-> "all", user_agent |-> "default"]

MCWritten == {Both(File("https", "pfw_1"), Both(With("allowed_capabilities", "some"),
                                               With("default_job_timeout_seconds", 0))),
              Both(File("https", "pfw_1"), With("heartbeat_interval_seconds", 3)),
              Both(File("https", "pfw_1"), With("user_agent", "newline")),
              With("base_url", "https")}

MCOptions == {[k \in {} |-> ""], File("https", "pfw_2"), With("bearer_token", "")}

MCOwn == [c \in {"shell.run"} |-> 1]

MCJobs == [capability : {"shell.run", "fs.read"}, payload : {{}, {3}}, level : {{}, {1}}]
=============================================================================
