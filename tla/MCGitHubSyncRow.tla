-------------------------- MODULE MCGitHubSyncRow --------------------------
(* Instances of GitHubSyncRow: users' requests and passes of the retry job.    *)
EXTENDS GitHubSyncRow, TLC

Interchangeable == Permutations(Starts) \cup Permutations(Retries) \cup Permutations(Sources)
=============================================================================
