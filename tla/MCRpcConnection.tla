-------------------------- MODULE MCRpcConnection --------------------------
(* Instances of RpcConnection for TLC.                                     *)
EXTENDS RpcConnection

CONSTANTS subscribe, list, first, second, third, fourth, fifth, sixth, seventh

Mutation == {first, second, third, fourth, fifth, sixth, seventh}

MCRequest == Mutation \cup {subscribe, list}

\* Mutations enough to fill, with one waiting, the lane, the worker and the
\* responses; a reader finishes among them.
PipelineScript == <<first, second, list, third, fourth, fifth, sixth, seventh>>

\* What a frontend sends once it is connected: the subscription and the reads
\* it shows.
ReloadScript == <<subscribe, list, first>>

\* A short pipeline, with a frame that may be large.
LargeScript == <<first, second, third>>

MCScripts == {PipelineScript, ReloadScript}

MCLargeScripts == {LargeScript}

=============================================================================
