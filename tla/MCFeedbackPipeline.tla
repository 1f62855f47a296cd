-------------------------- MODULE MCFeedbackPipeline --------------------------
(* FeedbackPipeline on small instances.                                    *)
EXTENDS FeedbackPipeline
=============================================================================
