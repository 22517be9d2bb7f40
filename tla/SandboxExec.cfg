SPECIFICATION ExecSpec
INVARIANT SandboxStarts
CHECK_DEADLOCK FALSE
